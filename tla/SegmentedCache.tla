--------------------------- MODULE SegmentedCache ---------------------------
(***************************************************************************)
(* What SLRUBalanceCacheL1 and WTinyLFUBalanceCacheL1 have in common: an   *)
(* index of nodes by key, and one recency list of keys per segment, most   *)
(* recent first (the lists themselves are the subject of RecencyList).     *)
(* The methods are operators on a cache value c, and call one another as   *)
(* in the code.                                                            *)
(***************************************************************************)
EXTENDS CacheEntries, SequencesExt

CONSTANTS ProtectedCapacity, ProbationCapacity

ASSUME CapacitiesAssumption ==
  /\ ProtectedCapacity \in Nat \ {0}
  /\ ProbationCapacity \in Nat \ {0}

Segments == {"window", "probation", "protected"}

Node == [value : Item, segment : Segments]

Empty == [nodes |-> <<>>, order |-> [s \in Segments |-> <<>>]]

Has(c, k) == k \in DOMAIN c.nodes

VersionOf(c, k) == c.nodes[k].value.ledger_version

\* A bug to be found: an older balance replaces a newer one.
Older_Never(c, k, item) == FALSE

\* A bug to be found: a balance of the same version is not refreshed.
Older_OrEqual(c, k, item) == item.ledger_version <= VersionOf(c, k)

Older(c, k, item) == item.ledger_version < VersionOf(c, k)

(***************************************************************************)
(* The steps the methods are made of.                                      *)
(***************************************************************************)
\* The list a node is removed from is the one its segment names.
Unlink(c, k) == [c EXCEPT !.order[c.nodes[k].segment] = RemoveFirst(@, k)]

PushFront(c, k, s) == [c EXCEPT !.nodes[k].segment = s,
                                !.order[s] = <<k>> \o @]

PopTail(c, s) == [c EXCEPT !.order[s] = Front(@)]

Forget(c, k) == [c EXCEPT !.nodes = Restrict(@, DOMAIN @ \ {k})]

RemoveNode(c, k) == Forget(Unlink(c, k), k)

NewNode(c, k, item, s) ==
  [nodes |-> Assigned(c.nodes, k, [value |-> item, segment |-> s]),
   order |-> [c.order EXCEPT ![s] = <<k>> \o @]]

(***************************************************************************)
(* Promotion of a node that was hit on probation.                          *)
(***************************************************************************)
EvictProbationTailIfNeeded(c) ==
  LET probation == c.order["probation"] IN
  IF Len(probation) > ProbationCapacity
  THEN Forget(PopTail(c, "probation"), Last(probation))
  ELSE c

\* A bug to be found: the demoted node is still marked protected.
DemoteIfNeeded_KeepsMark(c) ==
  LET protected == c.order["protected"] IN
  IF Len(protected) > ProtectedCapacity
  THEN EvictProbationTailIfNeeded(
         [PopTail(c, "protected") EXCEPT
            !.order["probation"] = <<Last(protected)>> \o @])
  ELSE c

DemoteIfNeeded(c) ==
  LET protected == c.order["protected"] IN
  IF Len(protected) > ProtectedCapacity
  THEN EvictProbationTailIfNeeded(
         PushFront(PopTail(c, "protected"), Last(protected), "probation"))
  ELSE c

PromoteToProtected(c, k) ==
  DemoteIfNeeded(PushFront(Unlink(c, k), k, "protected"))

MoveToFront(c, k) == PushFront(Unlink(c, k), k, c.nodes[k].segment)

Touch(c, k) ==
  IF c.nodes[k].segment = "probation" THEN PromoteToProtected(c, k)
                                      ELSE MoveToFront(c, k)

(***************************************************************************)
(* Properties of a cache value.                                            *)
(***************************************************************************)
Listed(c, s) == {c.order[s][i] : i \in DOMAIN c.order[s]}

\* The index, the marks of the nodes and the lists agree: each node is in
\* the list of its segment, once, and nothing else is listed.  Where they
\* did not, the adapters would raise a RuntimeError.
InSync(c) ==
  \A s \in Segments :
    /\ Listed(c, s) = {k \in DOMAIN c.nodes : c.nodes[k].segment = s}
    /\ Len(c.order[s]) = Cardinality(Listed(c, s))

\* What the contract sees of a cache.
Content(c) ==
  [k \in CacheKeys |-> IF Has(c, k) THEN c.nodes[k].value ELSE Nothing]
=============================================================================
