---------------------------- MODULE WTinyLFUCache ----------------------------
(***************************************************************************)
(* WTinyLFUBalanceCacheL1 of adapters/cache/wtinylfu_cache.py, the cache   *)
(* the service runs with: a window for new entries, the main segments      *)
(* probation and protected, and a frequency sketch that decides which      *)
(* entries that leave the window are admitted to probation.                *)
(***************************************************************************)
EXTENDS SegmentedCache, FrequencySketch

CONSTANT WindowCapacity

ASSUME WindowAssumption == WindowCapacity \in Nat \ {0}

VARIABLES
  cache,      \* the index and the lists
  hit         \* what the last call returned

vars == <<cache, hit, sketch>>

Capacity == WindowCapacity + ProbationCapacity + ProtectedCapacity

Init ==
  /\ cache = Empty
  /\ hit = Nothing
  /\ SketchInit

(***************************************************************************)
(* get_if_fresh                                                            *)
(***************************************************************************)
\* There is no entry, or one a reader of a later version has put.
Miss(k, expected) ==
  /\ Has(cache, k) => expected < VersionOf(cache, k)
  /\ hit' = Nothing
  /\ UNCHANGED <<cache, sketch>>

\* An outdated entry is removed.
MissOutdated(k, expected) ==
  /\ Has(cache, k) /\ expected > VersionOf(cache, k)
  /\ cache' = RemoveNode(cache, k)
  /\ hit' = Nothing
  /\ UNCHANGED sketch

Hit(k, expected) ==
  /\ Has(cache, k) /\ expected = VersionOf(cache, k)
  /\ cache' = Touch(cache, k)
  /\ Increment(k)
  /\ hit' = cache.nodes[k].value

(***************************************************************************)
(* put                                                                     *)
(***************************************************************************)
PutOlder(k, item) ==
  /\ Has(cache, k) /\ Older(cache, k, item)
  /\ hit' = Nothing
  /\ UNCHANGED <<cache, sketch>>

PutAgain(k, item) ==
  /\ Has(cache, k) /\ ~Older(cache, k, item)
  /\ cache' = Touch([cache EXCEPT !.nodes[k].value = item], k)
  /\ Increment(k)
  /\ hit' = Nothing

\* A bug to be found: an equally frequent candidate displaces its victim.
Admits_Equal(t, candidate, victim) ==
  Estimate(t, victim) <= Estimate(t, candidate)

\* A bug to be found: every candidate displaces its victim.
Admits_Always(t, candidate, victim) == TRUE

\* The candidate must be more frequent than its victim.
Admits(t, candidate, victim) == Estimate(t, victim) < Estimate(t, candidate)

\* _admit_window_candidate, with the counters t; the candidate has been taken
\* from the window.
AdmitWindowCandidate(c, candidate, t) ==
  LET probation == c.order["probation"]
      victim    == Last(probation)
  IN
  IF Len(probation) < ProbationCapacity
  THEN PushFront(c, candidate, "probation")
  ELSE IF Admits(t, candidate, victim)
  THEN Forget(PushFront(PopTail(c, "probation"), candidate, "probation"),
              victim)
  ELSE Forget(c, candidate)

\* _insert_new_into_window: the access is counted before the comparison.
PutNew(k, item) ==
  LET inserted == NewNode(cache, k, item, "window")
      window   == inserted.order["window"]
  IN
  /\ ~Has(cache, k)
  /\ Increment(k)
  /\ cache' = IF Len(window) > WindowCapacity
              THEN AdmitWindowCandidate(PopTail(inserted, "window"),
                                        Last(window), table')
              ELSE inserted
  /\ hit' = Nothing

Invalidate(k) ==
  /\ cache' = IF Has(cache, k) THEN RemoveNode(cache, k) ELSE cache
  /\ hit' = Nothing
  /\ UNCHANGED sketch

GetIfFresh(k, expected) ==
  Miss(k, expected) \/ MissOutdated(k, expected) \/ Hit(k, expected)

Put(k, item) == PutOlder(k, item) \/ PutAgain(k, item) \/ PutNew(k, item)

Next ==
  \E k \in CacheKeys :
    \/ \E expected \in Versions : GetIfFresh(k, expected)
    \/ \E item \in Item : Put(k, item)
    \/ Invalidate(k)

Spec == Init /\ [][Next]_vars

-----------------------------------------------------------------------------
\* The variables keep to their types, the index, the marks and the lists
\* agree, and no segment outgrows its share: _evict_probation_tail_if_needed
\* never has anything to evict.
CacheOK ==
  /\ DOMAIN cache.nodes \subseteq CacheKeys
  /\ \A k \in DOMAIN cache.nodes : cache.nodes[k] \in Node
  /\ hit \in Item \cup {Nothing}
  /\ InSync(cache)
  /\ Len(cache.order["window"]) <= WindowCapacity
  /\ Len(cache.order["probation"]) <= ProbationCapacity
  /\ Len(cache.order["protected"]) <= ProtectedCapacity

\* The keys a put displaced.
Displaced == DOMAIN cache.nodes \ DOMAIN cache'.nodes

\* Scan resistance: new entries never displace a protected one, and displace
\* another only if an entry is kept that the sketch finds more frequent than
\* one of probation, or as frequent as one that leaves the window.
ScansDisplaceOnlyColder ==
  [][DOMAIN cache'.nodes \subseteq DOMAIN cache.nodes
     \/ \A d \in Displaced :
          LET mark == cache.nodes[d].segment IN
          /\ mark # "protected"
          /\ \E kept \in DOMAIN cache.nodes \ {d} :
               /\ Has(cache', kept)
               /\ \/ Estimate(table', kept) > Estimate(table', d)
                  \/ /\ mark = "window"
                     /\ Estimate(table', kept) = Estimate(table', d)]_vars

\* Whatever it retains, it is a balance cache: each call does what the same
\* call of the contract may do.
Contract == INSTANCE BalanceCache WITH content <- Content(cache)

CallsKeepContract ==
  \A k \in CacheKeys :
    /\ \A expected \in Versions :
         GetIfFresh(k, expected) => Contract!GetIfFresh(k, expected)
    /\ \A item \in Item : Put(k, item) => Contract!Put(k, item)
    /\ Invalidate(k) => Contract!Invalidate(k)

ImplementsContract == Contract!Spec /\ [][CallsKeepContract]_vars
=============================================================================
