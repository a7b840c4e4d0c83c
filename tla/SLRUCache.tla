------------------------------ MODULE SLRUCache ------------------------------
(***************************************************************************)
(* SLRUBalanceCacheL1 of adapters/cache/slru_cache.py: new entries start   *)
(* on probation and are protected once they were hit.                      *)
(***************************************************************************)
EXTENDS SegmentedCache

VARIABLES
  cache,      \* the index and the lists
  hit         \* what the last call returned

vars == <<cache, hit>>

Init ==
  /\ cache = Empty
  /\ hit = Nothing

\* There is no entry, or one a reader of a later version has put.
Miss(k, expected) ==
  /\ Has(cache, k) => expected < VersionOf(cache, k)
  /\ hit' = Nothing
  /\ UNCHANGED cache

\* An outdated entry is removed.
MissOutdated(k, expected) ==
  /\ Has(cache, k) /\ expected > VersionOf(cache, k)
  /\ cache' = RemoveNode(cache, k)
  /\ hit' = Nothing

Hit(k, expected) ==
  /\ Has(cache, k) /\ expected = VersionOf(cache, k)
  /\ cache' = Touch(cache, k)
  /\ hit' = cache.nodes[k].value

PutOlder(k, item) ==
  /\ Has(cache, k) /\ Older(cache, k, item)
  /\ hit' = Nothing
  /\ UNCHANGED cache

PutAgain(k, item) ==
  /\ Has(cache, k) /\ ~Older(cache, k, item)
  /\ cache' = Touch([cache EXCEPT !.nodes[k].value = item], k)
  /\ hit' = Nothing

\* A bug to be found: nothing is evicted.
Inserted_NoEviction(c, k, item) == NewNode(c, k, item, "probation")

Inserted(c, k, item) ==
  EvictProbationTailIfNeeded(NewNode(c, k, item, "probation"))

PutNew(k, item) ==
  /\ ~Has(cache, k)
  /\ cache' = Inserted(cache, k, item)
  /\ hit' = Nothing

Invalidate(k) ==
  /\ cache' = IF Has(cache, k) THEN RemoveNode(cache, k) ELSE cache
  /\ hit' = Nothing

GetIfFresh(k, expected) ==
  Miss(k, expected) \/ MissOutdated(k, expected) \/ Hit(k, expected)

Put(k, item) == PutOlder(k, item) \/ PutAgain(k, item) \/ PutNew(k, item)

Next ==
  \E k \in CacheKeys :
    \/ \E expected \in Versions : GetIfFresh(k, expected)
    \/ \E item \in Item : Put(k, item)
    \/ Invalidate(k)

Spec == Init /\ [][Next]_vars

-----------------------------------------------------------------------------
\* The variables keep to their types, the index, the marks and the lists
\* agree, the window is not used and no segment outgrows its share.
CacheOK ==
  /\ DOMAIN cache.nodes \subseteq CacheKeys
  /\ \A k \in DOMAIN cache.nodes : cache.nodes[k] \in Node
  /\ hit \in Item \cup {Nothing}
  /\ InSync(cache)
  /\ cache.order["window"] = <<>>
  /\ Len(cache.order["probation"]) <= ProbationCapacity
  /\ Len(cache.order["protected"]) <= ProtectedCapacity

\* Whatever it retains, it is a balance cache: each call does what the same
\* call of the contract may do.
Contract == INSTANCE BalanceCache WITH content <- Content(cache)

CallsKeepContract ==
  \A k \in CacheKeys :
    /\ \A expected \in Versions :
         GetIfFresh(k, expected) => Contract!GetIfFresh(k, expected)
    /\ \A item \in Item : Put(k, item) => Contract!Put(k, item)
    /\ Invalidate(k) => Contract!Invalidate(k)

ImplementsContract == Contract!Spec /\ [][CallsKeepContract]_vars
=============================================================================
