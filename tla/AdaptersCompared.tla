-------------------------- MODULE AdaptersCompared --------------------------
(***************************************************************************)
(* SLRUBalanceCacheL1 and VersionedMapCache side by side: each call is     *)
(* made to both.  The dictionary, which forgets nothing it need not        *)
(* forget, is the measure of the bounded one.                              *)
(***************************************************************************)
EXTENDS SLRUCache

VARIABLES
  cached,     \* the dictionary of the baseline
  answer      \* what its last call returned

Baseline == INSTANCE VersionedMapCache WITH hit <- answer

comparedVars == <<cache, hit, cached, answer>>

InitBoth == Init /\ Baseline!Init

GetFromBoth(k, expected) ==
  GetIfFresh(k, expected) /\ Baseline!GetIfFresh(k, expected)

PutInBoth(k, item) == Put(k, item) /\ Baseline!Put(k, item)

InvalidateBoth(k) == Invalidate(k) /\ Baseline!Invalidate(k)

NextBoth ==
  \E k \in CacheKeys :
    \/ \E expected \in Versions : GetFromBoth(k, expected)
    \/ \E item \in Item : PutInBoth(k, item)
    \/ InvalidateBoth(k)

SpecBoth == InitBoth /\ [][NextBoth]_comparedVars

\* Keys differ in nothing but their name.
KeysAreAlike == Permutations(CacheKeys)

-----------------------------------------------------------------------------
\* VersionedMapCache keeps the contract of BalanceCacheL1.
BaselineImplementsContract == Baseline!ImplementsContract

\* An eviction forgets the version of an entry too, and so lets an older balance
\* in later.  It never gets ahead by that: each entry of the bounded cache is
\* the baseline's, or older than the baseline's.
NeverAheadOfBaseline ==
  \A k \in DOMAIN cache.nodes :
    /\ k \in DOMAIN cached
    /\ \/ cache.nodes[k].value = cached[k]
       \/ VersionOf(cache, k) < cached[k].ledger_version
=============================================================================
