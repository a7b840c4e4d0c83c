--------------------------- MODULE AdaptersProofs ---------------------------
(***************************************************************************)
(* Proofs about the segmented LRU cache and about the dictionary that is   *)
(* its baseline, for any keys, balances, versions and capacities.          *)
(***************************************************************************)
EXTENDS AdaptersCompared, SegmentedCacheProofs

SLRUInv == Sound(cache, 0) /\ hit \in Item \cup {Nothing}

LEMMA SLRUInvIsOK ==
  ASSUME SLRUInv
  PROVE  CacheOK
<1>1. Kept(cache, {}) /\ Fits(cache) /\ Len(cache.order["window"]) <= 0
  BY DEF SLRUInv, Sound
<1>2. cache.order["window"] = <<>>
  <2>1. "window" \in Segments
    BY DEF Segments
  <2>2. cache.order["window"] \in Seq(CacheKeys)
    BY <1>1, <2>1, ValueParts DEF Kept
  <2>3. Len(cache.order["window"]) \in Nat
    BY <1>1, <2>1, LengthsNat
  <2> QED
    BY <1>1, <2>2, <2>3, EmptySeq
<1>3. /\ DOMAIN cache.nodes \subseteq CacheKeys
      /\ \A k \in DOMAIN cache.nodes : cache.nodes[k] \in Node
      /\ InSync(cache)
  BY SoundIsInSync DEF SLRUInv
<1> QED
  BY <1>1, <1>2, <1>3 DEF CacheOK, Fits, SLRUInv

LEMMA SLRUStart == Init => SLRUInv
BY EmptyIsSound DEF Init, SLRUInv

\* get_if_fresh
LEMMA GetStep ==
  ASSUME SLRUInv, NEW k \in CacheKeys, NEW expected \in Versions,
         GetIfFresh(k, expected)
  PROVE  SLRUInv' /\ GetDone(cache, cache', k, expected, hit')
<1>1. Sound(cache, 0) /\ Kept(cache, {})
  BY DEF SLRUInv, Sound
<1>2. Has(cache, k) => /\ VersionOf(cache, k) \in Nat /\ expected \in Nat
                       /\ cache.nodes[k].value \in Item
  BY <1>1, VersionsCompare DEF Has
<1>3. CASE Miss(k, expected)
  <2>1. cache' = cache /\ hit' = Nothing
    BY <1>3 DEF Miss
  <2>2. ~(Has(cache, k) /\ VersionOf(cache, k) < expected)
    BY <1>2, <1>3 DEF Miss
  <2>3. ~(Has(cache, k) /\ VersionOf(cache, k) = expected)
    BY <1>2, <1>3 DEF Miss
  <2>4. SameEntries(cache, cache')
    BY <2>1 DEF SameEntries
  <2> QED
    BY <1>1, <2>1, <2>2, <2>3, <2>4 DEF SLRUInv, GetDone
<1>4. CASE MissOutdated(k, expected)
  <2>1. Has(cache, k) /\ VersionOf(cache, k) < expected
    BY <1>2, <1>4 DEF MissOutdated
  <2>2. cache' = RemoveNode(cache, k) /\ hit' = Nothing
    BY <1>4 DEF MissOutdated
  <2>3. Sound(cache', 0) /\ Without(cache, cache', k)
    BY <1>1, <2>1, <2>2, RemovalIsSound DEF Has
  <2> QED
    BY <2>1, <2>2, <2>3 DEF SLRUInv, GetDone
<1>5. CASE Hit(k, expected)
  <2>1. Has(cache, k) /\ VersionOf(cache, k) = expected
    BY <1>5 DEF Hit
  <2>2. cache' = Touch(cache, k) /\ hit' = cache.nodes[k].value
    BY <1>5 DEF Hit
  <2>3. Retained(cache, cache')
    BY <1>1, <2>1, <2>2, TouchKeeps DEF Has, Sound
  <2>4. Sound(cache', 0) /\ SameEntries(cache, cache')
    BY <1>1, <2>3, RetainedIsSound DEF Retained
  <2>5. ~(VersionOf(cache, k) < expected) /\ hit' \in Item
    BY <1>2, <2>1, <2>2
  <2> QED
    BY <2>1, <2>2, <2>4, <2>5 DEF SLRUInv, GetDone
<1> QED
  BY <1>3, <1>4, <1>5 DEF GetIfFresh

\* put of a key that is there
LEMMA PutAgainStep ==
  ASSUME SLRUInv, NEW k \in CacheKeys, NEW item \in Item, PutAgain(k, item)
  PROVE  Sound(cache', 0) /\ Gained(cache, cache', k, item, {})
BY PutAgainIsSound DEF SLRUInv, PutAgain, Has

\* put of a new key
LEMMA PutNewStep ==
  ASSUME SLRUInv, NEW k \in CacheKeys, NEW item \in Item, PutNew(k, item)
  PROVE  /\ Sound(cache', 0)
         /\ \/ Gained(cache, cache', k, item, {})
            \/ \E v \in CacheKeys : Gained(cache, cache', k, item, {v})
<1>1. Sound(cache, 0) /\ Kept(cache, {}) /\ ~Has(cache, k)
  BY DEF SLRUInv, Sound, PutNew
<1>2. /\ "probation" \in Segments /\ "protected" \in Segments
      /\ "window" \in Segments /\ "probation" # "protected"
      /\ "window" \notin {"probation"} /\ "protected" \notin {"probation"}
  BY DEF Segments
<1>3. PICK n, was, d : /\ n = NewNode(cache, k, item, "probation")
                       /\ was = cache.order["probation"]
                       /\ d = cache'
  OBVIOUS
<1>4. Added(cache, n, k, item, "probation", {})
  BY <1>1, <1>2, <1>3, NewNodeKeeps
<1>5. /\ Kept(n, {}) /\ n.order["probation"] = <<k>> \o was
      /\ Len(n.order["probation"]) = Len(was) + 1
      /\ n.order["protected"] = cache.order["protected"]
      /\ n.order["window"] = cache.order["window"]
      /\ DOMAIN n.nodes = DOMAIN cache.nodes \cup {k}
      /\ n.nodes[k].value = item
      /\ \A j \in DOMAIN cache.nodes : n.nodes[j] = cache.nodes[j]
  BY <1>2, <1>3, <1>4 DEF Added, OthersStay
<1>6. d = EvictProbationTailIfNeeded(n)
  BY <1>3 DEF PutNew, Inserted
<1>7. /\ Len(was) \in Nat /\ Len(was) <= ProbationCapacity
      /\ Len(n.order["protected"]) <= ProtectedCapacity
      /\ ProbationCapacity \in Nat \ {0}
      /\ Len(n.order["window"]) <= 0
  BY <1>1, <1>2, <1>3, <1>5, LengthsNat, CapacitiesAssumption DEF Sound, Fits
<1>8. CASE Len(n.order["probation"]) <= ProbationCapacity
  <2>1. d = n
    BY <1>5, <1>6, <1>7, <1>8 DEF EvictProbationTailIfNeeded
  <2>2. Sound(n, 0)
    BY <1>5, <1>7, <1>8 DEF Sound, Fits
  <2>3. Gained(cache, n, k, item, {})
    BY <1>1, <1>5 DEF Gained, Has
  <2> QED
    BY <1>3, <2>1, <2>2, <2>3
<1>9. CASE Len(n.order["probation"]) > ProbationCapacity
  <2>1. PICK v : v = Last(n.order["probation"])
    OBVIOUS
  <2>2. /\ Shrunk(n, d, {v})
        /\ OthersStay(n, d, {"probation"})
        /\ Len(d.order["probation"]) = Len(n.order["probation"]) - 1
    BY <1>5, <1>6, <1>9, <2>1, EvictKeeps
  <2>3. v \in DOMAIN cache.nodes
    \* Probation held an entry before, and that is still the last one.
    <3>1. Len(was) # 0 /\ was \in Seq(CacheKeys)
      BY <1>1, <1>2, <1>3, <1>5, <1>7, <1>9, ValueParts DEF Kept
    <3>2. v = Last(was)
      BY <1>5, <2>1, <3>1 DEF Last
    <3>3. Taken(cache, PopTail(cache, "probation"), v, "probation", {})
      BY <1>1, <1>2, <1>3, <3>1, <3>2, PopTailKeeps
    <3> QED
      BY <3>3 DEF Taken, Marked
  <2>4. v \in CacheKeys /\ v # k
    BY <1>1, <2>3, ValueParts DEF Kept, Has
  <2>5. Sound(d, 0)
    <3>1. Kept(d, {}) /\ Len(d.order["probation"]) <= ProbationCapacity
      BY <1>5, <1>7, <2>2 DEF Shrunk
    <3>2. /\ d.order["protected"] = n.order["protected"]
          /\ d.order["window"] = n.order["window"]
      BY <1>2, <2>2 DEF OthersStay
    <3> QED
      BY <1>7, <3>1, <3>2 DEF Sound, Fits
  <2>6. Gained(cache, d, k, item, {v})
    BY <1>5, <2>2, <2>4 DEF Gained, Shrunk
  <2> QED
    BY <1>3, <2>4, <2>5, <2>6
<1>10. \/ Len(n.order["probation"]) <= ProbationCapacity
       \/ Len(n.order["probation"]) > ProbationCapacity
  BY <1>5, <1>7
<1> QED
  BY <1>8, <1>9, <1>10

\* put
LEMMA PutStep ==
  ASSUME SLRUInv, NEW k \in CacheKeys, NEW item \in Item, Put(k, item)
  PROVE  SLRUInv' /\ PutDone(cache, cache', k, item)
<1>1. CASE PutOlder(k, item)
  <2>1. cache' = cache /\ hit' = Nothing
    BY <1>1 DEF PutOlder
  <2>2. SLRUInv'
    BY <2>1 DEF SLRUInv
  <2>3. SameEntries(cache, cache') /\ Has(cache, k) /\ Older(cache, k, item)
    BY <1>1, <2>1 DEF SameEntries, PutOlder
  <2> QED
    BY <2>2, <2>3 DEF PutDone
<1>2. CASE PutAgain(k, item)
  <2>1. Sound(cache', 0) /\ Gained(cache, cache', k, item, {})
    BY <1>2, PutAgainStep
  <2>2. hit' = Nothing /\ ~(Has(cache, k) /\ Older(cache, k, item))
    BY <1>2 DEF PutAgain
  <2> QED
    BY <2>1, <2>2 DEF SLRUInv, PutDone
<1>3. CASE PutNew(k, item)
  <2>1. /\ Sound(cache', 0)
        /\ \/ Gained(cache, cache', k, item, {})
           \/ \E v \in CacheKeys : Gained(cache, cache', k, item, {v})
    BY <1>3, PutNewStep
  <2>2. hit' = Nothing /\ ~Has(cache, k)
    BY <1>3 DEF PutNew
  <2> QED
    BY <2>1, <2>2 DEF SLRUInv, PutDone
<1> QED
  BY <1>1, <1>2, <1>3 DEF Put

\* invalidate
LEMMA InvalidateStep ==
  ASSUME SLRUInv, NEW k \in CacheKeys, Invalidate(k)
  PROVE  SLRUInv' /\ Without(cache, cache', k)
<1>1. Sound(cache, 0)
  BY DEF SLRUInv
<1>2. Sound(cache', 0) /\ Without(cache, cache', k)
  <2>1. CASE Has(cache, k)
    <3>1. cache' = RemoveNode(cache, k)
      BY <2>1 DEF Invalidate
    <3> QED
      BY <1>1, <2>1, <3>1, RemovalIsSound DEF Has
  <2>2. CASE ~Has(cache, k)
    <3>1. cache' = cache
      BY <2>2 DEF Invalidate
    <3> QED
      BY <1>1, <2>2, <3>1 DEF Has, Without
  <2> QED
    BY <2>1, <2>2
<1> QED
  BY <1>2 DEF SLRUInv, Invalidate

LEMMA SLRUStep == SLRUInv /\ [Next]_vars => SLRUInv'
<1>1. SLRUInv /\ UNCHANGED vars => SLRUInv'
  BY DEF SLRUInv, vars
<1> QED
  BY <1>1, GetStep, PutStep, InvalidateStep DEF Next

\* After any calls the index, the marks and the lists of SLRUBalanceCacheL1
\* agree, so that none of its RuntimeErrors is raised, and no segment holds
\* more than its share.
THEOREM SLRUSound == Spec => []CacheOK
<1>1. Spec => []SLRUInv
  BY SLRUStart, SLRUStep, PTL DEF Spec
<1> QED
  BY <1>1, SLRUInvIsOK, PTL

-----------------------------------------------------------------------------
(***************************************************************************)
(* SLRUBalanceCacheL1 keeps the contract of BalanceCacheL1.                *)
(***************************************************************************)
\* The contract's words are ours.
LEMMA ContractWords ==
  ASSUME NEW f, NEW k, NEW item, NEW expected
  PROVE  /\ Contract!Fresh(item, expected) = Fresh(item, expected)
         /\ Contract!AfterGet(f, k, expected) = AfterGet(f, k, expected)
         /\ Contract!AfterPut(f, k, item) = AfterPut(f, k, item)
BY DEF Contract!Fresh, Fresh, Contract!Outdated, Outdated,
       Contract!AfterGet, AfterGet, Contract!Replaced, Replaced,
       Contract!Entered, Entered, Contract!AfterPut, AfterPut

LEMMA ContractStart == Init => Contract!Init
<1> SUFFICES ASSUME Init PROVE Contract!Init
  OBVIOUS
<1>1. DOMAIN cache.nodes = {} /\ hit = Nothing
  BY DEF Init, Empty
<1>2. Content(cache) = [k \in CacheKeys |-> Nothing]
  BY <1>1 DEF Content, Has
<1> QED
  BY <1>1, <1>2 DEF Contract!Init

LEMMA CallsKeep ==
  ASSUME SLRUInv, SLRUInv', NEW k \in CacheKeys
  PROVE  /\ \A expected \in Versions :
              GetIfFresh(k, expected) => Contract!GetIfFresh(k, expected)
         /\ \A item \in Item : Put(k, item) => Contract!Put(k, item)
         /\ Invalidate(k) => Contract!Invalidate(k)
<1>1. Kept(cache, {}) /\ Kept(cache', {})
  BY DEF SLRUInv, Sound
<1>2. ASSUME NEW expected \in Versions, GetIfFresh(k, expected)
      PROVE  Contract!GetIfFresh(k, expected)
  <2>1. GetDone(cache, cache', k, expected, hit')
    BY <1>2, GetStep
  <2>2. /\ hit' = IF Fresh(Content(cache)[k], expected)
                  THEN Content(cache)[k] ELSE Nothing
        /\ Content(cache') = AfterGet(Content(cache), k, expected)
    BY <1>1, <2>1, GetKeepsContract
  <2> QED
    BY <2>2, ContractWords DEF Contract!GetIfFresh
<1>3. ASSUME NEW item \in Item, Put(k, item)
      PROVE  Contract!Put(k, item)
  <2>1. PutDone(cache, cache', k, item)
    BY <1>3, PutStep
  <2>2. Content(cache') \in AfterPut(Content(cache), k, item)
    BY <1>1, <2>1, PutKeepsContract
  <2>3. hit' = Nothing
    BY <1>3 DEF Put, PutOlder, PutAgain, PutNew
  <2> QED
    BY <2>2, <2>3, ContractWords DEF Contract!Put
<1>4. ASSUME Invalidate(k)
      PROVE  Contract!Invalidate(k)
  <2>1. Without(cache, cache', k)
    BY <1>4, InvalidateStep
  <2>2. Content(cache') = [Content(cache) EXCEPT ![k] = Nothing]
    BY <1>1, <2>1, InvalidateKeepsContract
  <2> QED
    BY <1>4, <2>2 DEF Contract!Invalidate, Invalidate
<1> QED
  BY <1>2, <1>3, <1>4

LEMMA ContractStep ==
  ASSUME SLRUInv, SLRUInv', [Next]_vars
  PROVE  [CallsKeepContract]_vars /\ [Contract!Next]_Contract!cacheVars
<1>1. CallsKeepContract
  BY CallsKeep DEF CallsKeepContract
<1>2. ASSUME NEW item, item \in Item PROVE item \in Contract!Item
  BY <1>2 DEF Item, Contract!Item
<1>3. Next => Contract!Next
  BY <1>1, <1>2 DEF Next, CallsKeepContract, Contract!Next
<1>4. UNCHANGED vars => UNCHANGED Contract!cacheVars
  BY DEF vars, Contract!cacheVars, Content, Has
<1> QED
  BY <1>1, <1>3, <1>4

\* Whatever SLRUBalanceCacheL1 evicts, demotes and promotes, each of its
\* calls does what the same call of BalanceCacheL1 may do.
THEOREM SLRUKeepsContract == Spec => ImplementsContract
<1>1. Spec => []SLRUInv
  BY SLRUStart, SLRUStep, PTL DEF Spec
<1> QED
  BY <1>1, ContractStart, ContractStep, PTL
     DEF Spec, ImplementsContract, Contract!Spec

-----------------------------------------------------------------------------
(***************************************************************************)
(* VersionedMapCache.                                                      *)
(***************************************************************************)
BaselineInv == /\ cached \in UNION {[D -> Item] : D \in SUBSET CacheKeys}
               /\ answer \in Item \cup {Nothing}

LEMMA BaselineParts ==
  ASSUME BaselineInv
  PROVE  /\ cached \in [DOMAIN cached -> Item]
         /\ DOMAIN cached \subseteq CacheKeys
         /\ \A k \in DOMAIN cached : /\ cached[k] \in Item
                                     /\ cached[k].ledger_version \in Nat
                                     /\ cached[k] # Nothing
BY NothingAssumption, VersionsAssumption DEF BaselineInv, Item

LEMMA BaselineStart == Baseline!Init => BaselineInv
BY EmptySeq DEF Baseline!Init, BaselineInv

\* The dictionary without k.
LEMMA PopIs ==
  ASSUME BaselineInv, NEW k
  PROVE  /\ DOMAIN Baseline!Pop(k) = DOMAIN cached \ {k}
         /\ \A j \in DOMAIN cached \ {k} : Baseline!Pop(k)[j] = cached[j]
         /\ Baseline!Pop(k) \in [DOMAIN cached \ {k} -> Item]
BY BaselineParts DEF Baseline!Pop, Restrict, Baseline!Restrict

\* A key is dropped from a dictionary; one is assigned.
Dropped(f, g, k) ==
  DOMAIN g = DOMAIN f \ {k} /\ \A j \in DOMAIN g : g[j] = f[j]

Stored(f, g, k, item) ==
  /\ DOMAIN g = DOMAIN f \cup {k} /\ g[k] = item
  /\ \A j \in DOMAIN f \ {k} : g[j] = f[j]

LEMMA DroppedIsBaseline ==
  ASSUME BaselineInv, NEW k, cached' = Baseline!Pop(k)
  PROVE  /\ Dropped(cached, cached', k)
         /\ cached' \in UNION {[D -> Item] : D \in SUBSET CacheKeys}
<1>1. Dropped(cached, cached', k)
  BY PopIs DEF Dropped
<1>2. /\ cached' \in [DOMAIN cached \ {k} -> Item]
      /\ DOMAIN cached \ {k} \in SUBSET CacheKeys
  BY PopIs, BaselineParts
<1> QED
  BY <1>1, <1>2

LEMMA BaselineGet ==
  ASSUME BaselineInv, NEW k \in CacheKeys, NEW expected \in Versions,
         Baseline!GetIfFresh(k, expected)
  PROVE  /\ BaselineInv'
         /\ IF k \in DOMAIN cached /\ cached[k].ledger_version < expected
            THEN Dropped(cached, cached', k) /\ answer' = Nothing
            ELSE /\ cached' = cached
                 /\ answer' = IF /\ k \in DOMAIN cached
                                 /\ cached[k].ledger_version = expected
                              THEN cached[k] ELSE Nothing
<1>1. k \in DOMAIN cached => cached[k] \in Item /\ cached[k].ledger_version \in Nat
  BY BaselineParts
<1>2. expected \in Nat
  BY VersionsAssumption
<1>3. CASE k \in DOMAIN cached /\ cached[k].ledger_version < expected
  <2>1. cached' = Baseline!Pop(k) /\ answer' = Nothing
    BY <1>3 DEF Baseline!GetIfFresh, Baseline!Holds
  <2> QED
    BY <1>3, <2>1, DroppedIsBaseline DEF BaselineInv
<1>4. CASE ~(k \in DOMAIN cached /\ cached[k].ledger_version < expected)
  <2>1. cached' = cached
    BY <1>4 DEF Baseline!GetIfFresh, Baseline!Holds
  <2>2. answer' = IF k \in DOMAIN cached /\ cached[k].ledger_version = expected
                  THEN cached[k] ELSE Nothing
    BY <1>1, <1>2, <1>4 DEF Baseline!GetIfFresh, Baseline!Holds
  <2>3. answer' \in Item \cup {Nothing}
    BY <1>1, <2>2
  <2> QED
    BY <1>4, <2>1, <2>2, <2>3 DEF BaselineInv
<1> QED
  BY <1>3, <1>4

LEMMA BaselinePut ==
  ASSUME BaselineInv, NEW k \in CacheKeys, NEW item \in Item,
         Baseline!Put(k, item)
  PROVE  /\ BaselineInv' /\ answer' = Nothing
         /\ IF k \in DOMAIN cached
               /\ item.ledger_version < cached[k].ledger_version
            THEN cached' = cached
            ELSE Stored(cached, cached', k, item)
<1>1. k \in DOMAIN cached => cached[k].ledger_version \in Nat
  BY BaselineParts
<1>2. item.ledger_version \in Nat
  BY VersionsAssumption DEF Item
<1>3. answer' = Nothing
  BY DEF Baseline!Put
<1>4. CASE k \in DOMAIN cached /\ item.ledger_version < cached[k].ledger_version
  <2>1. ~Baseline!Storable(k, item)
    BY <1>1, <1>2, <1>4 DEF Baseline!Storable, Baseline!Holds
  <2> QED
    BY <1>3, <1>4, <2>1 DEF Baseline!Put, BaselineInv
<1>5. CASE ~(k \in DOMAIN cached
             /\ item.ledger_version < cached[k].ledger_version)
  <2>1. Baseline!Storable(k, item)
    BY <1>1, <1>2, <1>5 DEF Baseline!Storable, Baseline!Holds
  <2>2. cached' = [j \in DOMAIN cached \cup {k} |->
                     IF j = k THEN item ELSE cached[j]]
    BY <2>1 DEF Baseline!Put, Baseline!Assigned
  <2>3. Stored(cached, cached', k, item)
    BY <2>2 DEF Stored
  <2>4. /\ cached' \in [DOMAIN cached \cup {k} -> Item]
        /\ DOMAIN cached \cup {k} \in SUBSET CacheKeys
    BY <2>2, BaselineParts
  <2> QED
    BY <1>3, <1>5, <2>3, <2>4 DEF BaselineInv
<1> QED
  BY <1>4, <1>5

LEMMA BaselineInvalidate ==
  ASSUME BaselineInv, NEW k \in CacheKeys, Baseline!Invalidate(k)
  PROVE  BaselineInv' /\ Dropped(cached, cached', k) /\ answer' = Nothing
<1>1. cached' = Baseline!Pop(k) /\ answer' = Nothing
  BY DEF Baseline!Invalidate
<1> QED
  BY <1>1, DroppedIsBaseline DEF BaselineInv

LEMMA BaselineItems ==
  ASSUME NEW item
  PROVE  item \in Item <=> item \in Baseline!Item
BY DEF Item, Baseline!Item

LEMMA BaselineStep ==
  BaselineInv /\ [Baseline!Next]_Baseline!vars => BaselineInv'
<1>1. BaselineInv /\ UNCHANGED Baseline!vars => BaselineInv'
  BY DEF BaselineInv, Baseline!vars
<1> QED
  BY <1>1, BaselineItems, BaselineGet, BaselinePut, BaselineInvalidate
     DEF Baseline!Next

\* What the contract sees of the dictionary.
Held == [k \in CacheKeys |->
           IF Baseline!Holds(k) THEN cached[k] ELSE Nothing]

LEMMA HeldIs ==
  ASSUME BaselineInv
  PROVE  /\ Held \in [CacheKeys -> Item \cup {Nothing}]
         /\ \A k \in CacheKeys :
              /\ Held[k] = IF k \in DOMAIN cached THEN cached[k] ELSE Nothing
              /\ Held[k] # Nothing <=> k \in DOMAIN cached
BY BaselineParts DEF Held, Baseline!Holds

LEMMA BaselineContractWords ==
  ASSUME NEW f, NEW k, NEW item, NEW expected
  PROVE  /\ Baseline!Contract!Fresh(item, expected) = Fresh(item, expected)
         /\ Baseline!Contract!AfterGet(f, k, expected) = AfterGet(f, k, expected)
         /\ Baseline!Contract!AfterPut(f, k, item) = AfterPut(f, k, item)
BY DEF Baseline!Contract!Fresh, Fresh, Baseline!Contract!Outdated, Outdated,
       Baseline!Contract!AfterGet, AfterGet,
       Baseline!Contract!Replaced, Replaced,
       Baseline!Contract!Entered, Entered,
       Baseline!Contract!AfterPut, AfterPut

LEMMA BaselineCallsKeep ==
  ASSUME BaselineInv, NEW k \in CacheKeys
  PROVE  /\ \A expected \in Versions :
              Baseline!GetIfFresh(k, expected)
                => Baseline!Contract!GetIfFresh(k, expected)
         /\ \A item \in Item :
              Baseline!Put(k, item) => Baseline!Contract!Put(k, item)
         /\ Baseline!Invalidate(k) => Baseline!Contract!Invalidate(k)
<1>1. /\ Held \in [CacheKeys -> Item \cup {Nothing}]
      /\ \A j \in CacheKeys :
           /\ Held[j] = IF j \in DOMAIN cached THEN cached[j] ELSE Nothing
           /\ Held[j] # Nothing <=> j \in DOMAIN cached
  BY HeldIs
<1>2. k \in DOMAIN cached => /\ cached[k] \in Item /\ cached[k] # Nothing
                             /\ cached[k].ledger_version \in Nat
  BY BaselineParts
<1>3. ASSUME BaselineInv'
      PROVE  /\ Held' \in [CacheKeys -> Item \cup {Nothing}]
             /\ \A j \in CacheKeys :
                  Held'[j] = IF j \in DOMAIN cached' THEN cached'[j] ELSE Nothing
  BY <1>3 DEF Held, Baseline!Holds, BaselineInv
<1>4. ASSUME NEW expected \in Versions, Baseline!GetIfFresh(k, expected)
      PROVE  Baseline!Contract!GetIfFresh(k, expected)
  <2>1. /\ BaselineInv'
        /\ IF k \in DOMAIN cached /\ cached[k].ledger_version < expected
           THEN Dropped(cached, cached', k) /\ answer' = Nothing
           ELSE /\ cached' = cached
                /\ answer' = IF /\ k \in DOMAIN cached
                                /\ cached[k].ledger_version = expected
                             THEN cached[k] ELSE Nothing
    BY <1>4, BaselineGet
  <2>2. expected \in Nat
    BY VersionsAssumption
  <2>3. /\ Fresh(Held[k], expected) <=>
             k \in DOMAIN cached /\ cached[k].ledger_version = expected
        /\ Outdated(Held[k], expected) <=>
             k \in DOMAIN cached /\ cached[k].ledger_version < expected
    BY <1>1, <1>2 DEF Fresh, Outdated
  <2>4. answer' = IF Fresh(Held[k], expected) THEN Held[k] ELSE Nothing
    BY <1>1, <1>2, <2>1, <2>2, <2>3
  <2>5. Held' = AfterGet(Held, k, expected)
    <3>1. CASE k \in DOMAIN cached /\ cached[k].ledger_version < expected
      <4>1. Held' = [Held EXCEPT ![k] = Nothing]
        BY <1>1, <1>3, <2>1, <3>1 DEF Dropped
      <4> QED
        BY <2>3, <3>1, <4>1 DEF AfterGet
    <3>2. CASE ~(k \in DOMAIN cached /\ cached[k].ledger_version < expected)
      <4>1. Held' = Held
        BY <1>1, <1>3, <2>1, <3>2
      <4>2. AfterGet(Held, k, expected) = Held
        BY <1>1, <2>3, <3>2 DEF AfterGet
      <4> QED
        BY <4>1, <4>2
    <3> QED
      BY <3>1, <3>2
  <2> QED
    BY <2>4, <2>5, BaselineContractWords
       DEF Baseline!Contract!GetIfFresh, Held
<1>5. ASSUME NEW item \in Item, Baseline!Put(k, item)
      PROVE  Baseline!Contract!Put(k, item)
  <2>1. /\ BaselineInv' /\ answer' = Nothing
        /\ IF k \in DOMAIN cached
              /\ item.ledger_version < cached[k].ledger_version
           THEN cached' = cached
           ELSE Stored(cached, cached', k, item)
    BY <1>5, BaselinePut
  <2>2. Held' \in AfterPut(Held, k, item)
    <3>1. CASE k \in DOMAIN cached
      <4>1. AfterPut(Held, k, item) = {Replaced(Held, k, item)}
        BY <1>1, <3>1 DEF AfterPut
      <4>2. Held' = Replaced(Held, k, item)
        <5>1. CASE item.ledger_version < cached[k].ledger_version
          BY <1>1, <1>3, <2>1, <3>1, <5>1 DEF Replaced
        <5>2. CASE ~(item.ledger_version < cached[k].ledger_version)
          <6>1. Replaced(Held, k, item) = [Held EXCEPT ![k] = item]
            BY <1>1, <3>1, <5>2 DEF Replaced
          <6>2. Stored(cached, cached', k, item)
            BY <2>1, <5>2
          <6>3. Held' = [Held EXCEPT ![k] = item]
            BY <1>1, <1>3, <2>1, <6>2 DEF Stored
          <6> QED
            BY <6>1, <6>3
        <5> QED
          BY <5>1, <5>2
      <4> QED
        BY <4>1, <4>2
    <3>2. CASE k \notin DOMAIN cached
      <4>1. AfterPut(Held, k, item) = Entered(Held, k, item)
        BY <1>1, <3>2 DEF AfterPut
      <4>2. Held' = [j \in CacheKeys |-> IF j = k THEN item
                                         ELSE IF j = k THEN Nothing
                                         ELSE Held[j]]
        BY <1>1, <1>3, <2>1, <3>2 DEF Stored
      <4> QED
        BY <4>1, <4>2 DEF Entered
    <3> QED
      BY <3>1, <3>2
  <2> QED
    BY <2>1, <2>2, BaselineContractWords DEF Baseline!Contract!Put, Held
<1>6. ASSUME Baseline!Invalidate(k)
      PROVE  Baseline!Contract!Invalidate(k)
  <2>1. BaselineInv' /\ Dropped(cached, cached', k) /\ answer' = Nothing
    BY <1>6, BaselineInvalidate
  <2>2. Held' = [Held EXCEPT ![k] = Nothing]
    BY <1>1, <1>3, <2>1 DEF Dropped
  <2> QED
    BY <2>1, <2>2 DEF Baseline!Contract!Invalidate, Held
<1> QED
  BY <1>4, <1>5, <1>6

LEMMA BaselineContractStart == Baseline!Init => Baseline!Contract!Init
BY DEF Baseline!Init, Baseline!Contract!Init, Baseline!Holds

LEMMA BaselineContractStep ==
  ASSUME BaselineInv, [Baseline!Next]_Baseline!vars
  PROVE  /\ [Baseline!CallsKeepContract]_Baseline!vars
         /\ [Baseline!Contract!Next]_Baseline!Contract!cacheVars
<1>1. Baseline!CallsKeepContract
  BY BaselineCallsKeep, BaselineItems DEF Baseline!CallsKeepContract
<1>2. \A item : item \in Baseline!Item <=> item \in Baseline!Contract!Item
  BY DEF Baseline!Item, Baseline!Contract!Item
<1>3. Baseline!Next => Baseline!Contract!Next
  BY <1>1, <1>2
     DEF Baseline!Next, Baseline!CallsKeepContract, Baseline!Contract!Next
<1>4. UNCHANGED Baseline!vars => UNCHANGED Baseline!Contract!cacheVars
  BY DEF Baseline!vars, Baseline!Contract!cacheVars, Baseline!Holds
<1> QED
  BY <1>1, <1>3, <1>4

-----------------------------------------------------------------------------
(***************************************************************************)
(* Both caches, called alike.                                              *)
(***************************************************************************)
LEMMA EachActsAlone ==
  [NextBoth]_comparedVars => [Next]_vars /\ [Baseline!Next]_Baseline!vars
<1>1. \A item : item \in Item <=> item \in Baseline!Item
  BY BaselineItems
<1>2. NextBoth => Next /\ Baseline!Next
  BY <1>1 DEF NextBoth, GetFromBoth, PutInBoth, InvalidateBoth, Next,
              Baseline!Next
<1>3. UNCHANGED comparedVars => UNCHANGED vars /\ UNCHANGED Baseline!vars
  BY DEF comparedVars, vars, Baseline!vars
<1> QED
  BY <1>2, <1>3

\* VersionedMapCache keeps the contract of BalanceCacheL1: what it forgets,
\* and what it keeps against an older put, is what the contract says.
THEOREM DictionaryKeepsContract == SpecBoth => BaselineImplementsContract
<1>1. SpecBoth => Baseline!Init /\ [][Baseline!Next]_Baseline!vars
  BY EachActsAlone, PTL DEF SpecBoth, InitBoth
<1>2. Baseline!Init /\ [][Baseline!Next]_Baseline!vars => []BaselineInv
  BY BaselineStart, BaselineStep, PTL
<1> QED
  BY <1>1, <1>2, BaselineContractStart, BaselineContractStep, PTL
     DEF BaselineImplementsContract, Baseline!ImplementsContract,
         Baseline!Contract!Spec

LEMMA NeverAheadStart == InitBoth => NeverAheadOfBaseline
<1>1. InitBoth => DOMAIN cache.nodes = {}
  BY DEF InitBoth, Init, Empty
<1> QED
  BY <1>1 DEF NeverAheadOfBaseline

\* Entries of cache and dictionary, where both have one.
LEMMA BothVersions ==
  ASSUME SLRUInv, BaselineInv, NeverAheadOfBaseline, NEW k \in DOMAIN cache.nodes
  PROVE  /\ k \in DOMAIN cached /\ cached[k].ledger_version \in Nat
         /\ VersionOf(cache, k) \in Nat
         /\ VersionOf(cache, k) <= cached[k].ledger_version
<1>1. k \in DOMAIN cached
  BY DEF NeverAheadOfBaseline
<1>2. cached[k].ledger_version \in Nat
  BY <1>1, BaselineParts
<1>3. VersionOf(cache, k) \in Nat
  BY ValueParts, VersionsAssumption
     DEF SLRUInv, Sound, Kept, Node, Item, VersionOf
<1> QED
  BY <1>1, <1>2, <1>3 DEF NeverAheadOfBaseline, VersionOf

\* An outdated entry of the dictionary is outdated in the bounded cache too.
LEMMA NeverAheadAfterGet ==
  ASSUME SLRUInv, BaselineInv, NeverAheadOfBaseline,
         NEW k \in CacheKeys, NEW expected \in Versions,
         GetFromBoth(k, expected)
  PROVE  NeverAheadOfBaseline'
<1>1. GetDone(cache, cache', k, expected, hit')
  BY GetStep DEF GetFromBoth
<1>2. IF k \in DOMAIN cached /\ cached[k].ledger_version < expected
      THEN Dropped(cached, cached', k)
      ELSE cached' = cached
  BY BaselineGet DEF GetFromBoth
<1>3. expected \in Nat
  BY VersionsAssumption
<1>4. Has(cache, k) /\ k \in DOMAIN cached /\ cached[k].ledger_version < expected
        => VersionOf(cache, k) < expected
  BY <1>3, BothVersions DEF Has
<1> SUFFICES ASSUME NEW j \in DOMAIN cache'.nodes
             PROVE  /\ j \in DOMAIN cached'
                    /\ \/ cache'.nodes[j].value = cached'[j]
                       \/ VersionOf(cache', j) < cached'[j].ledger_version
  BY DEF NeverAheadOfBaseline
<1>5. j \in DOMAIN cache.nodes /\ cache'.nodes[j].value = cache.nodes[j].value
  BY <1>1 DEF GetDone, Without, SameEntries
<1>6. /\ j \in DOMAIN cached
      /\ \/ cache'.nodes[j].value = cached[j]
         \/ VersionOf(cache', j) < cached[j].ledger_version
  BY <1>5 DEF NeverAheadOfBaseline, VersionOf
<1>7. j \in DOMAIN cached' /\ cached'[j] = cached[j]
  <2>1. CASE k \in DOMAIN cached /\ cached[k].ledger_version < expected
    <3>1. j # k
      <4>1. CASE Has(cache, k)
        BY <1>1, <1>4, <2>1, <4>1 DEF GetDone, Without
      <4>2. CASE ~Has(cache, k)
        BY <1>5, <4>2 DEF Has
      <4> QED
        BY <4>1, <4>2
    <3> QED
      BY <1>2, <1>6, <2>1, <3>1 DEF Dropped
  <2>2. CASE ~(k \in DOMAIN cached /\ cached[k].ledger_version < expected)
    BY <1>2, <1>6, <2>2
  <2> QED
    BY <2>1, <2>2
<1> QED
  BY <1>6, <1>7

\* What the bounded cache takes in, the dictionary takes in, or has a later
\* one.
LEMMA NeverAheadAfterPut ==
  ASSUME SLRUInv, BaselineInv, NeverAheadOfBaseline,
         NEW k \in CacheKeys, NEW item \in Item, PutInBoth(k, item)
  PROVE  NeverAheadOfBaseline'
<1>1. PutDone(cache, cache', k, item)
  BY PutStep DEF PutInBoth
<1>2. IF k \in DOMAIN cached /\ item.ledger_version < cached[k].ledger_version
      THEN cached' = cached
      ELSE Stored(cached, cached', k, item)
  BY BaselinePut DEF PutInBoth
<1>3. item.ledger_version \in Nat
  BY VersionsAssumption DEF Item
<1> SUFFICES ASSUME NEW j \in DOMAIN cache'.nodes
             PROVE  /\ j \in DOMAIN cached'
                    /\ \/ cache'.nodes[j].value = cached'[j]
                       \/ VersionOf(cache', j) < cached'[j].ledger_version
  BY DEF NeverAheadOfBaseline
<1>4. CASE j # k
  <2>1. /\ j \in DOMAIN cache.nodes
        /\ cache'.nodes[j].value = cache.nodes[j].value
    BY <1>1, <1>4 DEF PutDone, Gained, SameEntries
  <2>2. /\ j \in DOMAIN cached
        /\ \/ cache'.nodes[j].value = cached[j]
           \/ VersionOf(cache', j) < cached[j].ledger_version
    BY <2>1 DEF NeverAheadOfBaseline, VersionOf
  <2>3. j \in DOMAIN cached' /\ cached'[j] = cached[j]
    BY <1>2, <1>4, <2>2 DEF Stored
  <2> QED
    BY <2>2, <2>3
<1>5. CASE j = k
  <2>1. CASE Has(cache, k) /\ Older(cache, k, item)
    <3>1. /\ j \in DOMAIN cache.nodes
          /\ cache'.nodes[j].value = cache.nodes[j].value
      BY <1>1, <2>1 DEF PutDone, SameEntries
    <3>2. /\ j \in DOMAIN cached /\ item.ledger_version < cached[k].ledger_version
      BY <1>3, <1>5, <2>1, <3>1, BothVersions DEF Older
    <3> QED
      BY <1>2, <1>5, <3>1, <3>2 DEF NeverAheadOfBaseline, VersionOf
  <2>2. CASE ~(Has(cache, k) /\ Older(cache, k, item))
    <3>1. cache'.nodes[k].value = item
      BY <1>1, <2>2 DEF PutDone, Gained
    <3> QED
      BY <1>2, <1>5, <3>1 DEF Stored, VersionOf
  <2> QED
    BY <2>1, <2>2
<1> QED
  BY <1>4, <1>5

LEMMA NeverAheadAfterInvalidate ==
  ASSUME SLRUInv, BaselineInv, NeverAheadOfBaseline,
         NEW k \in CacheKeys, InvalidateBoth(k)
  PROVE  NeverAheadOfBaseline'
<1>1. Without(cache, cache', k) /\ Dropped(cached, cached', k)
  BY InvalidateStep, BaselineInvalidate DEF InvalidateBoth
<1> SUFFICES ASSUME NEW j \in DOMAIN cache'.nodes
             PROVE  /\ j \in DOMAIN cached'
                    /\ \/ cache'.nodes[j].value = cached'[j]
                       \/ VersionOf(cache', j) < cached'[j].ledger_version
  BY DEF NeverAheadOfBaseline
<1>2. /\ j \in DOMAIN cache.nodes /\ j # k
      /\ cache'.nodes[j].value = cache.nodes[j].value
  BY <1>1 DEF Without
<1>3. j \in DOMAIN cached' /\ cached'[j] = cached[j]
  BY <1>1, <1>2 DEF Dropped, NeverAheadOfBaseline
<1> QED
  BY <1>2, <1>3 DEF NeverAheadOfBaseline, VersionOf

LEMMA NeverAheadStep ==
  SLRUInv /\ BaselineInv /\ NeverAheadOfBaseline /\ [NextBoth]_comparedVars
    => NeverAheadOfBaseline'
<1>1. NeverAheadOfBaseline /\ UNCHANGED comparedVars => NeverAheadOfBaseline'
  BY DEF NeverAheadOfBaseline, comparedVars, VersionOf
<1> QED
  BY <1>1, NeverAheadAfterGet, NeverAheadAfterPut, NeverAheadAfterInvalidate
     DEF NextBoth

\* Evicting an entry forgets its version, and lets an older balance in later;
\* even so no entry of SLRUBalanceCacheL1 is ever of a later version than the
\* dictionary's, nor another balance of the same version.
THEOREM BoundedNeverAhead == SpecBoth => []NeverAheadOfBaseline
<1>1. SpecBoth => []SLRUInv /\ []BaselineInv
  BY EachActsAlone, SLRUStart, SLRUStep, BaselineStart, BaselineStep, PTL
     DEF SpecBoth, InitBoth
<1> QED
  BY <1>1, NeverAheadStart, NeverAheadStep, PTL DEF SpecBoth

\* Called beside the dictionary, the segmented cache does what it does alone.
THEOREM ComparedCacheIsSLRU == SpecBoth => Spec
BY EachActsAlone, PTL DEF SpecBoth, InitBoth, Spec
=============================================================================
