---------------------------- MODULE WTinyLFUProofs ----------------------------
(***************************************************************************)
(* Proofs about the W-TinyLFU cache and its frequency sketch, for any      *)
(* keys, balances and capacities, and for any hash functions, widths,      *)
(* numbers of rows and bounds of the sketch.                               *)
(***************************************************************************)
EXTENDS CountedCache, SegmentedCacheProofs

-----------------------------------------------------------------------------
(***************************************************************************)
(* The sketch.                                                             *)
(***************************************************************************)
\* What holds of each counter by itself: it counts at least its key, and just
\* its key when no other key shares it.
RowsOK ==
  \A s \in Seeds, k \in CacheKeys :
    /\ table[s][Index[s][k]] >= exact[k]
    /\ (\A j \in CacheKeys \ {k} : Index[s][j] # Index[s][k]) =>
         table[s][Index[s][k]] = exact[k]

\* Counting up and halving keep the order of counters, and their range.
LEMMA CountersKeepOrder ==
  ASSUME NEW a \in 0 .. MaxCounter, NEW b \in 0 .. MaxCounter, a >= b
  PROVE  /\ CountUp(a) \in 0 .. MaxCounter /\ CountUp(a) >= CountUp(b)
         /\ CountUp(a) >= b
         /\ Aged(a) \in 0 .. MaxCounter /\ Aged(a) >= Aged(b)
BY SketchAssumption DEF CountUp, Aged

LEMMA SketchStart == AccuracyInit => SketchTypeOK /\ RowsOK
BY SketchAssumption DEF AccuracyInit, SketchInit, SketchTypeOK, RowsOK

\* Counting a key moves its counter in every row and its own frequency, and
\* no one's frequency past its counters.
LEMMA CountingKeeps ==
  ASSUME SketchTypeOK, RowsOK, NEW k \in CacheKeys
  PROVE  /\ Incremented(k) \in [Seeds -> [Columns -> 0 .. MaxCounter]]
         /\ ExactlyIncremented(k) \in [CacheKeys -> 0 .. MaxCounter]
         /\ \A s \in Seeds, j \in CacheKeys :
              /\ Incremented(k)[s][Index[s][j]] >= ExactlyIncremented(k)[j]
              /\ (\A i \in CacheKeys \ {j} : Index[s][i] # Index[s][j]) =>
                   Incremented(k)[s][Index[s][j]] = ExactlyIncremented(k)[j]
<1>1. \A s \in Seeds, i \in Columns : table[s][i] \in 0 .. MaxCounter
  BY DEF SketchTypeOK
<1>2. \A a \in 0 .. MaxCounter : CountUp(a) \in 0 .. MaxCounter
  BY CountersKeepOrder
<1>3. Incremented(k) \in [Seeds -> [Columns -> 0 .. MaxCounter]]
  BY <1>1, <1>2 DEF Incremented
<1>4. /\ ExactlyIncremented(k) \in [CacheKeys -> 0 .. MaxCounter]
      /\ \A j \in CacheKeys : ExactlyIncremented(k)[j] =
           IF j = k THEN CountUp(exact[j]) ELSE exact[j]
  BY <1>2 DEF ExactlyIncremented, CountUp, SketchTypeOK
<1>5. ASSUME NEW s \in Seeds, NEW j \in CacheKeys
      PROVE  /\ Incremented(k)[s][Index[s][j]] >= ExactlyIncremented(k)[j]
             /\ (\A i \in CacheKeys \ {j} : Index[s][i] # Index[s][j]) =>
                  Incremented(k)[s][Index[s][j]] = ExactlyIncremented(k)[j]
  <2>1. Index[s][j] \in Columns /\ Index[s][k] \in Columns
    BY SketchAssumption
  <2>2. Incremented(k)[s][Index[s][j]] =
          IF Index[s][j] = Index[s][k] THEN CountUp(table[s][Index[s][j]])
                                       ELSE table[s][Index[s][j]]
    BY <2>1 DEF Incremented, Counted
  <2>3. /\ table[s][Index[s][j]] \in 0 .. MaxCounter
        /\ exact[j] \in 0 .. MaxCounter
        /\ table[s][Index[s][j]] >= exact[j]
    BY <1>1, <2>1 DEF RowsOK, SketchTypeOK
  <2>4. CASE j = k
    BY <1>4, <2>2, <2>3, <2>4, CountersKeepOrder DEF RowsOK
  <2>5. CASE j # k
    BY <1>4, <2>2, <2>3, <2>5, CountersKeepOrder DEF RowsOK
  <2> QED
    BY <2>4, <2>5
<1> QED
  BY <1>3, <1>4, <1>5

LEMMA SketchStep ==
  ASSUME SketchTypeOK, RowsOK, [AccuracyNext]_accuracyVars
  PROVE  SketchTypeOK' /\ RowsOK'
<1>1. ASSUME NEW k \in CacheKeys, Count(k), ResetDue(operations + 1)
      PROVE  SketchTypeOK' /\ RowsOK'
  <2> DEFINE t == Incremented(k)
             x == ExactlyIncremented(k)
  <2>1. /\ t \in [Seeds -> [Columns -> 0 .. MaxCounter]]
        /\ x \in [CacheKeys -> 0 .. MaxCounter]
        /\ \A s \in Seeds, j \in CacheKeys :
             /\ t[s][Index[s][j]] >= x[j]
             /\ (\A i \in CacheKeys \ {j} : Index[s][i] # Index[s][j]) =>
                  t[s][Index[s][j]] = x[j]
    BY CountingKeeps
  <2>2. /\ table' = [s \in Seeds |-> [i \in Columns |-> Aged(t[s][i])]]
        /\ exact' = [j \in CacheKeys |-> Aged(x[j])]
        /\ operations' = 0
    BY <1>1 DEF Count, Increment, ResetDue, Aged
  <2> HIDE DEF t, x
  <2>3. SketchTypeOK'
    BY <2>1, <2>2, SketchAssumption, CountersKeepOrder DEF SketchTypeOK
  <2>4. ASSUME NEW s \in Seeds, NEW j \in CacheKeys
        PROVE  /\ table'[s][Index[s][j]] >= exact'[j]
               /\ (\A i \in CacheKeys \ {j} : Index[s][i] # Index[s][j]) =>
                    table'[s][Index[s][j]] = exact'[j]
    <3>1. Index[s][j] \in Columns
      BY SketchAssumption
    <3>2. /\ table'[s][Index[s][j]] = Aged(t[s][Index[s][j]])
          /\ exact'[j] = Aged(x[j])
      BY <2>2, <3>1
    <3>3. /\ t[s][Index[s][j]] \in 0 .. MaxCounter
          /\ x[j] \in 0 .. MaxCounter
      BY <2>1, <3>1
    <3> QED
      BY <2>1, <3>2, <3>3, CountersKeepOrder
  <2> QED
    BY <2>3, <2>4 DEF RowsOK
<1>2. ASSUME NEW k \in CacheKeys, Count(k), ~ResetDue(operations + 1)
      PROVE  SketchTypeOK' /\ RowsOK'
  <2>1. /\ table' = Incremented(k)
        /\ exact' = ExactlyIncremented(k)
        /\ operations' = operations + 1
        /\ operations + 1 < ResetAfter
    BY <1>2, SketchAssumption DEF Count, Increment, ResetDue, SketchTypeOK
  <2>2. operations' \in 0 .. ResetAfter - 1
    BY <2>1, SketchAssumption DEF SketchTypeOK
  <2> QED
    BY <2>1, <2>2, CountingKeeps DEF SketchTypeOK, RowsOK
<1>3. CASE UNCHANGED accuracyVars
  BY <1>3 DEF accuracyVars, SketchTypeOK, RowsOK
<1> QED
  BY <1>1, <1>2, <1>3 DEF AccuracyNext

\* The counters stay between 0 and max_counter and the operations below
\* reset_after; counter by counter, a key's own frequency is a lower bound.
THEOREM SketchInvariant == AccuracySpec => [](SketchTypeOK /\ RowsOK)
BY SketchStart, SketchStep, PTL DEF AccuracySpec

\* An estimate is the least counter of its key.
LEMMA EstimateIsLeast ==
  ASSUME NEW t \in [Seeds -> [Columns -> 0 .. MaxCounter]], NEW k \in CacheKeys
  PROVE  /\ \E s \in Seeds : Estimate(t, k) = t[s][Index[s][k]]
         /\ \A s \in Seeds : Estimate(t, k) <= t[s][Index[s][k]]
         /\ Estimate(t, k) \in Nat
<1> DEFINE counters == {t[s][Index[s][k]] : s \in Seeds}
<1>1. \A s \in Seeds : t[s][Index[s][k]] \in Nat
  BY SketchAssumption
<1>2. counters \subseteq Nat /\ counters # {}
  BY <1>1, SketchAssumption
<1>3. Min(counters) \in counters /\ \A x \in counters : Min(counters) <= x
  <2> HIDE DEF counters
  <2> QED
    BY <1>2, MinIsLeast
<1>4. Estimate(t, k) = Min(counters)
  BY DEF Estimate
<1> QED
  BY <1>1, <1>3, <1>4

\* _FrequencySketch.estimate never falls below how often the key itself was
\* counted, saturation and halving included, whatever the hashes.
THEOREM NeverBelow == AccuracySpec => []NeverUnderestimates
<1>1. SketchTypeOK /\ RowsOK => NeverUnderestimates
  <2> SUFFICES ASSUME SketchTypeOK, RowsOK, NEW k \in CacheKeys
               PROVE  Estimate(table, k) >= exact[k]
    BY DEF NeverUnderestimates
  <2>1. PICK s \in Seeds : Estimate(table, k) = table[s][Index[s][k]]
    BY EstimateIsLeast DEF SketchTypeOK
  <2> QED
    BY <2>1 DEF RowsOK
<1> QED
  BY <1>1, SketchInvariant, PTL

\* A key that is alone in one row is estimated exactly.
THEOREM ExactAlone == AccuracySpec => []ExactWhenAlone
<1>1. SketchTypeOK /\ RowsOK => ExactWhenAlone
  <2> SUFFICES ASSUME SketchTypeOK, RowsOK,
                      NEW k \in CacheKeys, NEW s \in Seeds,
                      \A j \in CacheKeys \ {k} : Index[s][j] # Index[s][k]
               PROVE  Estimate(table, k) = exact[k]
    BY DEF ExactWhenAlone, Alone
  <2>1. Estimate(table, k) <= table[s][Index[s][k]]
    BY EstimateIsLeast DEF SketchTypeOK
  <2>2. PICK z \in Seeds : Estimate(table, k) = table[z][Index[z][k]]
    BY EstimateIsLeast DEF SketchTypeOK
  <2>3. exact[k] \in Nat /\ table[z][Index[z][k]] \in Nat
    BY SketchAssumption DEF SketchTypeOK
  <2> QED
    BY <2>1, <2>2, <2>3 DEF RowsOK
<1> QED
  BY <1>1, SketchInvariant, PTL

-----------------------------------------------------------------------------
(***************************************************************************)
(* The cache.                                                              *)
(***************************************************************************)
TableOK == /\ table \in [Seeds -> [Columns -> 0 .. MaxCounter]]
           /\ operations \in 0 .. ResetAfter - 1

CacheInv == Sound(cache, WindowCapacity) /\ hit \in Item \cup {Nothing} /\ TableOK

LEMMA IncrementKeepsTable ==
  ASSUME TableOK, NEW k \in CacheKeys, Increment(k)
  PROVE  TableOK'
<1>1. Incremented(k) \in [Seeds -> [Columns -> 0 .. MaxCounter]]
  <2>1. \A s \in Seeds, i \in Columns : table[s][i] \in 0 .. MaxCounter
    BY DEF TableOK
  <2>2. \A a \in 0 .. MaxCounter : CountUp(a) \in 0 .. MaxCounter
    BY CountersKeepOrder
  <2> QED
    BY <2>1, <2>2 DEF Incremented
<1>2. CASE ResetDue(operations + 1)
  <2> DEFINE t == Incremented(k)
  <2>1. /\ table' = [s \in Seeds |-> [i \in Columns |-> Aged(t[s][i])]]
        /\ operations' = 0
    BY <1>2 DEF Increment
  <2>2. t \in [Seeds -> [Columns -> 0 .. MaxCounter]]
    BY <1>1
  <2> HIDE DEF t
  <2>3. \A a \in 0 .. MaxCounter : Aged(a) \in 0 .. MaxCounter
    BY CountersKeepOrder
  <2>4. table' \in [Seeds -> [Columns -> 0 .. MaxCounter]]
    BY <2>1, <2>2, <2>3
  <2> QED
    BY <2>1, <2>4, SketchAssumption DEF TableOK
<1>3. CASE ~ResetDue(operations + 1)
  <2>1. table' = Incremented(k) /\ operations' = operations + 1
    BY <1>3 DEF Increment
  <2>2. operations' \in 0 .. ResetAfter - 1
    BY <1>3, <2>1, SketchAssumption DEF ResetDue, TableOK
  <2> QED
    BY <1>1, <2>1, <2>2 DEF TableOK
<1> QED
  BY <1>2, <1>3

LEMMA EstimatesNat ==
  ASSUME TableOK, NEW k \in CacheKeys
  PROVE  Estimate(table, k) \in Nat
BY EstimateIsLeast DEF TableOK

LEMMA CacheInvIsOK ==
  ASSUME CacheInv
  PROVE  CacheOK
BY SoundIsInSync DEF CacheOK, Fits, CacheInv, Sound

LEMMA CacheStart == Init => CacheInv
<1>1. SketchInit => TableOK
  BY SketchAssumption DEF SketchInit, TableOK
<1> QED
  BY <1>1, EmptyIsSound, WindowAssumption DEF Init, CacheInv

\* get_if_fresh
LEMMA GetStep ==
  ASSUME CacheInv, NEW k \in CacheKeys, NEW expected \in Versions,
         GetIfFresh(k, expected)
  PROVE  CacheInv' /\ GetDone(cache, cache', k, expected, hit')
<1>1. Sound(cache, WindowCapacity) /\ Kept(cache, {})
  BY DEF CacheInv, Sound
<1>2. Has(cache, k) => /\ VersionOf(cache, k) \in Nat /\ expected \in Nat
                       /\ cache.nodes[k].value \in Item
  BY <1>1, VersionsCompare DEF Has
<1>3. TableOK'
  <2>1. UNCHANGED sketch => TableOK'
    BY DEF sketch, TableOK, CacheInv
  <2>2. Increment(k) => TableOK'
    BY IncrementKeepsTable DEF CacheInv
  <2> QED
    BY <2>1, <2>2 DEF GetIfFresh, Miss, MissOutdated, Hit, sketch
<1>4. CASE Miss(k, expected)
  <2>1. cache' = cache /\ hit' = Nothing
    BY <1>4 DEF Miss
  <2>2. ~(Has(cache, k) /\ VersionOf(cache, k) < expected)
    BY <1>2, <1>4 DEF Miss
  <2>3. ~(Has(cache, k) /\ VersionOf(cache, k) = expected)
    BY <1>2, <1>4 DEF Miss
  <2>4. SameEntries(cache, cache')
    BY <2>1 DEF SameEntries
  <2> QED
    BY <1>1, <1>3, <2>1, <2>2, <2>3, <2>4 DEF CacheInv, GetDone
<1>5. CASE MissOutdated(k, expected)
  <2>1. Has(cache, k) /\ VersionOf(cache, k) < expected
    BY <1>2, <1>5 DEF MissOutdated
  <2>2. cache' = RemoveNode(cache, k) /\ hit' = Nothing
    BY <1>5 DEF MissOutdated
  <2>3. Sound(cache', WindowCapacity) /\ Without(cache, cache', k)
    BY <1>1, <2>1, <2>2, WindowAssumption, RemovalIsSound DEF Has
  <2> QED
    BY <1>3, <2>1, <2>2, <2>3 DEF CacheInv, GetDone
<1>6. CASE Hit(k, expected)
  <2>1. Has(cache, k) /\ VersionOf(cache, k) = expected
    BY <1>6 DEF Hit
  <2>2. cache' = Touch(cache, k) /\ hit' = cache.nodes[k].value
    BY <1>6 DEF Hit
  <2>3. Retained(cache, cache')
    BY <1>1, <2>1, <2>2, TouchKeeps DEF Has, Sound
  <2>4. Sound(cache', WindowCapacity) /\ SameEntries(cache, cache')
    BY <1>1, <2>3, RetainedIsSound DEF Retained
  <2>5. ~(VersionOf(cache, k) < expected) /\ hit' \in Item
    BY <1>2, <2>1, <2>2
  <2> QED
    BY <1>3, <2>1, <2>2, <2>4, <2>5 DEF CacheInv, GetDone
<1> QED
  BY <1>4, <1>5, <1>6 DEF GetIfFresh

\* put of a key that is there
LEMMA PutAgainStep ==
  ASSUME CacheInv, NEW k \in CacheKeys, NEW item \in Item, PutAgain(k, item)
  PROVE  /\ Sound(cache', WindowCapacity)
         /\ Gained(cache, cache', k, item, {})
BY PutAgainIsSound DEF CacheInv, PutAgain, Has

\* An admission leaves the window and protected alone, and loses the entries
\* of the keys in lost.
Settled(c, d, lost) ==
  /\ Kept(d, {}) /\ DOMAIN d.nodes = DOMAIN c.nodes \ lost
  /\ \A j \in DOMAIN d.nodes : d.nodes[j].value = c.nodes[j].value
  /\ OthersStay(c, d, {"probation"})
  /\ Len(d.order["probation"]) <= ProbationCapacity

\* Either probation has room for the candidate v, or the candidate and the
\* least recent entry of probation compete and one of them is lost.
LEMMA AdmissionSettles ==
  ASSUME NEW c, NEW v, Kept(c, {v}),
         Len(c.order["probation"]) <= ProbationCapacity,
         NEW t, NEW d, d = AdmitWindowCandidate(c, v, t)
  PROVE  \/ Settled(c, d, {})
         \/ \E u \in Marked(c, "probation") \ {v} :
              \/ Admits(t, v, u) /\ Settled(c, d, {u})
              \/ ~Admits(t, v, u) /\ Settled(c, d, {v})
<1> DEFINE probation == c.order["probation"]
<1>1. /\ "probation" \in Segments /\ Len(probation) \in Nat
      /\ ProbationCapacity \in Nat \ {0}
  BY LengthsNat, CapacitiesAssumption DEF Segments
<1>2. v \in {v} /\ {v} \ {v} = {}
  OBVIOUS
<1>3. CASE Len(probation) < ProbationCapacity
  <2>1. d = PushFront(c, v, "probation")
    BY <1>3 DEF AdmitWindowCandidate
  <2>2. Pushed(c, d, v, "probation", {v})
    BY <1>1, <1>2, <2>1, PushFrontKeeps
  <2>3. Len(d.order["probation"]) <= ProbationCapacity
    BY <1>1, <1>3, <2>2 DEF Pushed
  <2>4. Settled(c, d, {})
    BY <1>2, <2>2, <2>3 DEF Pushed, Settled, SameEntries
  <2> QED
    BY <2>4
<1>4. CASE ~(Len(probation) < ProbationCapacity)
  <2>1. PICK u, q : u = Last(probation) /\ q = PopTail(c, "probation")
    OBVIOUS
  <2>2. Taken(c, q, u, "probation", {v})
    <3>1. Len(probation) # 0
      BY <1>1, <1>4
    <3> QED
      BY <1>1, <2>1, <3>1, PopTailKeeps
  <2>3. u \in Marked(c, "probation") \ {v}
    BY <2>2 DEF Taken
  <2>4. CASE Admits(t, v, u)
    <3>1. PICK r : r = PushFront(q, v, "probation")
      OBVIOUS
    <3>2. d = Forget(r, u)
      BY <1>4, <2>1, <2>4, <3>1 DEF AdmitWindowCandidate
    <3>3. /\ {v} \cup {u} = {v, u} /\ {v, u} \ {v} = {u} /\ u \in {u}
          /\ {u} \ {u} = {} /\ v \in {v, u}
      BY <2>3
    <3>4. Kept(q, {v, u}) /\ q.nodes = c.nodes
      BY <2>2, <3>3 DEF Taken
    <3>5. Pushed(q, r, v, "probation", {v, u})
      BY <1>1, <3>1, <3>3, <3>4, PushFrontKeeps
    <3>6. Kept(r, {u})
      BY <3>3, <3>5 DEF Pushed
    <3>7. Forgotten(r, d, u, {u})
      BY <3>2, <3>3, <3>6, ForgetKeeps
    <3>8. Kept(d, {}) /\ DOMAIN d.nodes = DOMAIN c.nodes \ {u}
      BY <3>3, <3>4, <3>5, <3>7 DEF Forgotten, Pushed, SameEntries
    <3>9. \A j \in DOMAIN d.nodes : d.nodes[j].value = c.nodes[j].value
      BY <3>4, <3>5, <3>7 DEF Forgotten, Pushed, SameEntries
    <3>10. OthersStay(c, d, {"probation"})
      BY <2>2, <3>5, <3>7 DEF Forgotten, Pushed, Taken, OthersStay
    <3>11. Len(d.order["probation"]) = Len(c.order["probation"]) - 1 + 1
      BY <2>2, <3>5, <3>7 DEF Forgotten, Pushed, Taken
    <3>12. Len(d.order["probation"]) <= ProbationCapacity
      BY <1>1, <3>11
    <3>13. Settled(c, d, {u})
      BY <3>8, <3>9, <3>10, <3>12 DEF Settled
    <3> QED
      BY <2>3, <2>4, <3>13
  <2>5. CASE ~Admits(t, v, u)
    <3>1. d = Forget(c, v)
      BY <1>4, <2>1, <2>5 DEF AdmitWindowCandidate
    <3>2. Forgotten(c, d, v, {v})
      BY <1>2, <3>1, ForgetKeeps
    <3>3. Settled(c, d, {v})
      BY <1>2, <3>2 DEF Forgotten, Settled, OthersStay
    <3> QED
      BY <2>3, <2>5, <3>3
  <2> QED
    BY <2>4, <2>5
<1> QED
  BY <1>3, <1>4

\* lost made room for another key, and the sketch with the counters of the
\* next state finds kept at least as warm.
Warmer(lost, kept) ==
  LET mark == cache.nodes[lost].segment IN
  /\ mark # "protected"
  /\ \/ Estimate(table', kept) > Estimate(table', lost)
     \/ /\ mark = "window"
        /\ Estimate(table', kept) = Estimate(table', lost)

\* put of a new key
LEMMA PutNewStep ==
  ASSUME CacheInv, TableOK', NEW k \in CacheKeys, NEW item \in Item,
         PutNew(k, item)
  PROVE  /\ Sound(cache', WindowCapacity)
         /\ \/ Gained(cache, cache', k, item, {})
            \/ \E lost \in DOMAIN cache.nodes, kept \in DOMAIN cache.nodes :
                 /\ kept # lost /\ Warmer(lost, kept)
                 /\ Gained(cache, cache', k, item, {lost})
<1>1. Sound(cache, WindowCapacity) /\ Kept(cache, {}) /\ ~Has(cache, k)
  BY DEF CacheInv, Sound, PutNew
<1>2. /\ "probation" \in Segments /\ "protected" \in Segments
      /\ "window" \in Segments /\ "window" # "probation"
      /\ "probation" \notin {"window"} /\ "protected" \notin {"window"}
      /\ "window" \notin {"probation"} /\ "protected" \notin {"probation"}
      /\ "window" # "protected" /\ "probation" # "protected"
  BY DEF Segments
<1>3. PICK n, was, d : /\ n = NewNode(cache, k, item, "window")
                       /\ was = cache.order["window"]
                       /\ d = cache'
  OBVIOUS
<1>4. Added(cache, n, k, item, "window", {})
  BY <1>1, <1>2, <1>3, NewNodeKeeps
<1>5. /\ Kept(n, {}) /\ n.order["window"] = <<k>> \o was
      /\ Len(n.order["window"]) = Len(was) + 1
      /\ n.order["protected"] = cache.order["protected"]
      /\ n.order["probation"] = cache.order["probation"]
      /\ DOMAIN n.nodes = DOMAIN cache.nodes \cup {k}
      /\ n.nodes[k].value = item /\ n.nodes[k].segment = "window"
      /\ \A j \in DOMAIN cache.nodes : n.nodes[j] = cache.nodes[j]
  BY <1>2, <1>3, <1>4 DEF Added, OthersStay
<1>6. /\ Len(was) \in Nat /\ Len(was) <= WindowCapacity
      /\ Len(n.order["protected"]) <= ProtectedCapacity
      /\ Len(n.order["probation"]) <= ProbationCapacity
      /\ WindowCapacity \in Nat \ {0}
  BY <1>1, <1>2, <1>3, <1>5, LengthsNat, WindowAssumption DEF Sound, Fits
<1>7. CASE Len(n.order["window"]) <= WindowCapacity
  <2>1. ~(Len(n.order["window"]) > WindowCapacity)
    BY <1>5, <1>6, <1>7
  <2>2. d = n
    BY <1>3, <2>1 DEF PutNew
  <2>3. Sound(n, WindowCapacity)
    BY <1>5, <1>6, <1>7 DEF Sound, Fits
  <2>4. Gained(cache, n, k, item, {})
    BY <1>1, <1>5 DEF Gained, Has
  <2> QED
    BY <1>3, <2>2, <2>3, <2>4
<1>8. CASE Len(n.order["window"]) > WindowCapacity
  <2>1. PICK v, p : v = Last(n.order["window"]) /\ p = PopTail(n, "window")
    OBVIOUS
  <2>2. Taken(n, p, v, "window", {})
    <3>1. Len(n.order["window"]) # 0
      BY <1>5, <1>6
    <3> QED
      BY <1>2, <1>5, <2>1, <3>1, PopTailKeeps
  <2>3. Kept(p, {v}) /\ p.nodes = n.nodes
    BY <2>2, OneOut DEF Taken
  <2>4. v \in DOMAIN cache.nodes /\ cache.nodes[v].segment = "window"
    \* The window held an entry before, and that is still the last one.
    <3>1. Len(was) # 0 /\ was \in Seq(CacheKeys)
      BY <1>1, <1>2, <1>3, <1>5, <1>6, <1>8, ValueParts DEF Kept
    <3>2. v = Last(was)
      BY <1>5, <2>1, <3>1 DEF Last
    <3>3. Taken(cache, PopTail(cache, "window"), v, "window", {})
      BY <1>1, <1>2, <1>3, <3>1, <3>2, PopTailKeeps
    <3> QED
      BY <3>3 DEF Taken, Marked
  <2>5. v # k
    BY <1>1, <2>4 DEF Has
  <2>6. /\ p.order["probation"] = n.order["probation"]
        /\ p.order["protected"] = n.order["protected"]
        /\ Len(p.order["window"]) = Len(was)
    BY <1>2, <1>5, <1>6, <2>2 DEF Taken, OthersStay
  <2>7. d = AdmitWindowCandidate(p, v, table')
    BY <1>3, <1>8, <2>1 DEF PutNew
  <2>8. ASSUME NEW lost, Settled(p, d, lost), k \notin lost
        PROVE  Sound(d, WindowCapacity) /\ Gained(cache, d, k, item, lost)
    <3>1. /\ d.order["protected"] = p.order["protected"]
          /\ d.order["window"] = p.order["window"]
      BY <1>2, <2>8 DEF Settled, OthersStay
    <3>2. Sound(d, WindowCapacity)
      BY <1>6, <2>6, <2>8, <3>1 DEF Settled, Sound, Fits
    <3>3. Gained(cache, d, k, item, lost)
      BY <1>5, <2>3, <2>8 DEF Settled, Gained
    <3> QED
      BY <3>2, <3>3
  <2>9. CASE Settled(p, d, {})
    BY <1>3, <2>8, <2>9
  <2>10. ASSUME NEW u \in Marked(p, "probation") \ {v},
                \/ Admits(table', v, u) /\ Settled(p, d, {u})
                \/ ~Admits(table', v, u) /\ Settled(p, d, {v})
         PROVE  /\ Sound(d, WindowCapacity)
                /\ \E lost \in DOMAIN cache.nodes, kept \in DOMAIN cache.nodes :
                     /\ kept # lost /\ Warmer(lost, kept)
                     /\ Gained(cache, d, k, item, {lost})
    <3>1. u # k /\ u \in DOMAIN cache.nodes
      BY <1>2, <1>5, <2>3 DEF Marked
    <3>2. cache.nodes[u].segment = "probation"
      BY <1>5, <2>3, <3>1 DEF Marked
    <3>3. Estimate(table', u) \in Nat /\ Estimate(table', v) \in Nat
      <4>1. u \in CacheKeys /\ v \in CacheKeys
        BY <1>1, <2>4, <3>1, ValueParts DEF Kept
      <4> QED
        BY <4>1, EstimateIsLeast DEF TableOK
    <3>4. CASE Admits(table', v, u) /\ Settled(p, d, {u})
      <4>1. Warmer(u, v)
        BY <1>2, <3>2, <3>3, <3>4 DEF Warmer, Admits
      <4>2. Sound(d, WindowCapacity) /\ Gained(cache, d, k, item, {u})
        BY <2>8, <3>1, <3>4
      <4> QED
        BY <2>4, <3>1, <4>1, <4>2
    <3>5. CASE ~Admits(table', v, u) /\ Settled(p, d, {v})
      <4>1. Warmer(v, u)
        BY <1>2, <2>4, <3>3, <3>5 DEF Warmer, Admits
      <4>2. Sound(d, WindowCapacity) /\ Gained(cache, d, k, item, {v})
        BY <2>5, <2>8, <3>5
      <4> QED
        BY <2>4, <3>1, <4>1, <4>2
    <3> QED
      BY <2>10, <3>4, <3>5
  <2>11. \/ Settled(p, d, {})
         \/ \E u \in Marked(p, "probation") \ {v} :
              \/ Admits(table', v, u) /\ Settled(p, d, {u})
              \/ ~Admits(table', v, u) /\ Settled(p, d, {v})
    BY <1>6, <2>3, <2>6, <2>7, AdmissionSettles
  <2> QED
    BY <1>3, <2>9, <2>10, <2>11
<1>9. \/ Len(n.order["window"]) <= WindowCapacity
      \/ Len(n.order["window"]) > WindowCapacity
  BY <1>5, <1>6
<1> QED
  BY <1>7, <1>8, <1>9

\* The counters keep to their range, whatever is called.
LEMMA TableKept ==
  ASSUME CacheInv, [Next]_vars
  PROVE  TableOK'
<1>1. UNCHANGED sketch => TableOK'
  BY DEF sketch, TableOK, CacheInv
<1>2. \A k \in CacheKeys : Increment(k) => TableOK'
  BY IncrementKeepsTable DEF CacheInv
<1>3. UNCHANGED vars => UNCHANGED sketch
  BY DEF vars, sketch
<1> QED
  BY <1>1, <1>2, <1>3 DEF Next, GetIfFresh, Miss, MissOutdated, Hit,
     Put, PutOlder, PutAgain, PutNew, Invalidate, sketch

\* put
LEMMA PutStep ==
  ASSUME CacheInv, NEW k \in CacheKeys, NEW item \in Item, Put(k, item)
  PROVE  CacheInv' /\ PutDone(cache, cache', k, item)
<1>1. TableOK' /\ hit' = Nothing
  BY TableKept DEF Next, Put, PutOlder, PutAgain, PutNew
<1>2. CASE PutOlder(k, item)
  <2>1. cache' = cache /\ Has(cache, k) /\ Older(cache, k, item)
    BY <1>2 DEF PutOlder
  <2>2. SameEntries(cache, cache')
    BY <2>1 DEF SameEntries
  <2> QED
    BY <1>1, <2>1, <2>2 DEF CacheInv, PutDone
<1>3. CASE PutAgain(k, item)
  <2>1. /\ Sound(cache', WindowCapacity)
        /\ Gained(cache, cache', k, item, {})
    BY <1>3, PutAgainStep
  <2>2. ~(Has(cache, k) /\ Older(cache, k, item))
    BY <1>3 DEF PutAgain
  <2> QED
    BY <1>1, <2>1, <2>2 DEF CacheInv, PutDone
<1>4. CASE PutNew(k, item)
  <2>1. /\ Sound(cache', WindowCapacity)
        /\ \/ Gained(cache, cache', k, item, {})
           \/ \E lost \in DOMAIN cache.nodes :
                Gained(cache, cache', k, item, {lost})
    BY <1>1, <1>4, PutNewStep
  <2>2. DOMAIN cache.nodes \subseteq CacheKeys
    BY ValueParts DEF CacheInv, Sound, Kept
  <2>3. ~Has(cache, k)
    BY <1>4 DEF PutNew
  <2> QED
    BY <1>1, <2>1, <2>2, <2>3 DEF CacheInv, PutDone
<1> QED
  BY <1>2, <1>3, <1>4 DEF Put

\* invalidate
LEMMA InvalidateStep ==
  ASSUME CacheInv, NEW k \in CacheKeys, Invalidate(k)
  PROVE  CacheInv' /\ Without(cache, cache', k)
<1>1. Sound(cache, WindowCapacity) /\ TableOK' /\ hit' = Nothing
  BY TableKept DEF CacheInv, Next, Invalidate
<1>2. Sound(cache', WindowCapacity) /\ Without(cache, cache', k)
  <2>1. CASE Has(cache, k)
    <3>1. cache' = RemoveNode(cache, k)
      BY <2>1 DEF Invalidate
    <3> QED
      BY <1>1, <2>1, <3>1, WindowAssumption, RemovalIsSound DEF Has
  <2>2. CASE ~Has(cache, k)
    <3>1. cache' = cache
      BY <2>2 DEF Invalidate
    <3> QED
      BY <1>1, <2>2, <3>1 DEF Has, Without
  <2> QED
    BY <2>1, <2>2
<1> QED
  BY <1>1, <1>2 DEF CacheInv

LEMMA CacheStep == CacheInv /\ [Next]_vars => CacheInv'
<1>1. CacheInv /\ UNCHANGED vars => CacheInv'
  BY DEF CacheInv, vars, sketch, TableOK
<1> QED
  BY <1>1, GetStep, PutStep, InvalidateStep DEF Next

\* After any calls the index, the marks and the lists of
\* WTinyLFUBalanceCacheL1 agree, so that none of its RuntimeErrors is raised,
\* and no segment holds more than its share.
THEOREM WTinyLFUSound == Spec => []CacheOK
<1>1. Spec => []CacheInv
  BY CacheStart, CacheStep, PTL DEF Spec
<1> QED
  BY <1>1, CacheInvIsOK, PTL

\* Only a put of a new key displaces another one: every other call that loses
\* an entry takes none in.
LEMMA OnlyPutsDisplace ==
  ASSUME CacheInv, [Next]_vars
  PROVE  \/ DOMAIN cache'.nodes \subseteq DOMAIN cache.nodes
         \/ \A d \in Displaced :
              \E kept \in DOMAIN cache.nodes \ {d} :
                Has(cache', kept) /\ Warmer(d, kept)
<1>1. ASSUME NEW k \in CacheKeys, NEW expected \in Versions,
             GetIfFresh(k, expected)
      PROVE  DOMAIN cache'.nodes \subseteq DOMAIN cache.nodes
  BY <1>1, GetStep DEF GetDone, Without, SameEntries
<1>2. ASSUME NEW k \in CacheKeys, Invalidate(k)
      PROVE  DOMAIN cache'.nodes \subseteq DOMAIN cache.nodes
  BY <1>2, InvalidateStep DEF Without
<1>3. ASSUME NEW k \in CacheKeys, NEW item \in Item, PutOlder(k, item)
      PROVE  DOMAIN cache'.nodes \subseteq DOMAIN cache.nodes
  BY <1>3 DEF PutOlder
<1>4. ASSUME NEW k \in CacheKeys, NEW item \in Item, PutAgain(k, item)
      PROVE  DOMAIN cache'.nodes \subseteq DOMAIN cache.nodes
  <2>1. Gained(cache, cache', k, item, {}) /\ k \in DOMAIN cache.nodes
    BY <1>4, PutAgainStep DEF PutAgain, Has
  <2> QED
    BY <2>1 DEF Gained
<1>5. ASSUME NEW k \in CacheKeys, NEW item \in Item, PutNew(k, item),
             NEW d \in Displaced
      PROVE  \E kept \in DOMAIN cache.nodes \ {d} :
               Has(cache', kept) /\ Warmer(d, kept)
  <2>1. \/ Gained(cache, cache', k, item, {})
        \/ \E lost \in DOMAIN cache.nodes, kept \in DOMAIN cache.nodes :
             /\ kept # lost /\ Warmer(lost, kept)
             /\ Gained(cache, cache', k, item, {lost})
    BY <1>5, TableKept, PutNewStep
  <2>2. d \in DOMAIN cache.nodes /\ d \notin DOMAIN cache'.nodes
    BY DEF Displaced
  <2>3. ~Gained(cache, cache', k, item, {})
    BY <2>2 DEF Gained
  <2>4. PICK lost \in DOMAIN cache.nodes, kept \in DOMAIN cache.nodes :
          /\ kept # lost /\ Warmer(lost, kept)
          /\ Gained(cache, cache', k, item, {lost})
    BY <2>1, <2>3
  <2>5. d = lost /\ Has(cache', kept)
    BY <2>2, <2>4 DEF Gained, Has
  <2> QED
    BY <2>4, <2>5
<1>6. CASE UNCHANGED vars
  BY <1>6 DEF vars
<1> QED
  BY <1>1, <1>2, <1>3, <1>4, <1>5, <1>6 DEF Next, Put

\* A scan of new keys displaces no protected entry, and another one only for
\* an entry that the sketch finds warmer.
THEOREM ScanResistance == Spec => ScansDisplaceOnlyColder
<1>1. ASSUME CacheInv, [Next]_vars
      PROVE  [DOMAIN cache'.nodes \subseteq DOMAIN cache.nodes
              \/ \A d \in Displaced :
                   LET mark == cache.nodes[d].segment IN
                   /\ mark # "protected"
                   /\ \E kept \in DOMAIN cache.nodes \ {d} :
                        /\ Has(cache', kept)
                        /\ \/ Estimate(table', kept) > Estimate(table', d)
                           \/ /\ mark = "window"
                              /\ Estimate(table', kept)
                                   = Estimate(table', d)]_vars
  BY <1>1, OnlyPutsDisplace DEF Warmer
<1>2. Spec => []CacheInv
  BY CacheStart, CacheStep, PTL DEF Spec
<1> QED
  BY <1>1, <1>2, PTL DEF Spec, ScansDisplaceOnlyColder

-----------------------------------------------------------------------------
(***************************************************************************)
(* The contract of BalanceCacheL1.                                         *)
(***************************************************************************)
\* The contract's words are ours.
LEMMA ContractWords ==
  ASSUME NEW f, NEW k, NEW item, NEW expected
  PROVE  /\ Contract!Fresh(item, expected) = Fresh(item, expected)
         /\ Contract!AfterGet(f, k, expected) = AfterGet(f, k, expected)
         /\ Contract!AfterPut(f, k, item) = AfterPut(f, k, item)
BY DEF Contract!Fresh, Fresh, Contract!Outdated, Outdated,
       Contract!AfterGet, AfterGet, Contract!Replaced, Replaced,
       Contract!Entered, Entered, Contract!AfterPut, AfterPut

LEMMA ContractStart == Init => Contract!Init
<1> SUFFICES ASSUME Init PROVE Contract!Init
  OBVIOUS
<1>1. DOMAIN cache.nodes = {} /\ hit = Nothing
  BY DEF Init, Empty
<1>2. Content(cache) = [k \in CacheKeys |-> Nothing]
  BY <1>1 DEF Content, Has
<1> QED
  BY <1>1, <1>2 DEF Contract!Init

LEMMA CallsKeep ==
  ASSUME CacheInv, CacheInv', NEW k \in CacheKeys
  PROVE  /\ \A expected \in Versions :
              GetIfFresh(k, expected) => Contract!GetIfFresh(k, expected)
         /\ \A item \in Item : Put(k, item) => Contract!Put(k, item)
         /\ Invalidate(k) => Contract!Invalidate(k)
<1>1. Kept(cache, {}) /\ Kept(cache', {})
  BY DEF CacheInv, Sound
<1>2. ASSUME NEW expected \in Versions, GetIfFresh(k, expected)
      PROVE  Contract!GetIfFresh(k, expected)
  <2>1. GetDone(cache, cache', k, expected, hit')
    BY <1>2, GetStep
  <2>2. /\ hit' = IF Fresh(Content(cache)[k], expected)
                  THEN Content(cache)[k] ELSE Nothing
        /\ Content(cache') = AfterGet(Content(cache), k, expected)
    BY <1>1, <2>1, GetKeepsContract
  <2> QED
    BY <2>2, ContractWords DEF Contract!GetIfFresh
<1>3. ASSUME NEW item \in Item, Put(k, item)
      PROVE  Contract!Put(k, item)
  <2>1. PutDone(cache, cache', k, item)
    BY <1>3, PutStep
  <2>2. Content(cache') \in AfterPut(Content(cache), k, item)
    BY <1>1, <2>1, PutKeepsContract
  <2>3. hit' = Nothing
    BY <1>3 DEF Put, PutOlder, PutAgain, PutNew
  <2> QED
    BY <2>2, <2>3, ContractWords DEF Contract!Put
<1>4. ASSUME Invalidate(k)
      PROVE  Contract!Invalidate(k)
  <2>1. Without(cache, cache', k)
    BY <1>4, InvalidateStep
  <2>2. Content(cache') = [Content(cache) EXCEPT ![k] = Nothing]
    BY <1>1, <2>1, InvalidateKeepsContract
  <2> QED
    BY <1>4, <2>2 DEF Contract!Invalidate, Invalidate
<1> QED
  BY <1>2, <1>3, <1>4

LEMMA ContractStep ==
  ASSUME CacheInv, CacheInv', [Next]_vars
  PROVE  [CallsKeepContract]_vars /\ [Contract!Next]_Contract!cacheVars
<1>1. CallsKeepContract
  BY CallsKeep DEF CallsKeepContract
<1>2. ASSUME NEW item, item \in Item PROVE item \in Contract!Item
  BY <1>2 DEF Item, Contract!Item
<1>3. Next => Contract!Next
  BY <1>1, <1>2 DEF Next, CallsKeepContract, Contract!Next
<1>4. UNCHANGED vars => UNCHANGED Contract!cacheVars
  BY DEF vars, Contract!cacheVars, Content, Has
<1> QED
  BY <1>1, <1>3, <1>4

\* Whatever WTinyLFUBalanceCacheL1 admits, evicts, demotes and promotes, each
\* of its calls does what the same call of BalanceCacheL1 may do.
THEOREM WTinyLFUKeepsContract == Spec => ImplementsContract
<1>1. Spec => []CacheInv
  BY CacheStart, CacheStep, PTL DEF Spec
<1> QED
  BY <1>1, ContractStart, ContractStep, PTL
     DEF Spec, ImplementsContract, Contract!Spec

-----------------------------------------------------------------------------
(***************************************************************************)
(* The cache and its sketch together.                                      *)
(***************************************************************************)
LEMMA CacheCounted == CountedSpec => Spec /\ AccuracySpec
<1>1. CountedInit => Init /\ AccuracyInit
  BY DEF CountedInit, Init, AccuracyInit
<1>2. [CountedNext]_countedVars => [Next]_vars
  BY DEF CountedNext, countedVars, Next
<1>3. [CountedNext]_countedVars => [AccuracyNext]_accuracyVars
  BY DEF CountedNext, countedVars, vars, sketch, AccuracyNext, accuracyVars
<1> QED
  BY <1>1, <1>2, <1>3, PTL DEF CountedSpec, Spec, AccuracySpec

\* What an admission displaces is warmer than what it keeps only if the kept
\* key collides in every row, for any hashes, capacities and ageing.
THEOREM ColdestAreDisplaced == CountedSpec => DisplacedWereColder
<1>1. ASSUME CacheInv, SketchTypeOK', NeverUnderestimates', ExactWhenAlone',
             [CountedNext]_countedVars
      PROVE  [DOMAIN cache'.nodes \subseteq DOMAIN cache.nodes
              \/ \A d \in Displaced :
                   \E kept \in DOMAIN cache.nodes \ {d} :
                     /\ Has(cache', kept)
                     /\ Alone(kept) => exact'[kept] >= exact'[d]]_countedVars
  <2>1. [Next]_vars
    BY <1>1 DEF CountedNext, countedVars, Next
  <2>2. SUFFICES ASSUME ~(DOMAIN cache'.nodes \subseteq DOMAIN cache.nodes),
                        NEW d \in Displaced
                 PROVE  \E kept \in DOMAIN cache.nodes \ {d} :
                          /\ Has(cache', kept)
                          /\ Alone(kept) => exact'[kept] >= exact'[d]
    OBVIOUS
  <2>3. PICK kept \in DOMAIN cache.nodes \ {d} :
          /\ Has(cache', kept)
          /\ \/ Estimate(table', kept) > Estimate(table', d)
             \/ Estimate(table', kept) = Estimate(table', d)
    BY <1>1, <2>1, <2>2, OnlyPutsDisplace DEF Warmer, vars
  <2>4. d \in CacheKeys /\ kept \in CacheKeys
    BY <1>1, <2>3, CacheInvIsOK DEF CacheOK, Displaced
  <2>5. /\ Estimate(table', d) >= exact'[d]
        /\ Alone(kept) => Estimate(table', kept) = exact'[kept]
    BY <1>1, <2>4 DEF NeverUnderestimates, ExactWhenAlone
  <2>6. exact'[d] \in Nat /\ exact'[kept] \in Nat
    BY <1>1, <2>4, SketchAssumption DEF SketchTypeOK
  <2>7. Estimate(table', d) \in Nat /\ Estimate(table', kept) \in Nat
    BY <1>1, <2>4, EstimateIsLeast DEF SketchTypeOK
  <2> QED
    BY <2>3, <2>5, <2>6, <2>7
<1>2. Spec => []CacheInv
  BY CacheStart, CacheStep, PTL DEF Spec
<1> QED
  BY <1>1, <1>2, CacheCounted, SketchInvariant, NeverBelow, ExactAlone, PTL
  DEF CountedSpec, DisplacedWereColder
=============================================================================
