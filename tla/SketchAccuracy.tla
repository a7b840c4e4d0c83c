--------------------------- MODULE SketchAccuracy ---------------------------
(***************************************************************************)
(* How far the estimates of a FrequencySketch are from the frequencies     *)
(* they estimate: exact counts every key by itself, saturating and ageing  *)
(* like the counters.                                                      *)
(***************************************************************************)
EXTENDS FrequencySketch

VARIABLE exact      \* history: the frequency of each key

accuracyVars == <<table, operations, exact>>

AccuracyInit ==
  /\ SketchInit
  /\ exact = [k \in CacheKeys |-> 0]

ExactlyIncremented(k) == [exact EXCEPT ![k] =
                            IF @ < MaxCounter THEN @ + 1 ELSE MaxCounter]

Count(k) ==
  /\ Increment(k)
  /\ exact' = IF operations + 1 >= ResetAfter
              THEN [j \in CacheKeys |-> ExactlyIncremented(k)[j] \div 2]
              ELSE ExactlyIncremented(k)

AccuracyNext == \E k \in CacheKeys : Count(k)

AccuracySpec == AccuracyInit /\ [][AccuracyNext]_accuracyVars

-----------------------------------------------------------------------------
SketchTypeOK ==
  /\ table \in [Seeds -> [Columns -> 0 .. MaxCounter]]
  /\ operations \in 0 .. ResetAfter - 1
  /\ exact \in [CacheKeys -> 0 .. MaxCounter]

\* A collision can only raise an estimate: no key is taken for less frequent
\* than it is, whatever saturates, ages and collides.  (The admission of
\* wtinylfu_cache.py never turns down a candidate for a colder victim unless
\* that victim's estimate is inflated.)
NeverUnderestimates == \A k \in CacheKeys : Estimate(table, k) >= exact[k]

\* A key has a counter of its own in one of the rows.
Alone(k) ==
  \E s \in Seeds : \A j \in CacheKeys \ {k} : Index[s][j] # Index[s][k]

\* One row without a collision is enough for an estimate to be exact.
ExactWhenAlone ==
  \A k \in CacheKeys : Alone(k) => Estimate(table, k) = exact[k]
=============================================================================
