--------------------------- MODULE FrequencySketch ---------------------------
(***************************************************************************)
(* _FrequencySketch of adapters/cache/wtinylfu_cache.py: a count-min table *)
(* of saturating counters, halved after every ResetAfter increments.       *)
(*                                                                         *)
(* Python's hash of (seed, key) is salted by the process, so any Index is  *)
(* possible.                                                               *)
(***************************************************************************)
EXTENDS CacheKeying, Integers, FiniteSetsExt

CONSTANTS
  Seeds,          \* one row of the table for each
  Columns,        \* the counters of a row
  Index,          \* the counter of a key in each row
  MaxCounter,
  ResetAfter

\* What the constructor checks, and that the hash is masked to the width.
ASSUME SketchAssumption ==
  /\ Seeds # {}
  /\ MaxCounter \in Nat \ {0}
  /\ ResetAfter \in Nat \ {0}
  /\ Index \in [Seeds -> [CacheKeys -> Columns]]

VARIABLES
  table,          \* the counters
  operations      \* increments since the last reset

sketch == <<table, operations>>

SketchInit ==
  /\ table = [s \in Seeds |-> [i \in Columns |-> 0]]
  /\ operations = 0

CountUp(counter) == IF counter < MaxCounter THEN counter + 1 ELSE MaxCounter

\* A bug to be found: the counter of another row is counted.
Counted_OneRow(k, s, i) == i = Index[CHOOSE r \in Seeds : TRUE][k]

Counted(k, s, i) == i = Index[s][k]

Incremented(k) ==
  [s \in Seeds |-> [i \in Columns |->
     IF Counted(k, s, i) THEN CountUp(table[s][i]) ELSE table[s][i]]]

Aged(counter) == counter \div 2

ResetDue(n) == n >= ResetAfter

Increment(k) ==
  IF ResetDue(operations + 1)
  THEN /\ table' = [s \in Seeds |-> [i \in Columns |->
                      Aged(Incremented(k)[s][i])]]
       /\ operations' = 0
  ELSE /\ table' = Incremented(k)
       /\ operations' = operations + 1

\* A bug to be found: the largest counter is taken.
Estimate_Largest(t, k) == Max({t[s][Index[s][k]] : s \in Seeds})

Estimate(t, k) == Min({t[s][Index[s][k]] : s \in Seeds})
=============================================================================
