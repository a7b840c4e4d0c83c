---------------------------- MODULE CacheEntries ----------------------------
(***************************************************************************)
(* What a balance cache stores (BalanceCachedData in services/ports.py).   *)
(* updated_at_ts_ms is left out: nothing reads it.                         *)
(***************************************************************************)
EXTENDS CacheKeying, Integers

CONSTANTS
  Balances,     \* what a balance may be
  Versions,     \* what a ledger_version may be
  Nothing       \* no entry; no hit

ASSUME VersionsAssumption == Versions \subseteq Nat

Item == [balance : Balances, ledger_version : Versions]

ASSUME NothingAssumption == Nothing \notin Item

(***************************************************************************)
(* What the calls do to the entries c, a function on the keys.             *)
(***************************************************************************)
\* A hit is an entry of exactly the expected version.
Fresh(item, expected) == item # Nothing /\ item.ledger_version = expected

\* An older entry will never be fresh again.
Outdated(item, expected) == item # Nothing /\ item.ledger_version < expected

AfterGet(c, k, expected) ==
  [c EXCEPT ![k] = IF Outdated(@, expected) THEN Nothing ELSE @]

\* An entry is replaced, unless the new one is older.
Replaced(c, k, item) ==
  [c EXCEPT ![k] = IF item.ledger_version < @.ledger_version THEN @ ELSE item]

\* A new key enters, and at most one other entry makes room for it.
Entered(c, k, item) ==
  {[j \in CacheKeys |-> IF j = k THEN item
                        ELSE IF j = other THEN Nothing ELSE c[j]]
     : other \in CacheKeys}

AfterPut(c, k, item) ==
  IF c[k] # Nothing THEN {Replaced(c, k, item)} ELSE Entered(c, k, item)

\* Assignment to a key of a dictionary, whether the key is new or not.
Assigned(dict, k, x) ==
  [j \in DOMAIN dict \cup {k} |-> IF j = k THEN x ELSE dict[j]]
=============================================================================
