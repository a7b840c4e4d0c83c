----------------------------- MODULE ServedReads -----------------------------
(***************************************************************************)
(* GET /balance as the service runs it: the readers of BalanceRead on the  *)
(* cache of WTinyLFUCache, in the one process that docker-compose.yaml     *)
(* starts (api/deps.py makes one cache per process).                       *)
(*                                                                         *)
(* What a reader does next is decided by what the adapter returns.  cache, *)
(* the entries BalanceRead works on, only follows what the adapter holds:  *)
(* no step here looks at it.                                               *)
(***************************************************************************)
EXTENDS BalanceRead

CONSTANTS
  Worker,                       \* the process
  WindowCapacity, ProbationCapacity, ProtectedCapacity,
  Seeds, Columns, Index, MaxCounter, ResetAfter

VARIABLES
  lfu,            \* the adapter's index and lists
  hit,            \* what it returned last
  table,          \* the counters of its sketch
  operations      \* increments since they were halved

Adapter == INSTANCE WTinyLFUCache
             WITH cache <- lfu, Balances <- Int, Versions <- Nat

ASSUME WorkerAssumption == Workers = {Worker}

ASSUME AdapterAssumption ==
  /\ Nothing \notin [balance : Int, ledger_version : Nat]
  /\ {WindowCapacity, ProbationCapacity, ProtectedCapacity}
       \subseteq Nat \ {0}
  /\ Seeds # {}
  /\ MaxCounter \in Nat \ {0}
  /\ ResetAfter \in Nat \ {0}
  /\ Index \in [Seeds -> [CacheKeys -> Columns]]

adapterVars == <<lfu, hit, table, operations>>
servedVars  == <<vars, adapterVars>>

\* The entries the contract sees in the adapter.
Held == Adapter!Content(lfu)

CacheFollows == cache' = [w \in Workers |-> Held']

ServedInit == Init /\ Adapter!Init

\* get_if_fresh returns an entry: its balance is the answer.
ServedHit(r) ==
  /\ pc[r] = "get_if_fresh"
  /\ Adapter!GetIfFresh(Key(r), expected[r])
  /\ hit' # Nothing
  /\ CacheFollows
  /\ balance' = [balance EXCEPT ![r] = hit'.balance]
  /\ Goto(r, "reply")
  /\ UNCHANGED <<tables, query, expected, possible>>

\* It returns None.
ServedMiss(r) ==
  /\ pc[r] = "get_if_fresh"
  /\ Adapter!GetIfFresh(Key(r), expected[r])
  /\ hit' = Nothing
  /\ CacheFollows
  /\ Goto(r, "get_balance")
  /\ UNCHANGED <<tables, query, expected, balance, possible>>

ServedStore(r) ==
  /\ pc[r] = "put"
  /\ Adapter!Put(Key(r), [balance |-> balance[r], ledger_version |-> Stamp(r)])
  /\ CacheFollows
  /\ Goto(r, "reply")
  /\ UNCHANGED <<tables, query, expected, balance, possible>>

ServedRestart ==
  /\ Restart(Worker)
  /\ lfu' = Adapter!Empty
  /\ hit' = Nothing
  /\ table' = [s \in Seeds |-> [i \in Columns |-> 0]]
  /\ operations' = 0

\* What does not call the adapter.
Elsewhere(r) ==
  \/ FindAccount(r) \/ AccountNotFound(r) \/ ReadBalance(r)
  \/ Reply(r) \/ Fail(r)
  \/ \E q \in Queries : Ask(r, q)

ServedRead(r) ==
  \/ Elsewhere(r) /\ UNCHANGED adapterVars
  \/ ServedHit(r) \/ ServedMiss(r) \/ ServedStore(r)

ServedNext ==
  \/ Pay /\ UNCHANGED adapterVars
  \/ \E r \in Readers : ServedRead(r)
  \/ ServedRestart

ServedSpec == ServedInit /\ [][ServedNext]_servedVars

-----------------------------------------------------------------------------
\* Windows, segments and admission do not show: with the cache of the service
\* a read does what it may do with any cache that keeps the contract, so that
\* what BalanceRead says of answers holds of those the service gives.
ImplementsReads == Spec
=============================================================================
