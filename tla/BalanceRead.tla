----------------------------- MODULE BalanceRead -----------------------------
(***************************************************************************)
(* GET /balance: balance_process of services/payments.py, its cache in     *)
(* every worker process, and the payments that change the balance          *)
(* meanwhile.                                                              *)
(*                                                                         *)
(* A read is two statements of one READ COMMITTED transaction, each on a   *)
(* snapshot of its own, with the calls of the cache between and after      *)
(* them; payments commit between any two of them.  Of a payment, a read    *)
(* sees the commit alone, which is one step of AtomicLedger (Payments      *)
(* implements it).  The cache is any that keeps the contract of            *)
(* BalanceCache; payments do not touch it.                                 *)
(*                                                                         *)
(*   pc             about to run                                           *)
(*   idle           no request                                             *)
(*   get_account    SELECT .. FROM accounts                                *)
(*   get_if_fresh   the lookup in the worker's cache                       *)
(*   get_balance    SELECT sum(amount) ..                                  *)
(*   put            the worker's cache stores the balance                  *)
(*   reply          COMMIT and the HTTP response                           *)
(***************************************************************************)
EXTENDS LedgerSchema

CONSTANTS
  Readers,      \* concurrent executions of balance_process
  Workers,      \* processes, each with a cache of its own
  WorkerOf,     \* the worker a reader runs in
  Queries,      \* the requests that may arrive
  NoQuery,      \* the reader is idle
  NoBalance,    \* the response has no balance: ACCOUNT_NOT_FOUND
  Nothing,      \* no cache entry
  MaxClock      \* bound: clock ticks

Query == [client : Clients, account : Accounts, currency : Currencies]

ASSUME ReadersAssumption ==
  /\ WorkerOf \in [Readers -> Workers]
  /\ Queries \subseteq Query
  /\ NoBalance \notin Int

VARIABLES
  clock, version, entries, idem,      \* as in AtomicLedger
  cache,        \* the cache entries of each worker
  pc,           \* the next step of each reader
  query,        \* its request
  expected,     \* account_data.ledger_version
  balance,      \* balance_result, or the balance of the response
  possible      \* history: the balances that were current since it began

tables == <<clock, version, entries, idem>>
local  == <<pc, query, expected, balance, possible>>
vars   == <<tables, cache, local>>

Steps == {"idle", "get_account", "get_if_fresh", "get_balance", "put",
          "reply"}

CacheKeys == Accounts \X Currencies

Cached == INSTANCE CacheEntries WITH Balances <- Int, Versions <- Nat

EmptyCache == [k \in CacheKeys |-> Nothing]

Ledger == INSTANCE AtomicLedger

Init ==
  /\ Ledger!Init
  /\ cache = [w \in Workers |-> EmptyCache]
  /\ pc = [r \in Readers |-> "idle"]
  /\ query = [r \in Readers |-> NoQuery]
  /\ expected = [r \in Readers |-> 0]
  /\ balance = [r \in Readers |-> NoBalance]
  /\ possible = [r \in Readers |-> {}]

Key(r) == <<query[r].account, query[r].currency>>

\* The balance a key stands for, in these entries.
BalanceIn(ledger, k) == GetBalance(ledger, k[1], k[2])

Goto(r, step) == pc' = [pc EXCEPT ![r] = step]

SetCache(r, c) == cache' = [cache EXCEPT ![WorkerOf[r]] = c]

\* A payment commits; whoever is reading may see its effect or not.
Pay ==
  /\ Ledger!Next
  /\ clock' <= MaxClock
  /\ possible' = [r \in Readers |->
                    IF pc[r] = "idle" THEN {}
                    ELSE possible[r] \cup {BalanceIn(entries', Key(r))}]
  /\ UNCHANGED <<cache, pc, query, expected, balance>>

Ask(r, q) ==
  /\ pc[r] = "idle"
  /\ query' = [query EXCEPT ![r] = q]
  /\ possible' = [possible EXCEPT ![r] =
                    {GetBalance(entries, q.account, q.currency)}]
  /\ Goto(r, "get_account")
  /\ UNCHANGED <<tables, cache, expected, balance>>

(***************************************************************************)
(* ledger_repo.get_account_for_client                                      *)
(***************************************************************************)
FindAccount(r) ==
  /\ pc[r] = "get_account"
  /\ Owner[query[r].account] = query[r].client
  /\ expected' = [expected EXCEPT ![r] = version[query[r].account]]
  /\ Goto(r, "get_if_fresh")
  /\ UNCHANGED <<tables, cache, query, balance, possible>>

\* Another client's account is not found; the cache is not asked.
AccountNotFound(r) ==
  /\ pc[r] = "get_account"
  /\ Owner[query[r].account] # query[r].client
  /\ Goto(r, "reply")
  /\ UNCHANGED <<tables, cache, query, expected, balance, possible>>

(***************************************************************************)
(* The cache, and ledger_repo.get_balance when it has no fresh entry.      *)
(***************************************************************************)
Entry(r) == cache[WorkerOf[r]][Key(r)]

Hit(r) ==
  /\ pc[r] = "get_if_fresh"
  /\ Cached!Fresh(Entry(r), expected[r])
  /\ balance' = [balance EXCEPT ![r] = Entry(r).balance]
  /\ Goto(r, "reply")
  /\ UNCHANGED <<tables, cache, query, expected, possible>>

Miss(r) ==
  /\ pc[r] = "get_if_fresh"
  /\ ~Cached!Fresh(Entry(r), expected[r])
  /\ SetCache(r, Cached!AfterGet(cache[WorkerOf[r]], Key(r), expected[r]))
  /\ Goto(r, "get_balance")
  /\ UNCHANGED <<tables, query, expected, balance, possible>>

ReadBalance(r) ==
  /\ pc[r] = "get_balance"
  /\ balance' = [balance EXCEPT ![r] = BalanceIn(entries, Key(r))]
  /\ Goto(r, "put")
  /\ UNCHANGED <<tables, cache, query, expected, possible>>

\* A bug to be found: the balance is stored under the version the account has
\* by then.
Stamp_Latest(r) == version[query[r].account]

\* The balance is stored under the version read before it: payments may have
\* committed since.
Stamp(r) == expected[r]

Store(r) ==
  /\ pc[r] = "put"
  /\ \E c \in Cached!AfterPut(cache[WorkerOf[r]], Key(r),
                              [balance |-> balance[r],
                               ledger_version |-> Stamp(r)]) :
       SetCache(r, c)
  /\ Goto(r, "reply")
  /\ UNCHANGED <<tables, query, expected, balance, possible>>

(***************************************************************************)
(* The end of a read.                                                      *)
(***************************************************************************)
Forget(readers) ==
  /\ pc' = [r \in Readers |-> IF r \in readers THEN "idle" ELSE pc[r]]
  /\ query' = [r \in Readers |-> IF r \in readers THEN NoQuery ELSE query[r]]
  /\ expected' = [r \in Readers |-> IF r \in readers THEN 0 ELSE expected[r]]
  /\ balance' = [r \in Readers |->
                   IF r \in readers THEN NoBalance ELSE balance[r]]
  /\ possible' = [r \in Readers |->
                    IF r \in readers THEN {} ELSE possible[r]]

Reply(r) ==
  /\ pc[r] = "reply"
  /\ Forget({r})
  /\ UNCHANGED <<tables, cache>>

\* A statement fails or the request is cancelled.
Fail(r) ==
  /\ pc[r] \notin {"idle", "reply"}
  /\ Forget({r})
  /\ UNCHANGED <<tables, cache>>

\* A worker restarts with an empty cache.
Restart(w) ==
  /\ cache' = [cache EXCEPT ![w] = EmptyCache]
  /\ Forget({r \in Readers : WorkerOf[r] = w})
  /\ UNCHANGED tables

Read(r) ==
  \/ FindAccount(r) \/ AccountNotFound(r)
  \/ Hit(r) \/ Miss(r) \/ ReadBalance(r) \/ Store(r)
  \/ Reply(r) \/ Fail(r)

Next ==
  \/ Pay
  \/ \E r \in Readers : Read(r) \/ \E q \in Queries : Ask(r, q)
  \/ \E w \in Workers : Restart(w)

Spec == Init /\ [][Next]_vars

-----------------------------------------------------------------------------
(***************************************************************************)
(* Properties                                                              *)
(***************************************************************************)

\* Every response is right for some moment since its request arrived: a
\* client reads a balance only of an account of its own, and never one that
\* was out of date before it asked, whichever worker's cache answers.
ReadsAreCurrent ==
  \A r \in Readers :
    pc[r] = "reply" =>
      IF Owner[query[r].account] = query[r].client
      THEN balance[r] \in possible[r]
      ELSE balance[r] = NoBalance

\* No cache is ahead of the ledger, and an entry that carries the account's
\* committed version carries its committed balance, though the two were read
\* in different statements.
CachesAgreeWithLedger ==
  \A w \in Workers, k \in CacheKeys :
    LET item == cache[w][k] IN
    item # Nothing =>
      /\ item.ledger_version <= version[k[1]]
      /\ item.ledger_version = version[k[1]] =>
           item.balance = BalanceIn(entries, k)

\* The variables of the readers and the caches keep to their types (of the
\* balances only that they are there).
ReadTypeOK ==
  /\ version \in [Accounts -> Nat]
  /\ cache = [w \in Workers |-> [k \in CacheKeys |-> cache[w][k]]]
  /\ \A w \in Workers, k \in CacheKeys :
       cache[w][k] # Nothing => cache[w][k].ledger_version \in Nat
  /\ pc \in [Readers -> Steps]
  /\ query = [r \in Readers |-> query[r]]
  /\ expected \in [Readers -> Nat]
  /\ balance = [r \in Readers |-> balance[r]]
  /\ possible = [r \in Readers |-> possible[r]]

\* The balances carried under version v for the key of r, in the caches and
\* in the hands of readers about to store them.
Carried(r, v) ==
  {cache[w][Key(r)].balance : w \in {u \in Workers :
      /\ cache[u][Key(r)] # Nothing
      /\ cache[u][Key(r)].ledger_version = v}}
  \cup
  {balance[s] : s \in {t \in Readers :
      pc[t] = "put" /\ Key(t) = Key(r) /\ expected[t] = v}}

ReaderOK(r) ==
  /\ pc[r] # "idle" =>
       /\ query[r] \in Query
       /\ BalanceIn(entries, Key(r)) \in possible[r]
  /\ pc[r] \in {"idle", "get_account"} => balance[r] = NoBalance
  /\ pc[r] \in {"get_if_fresh", "get_balance", "put"} =>
       /\ Owner[query[r].account] = query[r].client
       /\ expected[r] <= version[query[r].account]
  /\ pc[r] = "get_if_fresh" =>
       Carried(r, expected[r]) \subseteq possible[r]
  /\ pc[r] = "put" =>
       /\ balance[r] \in possible[r]
       /\ expected[r] = version[query[r].account] =>
            balance[r] = BalanceIn(entries, Key(r))

\* Inductive: whatever balance is carried under the version a reader expects
\* was read after that version was, so it is one the reader may return.
ReadInv ==
  /\ ReadTypeOK
  /\ CachesAgreeWithLedger
  /\ \A r \in Readers : ReaderOK(r)
  /\ ReadsAreCurrent
=============================================================================
