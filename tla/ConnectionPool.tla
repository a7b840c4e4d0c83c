--------------------------- MODULE ConnectionPool ---------------------------
(***************************************************************************)
(* What requests wait for: the connections of their worker's pool (the     *)
(* engine of db/session.py, pool_size + max_overflow of them) and the rows *)
(* that payments of all workers lock.                                      *)
(*                                                                         *)
(* An endpoint first authenticates, in a session of its own (get_session   *)
(* behind get_client_id_auth) that stays open until it has its response,   *)
(* and with it the connection of its SELECT.  The unit of work takes a     *)
(* second connection with its first statement, and returns it, and the     *)
(* rows it has locked, when it is left.  Payments decide there about the   *)
(* tables and BalanceRead about the cache: here they only wait.            *)
(*                                                                         *)
(*   pc        the request                                                 *)
(*   idle      has not arrived                                             *)
(*   login     waits for a connection for its authentication               *)
(*   check     looks its API key up                                        *)
(*   begin     waits for a connection for its unit of work                 *)
(*   reserve   waits for its idempotency row                               *)
(*   lock      waits for its account row                                   *)
(*   finish    runs the rest of its unit of work                           *)
(*   respond   has its response, or its error; sessions are still open     *)
(***************************************************************************)
EXTENDS FiniteSets, Integers

CONSTANTS
  Workers,        \* processes of the service, each with a pool
  PoolSize,       \* pool_size + max_overflow
  Requests,       \* slots for requests in progress
  WorkerOf,       \* the worker of each
  Payers,         \* those of POST /payments; the others only read
  KeyOf,          \* the idempotency row of each payer
  AccountOf       \* its account row

ASSUME PoolAssumption ==
  /\ PoolSize \in Nat \ {0}
  /\ IsFiniteSet(Requests)
  /\ WorkerOf \in [Requests -> Workers]
  /\ Payers \subseteq Requests
  /\ \A p, q \in Payers : KeyOf[p] # AccountOf[q]

VARIABLES
  pc,
  auth,     \* requests whose authentication session has a connection
  work,     \* requests whose unit of work has one
  held      \* the rows each unit of work has locked

vars == <<pc, auth, work, held>>

Steps == {"idle", "login", "check", "begin", "reserve", "lock", "finish",
          "respond"}

Init ==
  /\ pc = [r \in Requests |-> "idle"]
  /\ auth = {}
  /\ work = {}
  /\ held = [r \in Requests |-> {}]

Of(w, requests) == {r \in requests : WorkerOf[r] = w}

\* A bug to be found: one connection is never handed out.
Free_OneShort(w) ==
  PoolSize - 1 - Cardinality(Of(w, auth)) - Cardinality(Of(w, work))

Free(w) == PoolSize - Cardinality(Of(w, auth)) - Cardinality(Of(w, work))

\* A bug to be found: a session that ends keeps its connection.
Closed_Open(sessions, r) == sessions

Closed(sessions, r) == sessions \ {r}

\* A bug to be found: the transaction is left open.
Unlocked_Never(r) == held

Unlocked(r) == [held EXCEPT ![r] = {}]

Locked(row, r) == \E s \in Requests \ {r} : row \in held[s]

Goto(r, step) == pc' = [pc EXCEPT ![r] = step]

\* A request whose headers have no bearer token or a malformed idempotency
\* key is answered at once.
Arrive(r) ==
  /\ pc[r] = "idle" /\ r \notin work
  /\ \E step \in {"login", "respond"} : Goto(r, step)
  /\ UNCHANGED <<auth, work, held>>

(***************************************************************************)
(* get_client_id_auth                                                      *)
(***************************************************************************)
Login(r) ==
  /\ pc[r] = "login" /\ Free(WorkerOf[r]) > 0
  /\ auth' = auth \cup {r}
  /\ Goto(r, "check")
  /\ UNCHANGED <<work, held>>

\* The session stays open, whether the key is known, or not, or the statement
\* or the validation of the body fails.
Check(r) ==
  /\ pc[r] = "check"
  /\ \E step \in {"begin", "respond"} : Goto(r, step)
  /\ UNCHANGED <<auth, work, held>>

(***************************************************************************)
(* SqlAlchemyUnitOfWork                                                    *)
(***************************************************************************)
BeginPayment(r) ==
  /\ pc[r] = "begin" /\ r \in Payers /\ Free(WorkerOf[r]) > 0
  /\ work' = work \cup {r}
  /\ Goto(r, "reserve")
  /\ UNCHANGED <<auth, held>>

\* balance_process and account_info_process lock no row.
BeginRead(r) ==
  /\ pc[r] = "begin" /\ r \notin Payers /\ Free(WorkerOf[r]) > 0
  /\ work' = work \cup {r}
  /\ Goto(r, "finish")
  /\ UNCHANGED <<auth, held>>

\* reserve inserts or locks the row; a replay and a conflict end here.
Reserve(r) ==
  /\ pc[r] = "reserve" /\ ~Locked(KeyOf[r], r)
  /\ held' = [held EXCEPT ![r] = @ \cup {KeyOf[r]}]
  /\ \E step \in {"lock", "finish"} : Goto(r, step)
  /\ UNCHANGED <<auth, work>>

LockAccount(r) ==
  /\ pc[r] = "lock" /\ ~Locked(AccountOf[r], r)
  /\ held' = [held EXCEPT ![r] = @ \cup {AccountOf[r]}]
  /\ Goto(r, "finish")
  /\ UNCHANGED <<auth, work>>

\* A statement fails, or there is no such account to lock.
GiveUp(r) ==
  /\ pc[r] \in {"reserve", "lock"}
  /\ Goto(r, "finish")
  /\ UNCHANGED <<auth, work, held>>

\* The transaction is committed or rolled back, and the session closed.
End(r) ==
  /\ pc[r] = "finish"
  /\ work' = Closed(work, r)
  /\ held' = Unlocked(r)
  /\ Goto(r, "respond")
  /\ UNCHANGED auth

\* COMMIT or ROLLBACK raises, and __aexit__ does not get to session.close():
\* the connection, and maybe the transaction, are left open.
EndFails(r) ==
  /\ pc[r] = "finish"
  /\ Goto(r, "respond")
  /\ UNCHANGED <<auth, work, held>>

\* The pool gets the connection of a session back that nobody closed, and
\* rolls back what it left open.
Collect(r) ==
  /\ r \in work /\ pc[r] \in {"respond", "idle"}
  /\ work' = work \ {r}
  /\ held' = [held EXCEPT ![r] = {}]
  /\ UNCHANGED <<pc, auth>>

(***************************************************************************)
(* The pool does not let a request wait longer than its timeout.           *)
(***************************************************************************)
AwaitsConnection(r) == pc[r] \in {"login", "begin"}

TimeOut(r) ==
  /\ AwaitsConnection(r)
  /\ Goto(r, "respond")
  /\ UNCHANGED <<auth, work, held>>

\* The session of the authentication is closed.
Respond(r) ==
  /\ pc[r] = "respond"
  /\ auth' = Closed(auth, r)
  /\ Goto(r, "idle")
  /\ UNCHANGED <<work, held>>

Take(r) ==
  \/ Login(r) \/ BeginPayment(r) \/ BeginRead(r)
  \/ Reserve(r) \/ LockAccount(r)

Proceed(r) == Check(r) \/ End(r) \/ EndFails(r) \/ Respond(r)

Next ==
  \E r \in Requests :
    Arrive(r) \/ Take(r) \/ Proceed(r) \/ GiveUp(r) \/ TimeOut(r) \/ Collect(r)

Spec == Init /\ [][Next]_vars

\* Connections and locks are handed out in turn, statements end, and sessions
\* are garbage collected.
Served ==
  \A r \in Requests :
    SF_vars(Take(r)) /\ WF_vars(Proceed(r)) /\ WF_vars(Collect(r))

ServedSpec == Spec /\ Served

-----------------------------------------------------------------------------
(***************************************************************************)
(* Properties                                                              *)
(***************************************************************************)
RowsOf(r) == IF r \in Payers THEN {KeyOf[r], AccountOf[r]} ELSE {}

Rows == UNION {RowsOf(r) : r \in Requests}

TypeOK ==
  /\ pc \in [Requests -> Steps]
  /\ auth \subseteq Requests
  /\ work \subseteq Requests
  /\ held \in [Requests -> SUBSET Rows]

NeverOverdrawn == \A w \in Workers : Free(w) >= 0

LocksExclude ==
  \A r, s \in Requests : r # s => held[r] \cap held[s] = {}

\* A request has the connections of the sessions it has open.
SessionsOfStep(r) ==
  /\ pc[r] \in {"idle", "login"} => r \notin auth
  /\ pc[r] \in {"check", "begin", "reserve", "lock", "finish"} => r \in auth
  /\ pc[r] \in {"login", "check", "begin"} => r \notin work
  /\ pc[r] \in {"reserve", "lock", "finish"} => r \in work

\* Who waits for a connection or for its idempotency row has locked nothing,
\* who waits for its account row the other one, and who has both for nothing.
WaitsInOrder(r) ==
  /\ held[r] \subseteq RowsOf(r)
  /\ r \notin work \/ pc[r] = "reserve" => held[r] = {}
  /\ pc[r] = "lock" => held[r] = {KeyOf[r]}
  /\ pc[r] \in {"reserve", "lock"} => r \in Payers

\* No pool is overdrawn, no row is locked twice, and connections and rows are
\* asked for in one order and held no longer than the session they belong to.
PoolOK ==
  /\ TypeOK
  /\ NeverOverdrawn
  /\ LocksExclude
  /\ \A r \in Requests : SessionsOfStep(r) /\ WaitsInOrder(r)

\* r waits for a row that s has locked.
WaitsFor(r, s) ==
  /\ r # s
  /\ \/ pc[r] = "reserve" /\ KeyOf[r] \in held[s]
     \/ pc[r] = "lock" /\ AccountOf[r] \in held[s]

\* Locks make no request wait longer than for two others: who is waited for
\* through another waits for nothing, neither a row nor a connection.  So row
\* locks cannot deadlock, not even by way of the pool.
WaitsAreShort ==
  \A r, s, t \in Requests :
    WaitsFor(r, s) /\ WaitsFor(s, t) => pc[t] \in {"finish", "respond", "idle"}

Active == {r \in Requests : pc[r] # "idle"}

\* Every connection of a worker is one of a request that waits for another
\* one: nothing moves there until the pool times out.
Gridlock(w) ==
  /\ Free(w) = 0
  /\ \A r \in Of(w, auth \cup work) : AwaitsConnection(r)

\* There is no gridlock while a worker has fewer requests in progress than its
\* pool has connections, though each of them needs two at a time.
NoGridlock ==
  \A w \in Workers : Cardinality(Of(w, Active)) < PoolSize => ~Gridlock(w)

\* Nothing but a gridlock of its own worker keeps a request from being
\* answered: connections and rows are returned whatever fails, waiting for one
\* while holding another is no deadlock otherwise, and requests caught in the
\* gridlock of another worker hold no row that would be missed here.
OnlyGridlockBlocks ==
  \A w \in Workers :
    \/ <>[]Gridlock(w)
    \/ \A r \in Of(w, Requests) : pc[r] # "idle" ~> pc[r] = "idle"
=============================================================================
