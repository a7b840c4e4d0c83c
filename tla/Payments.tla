------------------------------ MODULE Payments ------------------------------
(***************************************************************************)
(* POST /payments: process_payment of services/payments.py with the        *)
(* repositories and the unit of work it runs on.                           *)
(*                                                                         *)
(* Each handler is one execution of the endpoint in some worker.  It opens *)
(* a PostgreSQL transaction (READ COMMITTED) and issues one statement per  *)
(* action; other handlers run between any two of them.  What a transaction *)
(* wrote is kept apart from the committed tables until it commits, and     *)
(* what it locked stays locked until it ends.                              *)
(*                                                                         *)
(*   pc                 statement about to run                             *)
(*   idle               no request                                         *)
(*   reserve            INSERT INTO idempotency_keys .. ON CONFLICT ..     *)
(*   read_reservation   SELECT .. FROM idempotency_keys .. FOR UPDATE      *)
(*   reset              UPDATE idempotency_keys .. (_reset_to_in_progress) *)
(*   lock_account       SELECT .. FROM accounts .. FOR UPDATE              *)
(*   get_balance        SELECT sum(amount) .., then decide_posting         *)
(*   insert_entry       INSERT INTO ledger_entries ..                      *)
(*   update_version     UPDATE accounts SET ledger_version ..              *)
(*   complete           UPDATE idempotency_keys .. (complete)              *)
(*   commit             COMMIT                                             *)
(*   reply              the HTTP response                                  *)
(***************************************************************************)
EXTENDS LedgerSchema, Sequences

CONSTANTS
  Handlers,               \* concurrent executions, in all the workers
  NoHandler,              \* the lock is free
  NoJob,                  \* the handler is idle
  MaxClock                \* bound: clock ticks

ASSUME HandlersAssumption == NoHandler \notin Handlers

ASSUME ClockAssumption == MaxClock \in Nat

VARIABLES
  clock,        \* the time
  version,      \* accounts.ledger_version, committed
  entries,      \* ledger_entries, committed
  idem,         \* idempotency_keys, committed
  keyLock,      \* the transaction that inserted or locked an idempotency row
  accountLock,  \* the transaction that locked an account row
  pc,           \* the next statement of each handler
  job,          \* its request: number, command and `now` of reserve
  loaded,       \* the ledger_version an earlier SELECT may have left in the
                \* identity map of its session
  snapshot,     \* account_lock.ledger_version
  row,          \* its uncommitted idempotency row
  posted,       \* its uncommitted ledger entries
  raised,       \* its uncommitted ledger_version
  answer,       \* the response it will give
  received,     \* history: the commands received, in order
  replies       \* history: the responses clients got, with their request

tables == <<version, entries, idem>>
locks  == <<keyLock, accountLock>>
local  == <<job, loaded, snapshot, row, posted, raised, answer>>
vars   == <<clock, tables, locks, pc, local, received, replies>>

Steps == {"idle", "reserve", "read_reservation", "reset", "lock_account",
          "get_balance", "insert_entry", "update_version", "complete",
          "commit", "reply"}

InTransaction == Steps \ {"idle", "reply"}

NoVersion == 0      \* no UPDATE of accounts: an updated version is positive

Job == [number : Nat, command : Commands, now : Nat]

Init ==
  /\ clock = 0
  /\ version = [a \in Accounts |-> 0]
  /\ entries = {}
  /\ idem = [k \in IdemIds |-> NoRow]
  /\ keyLock = [k \in IdemIds |-> NoHandler]
  /\ accountLock = [a \in Accounts |-> NoHandler]
  /\ pc = [h \in Handlers |-> "idle"]
  /\ job = [h \in Handlers |-> NoJob]
  /\ loaded = [h \in Handlers |-> {}]
  /\ snapshot = [h \in Handlers |-> NoVersion]
  /\ row = [h \in Handlers |-> NoRow]
  /\ posted = [h \in Handlers |-> {}]
  /\ raised = [h \in Handlers |-> NoVersion]
  /\ answer = [h \in Handlers |-> NoAnswer]
  /\ received = <<>>
  /\ replies = {}

Cmd(h)     == job[h].command
Key(h)     == IdemId(Cmd(h))
Account(h) == Cmd(h).account

Goto(h, step) == pc' = [pc EXCEPT ![h] = step]

Tick ==
  /\ clock < MaxClock
  /\ clock' = clock + 1
  /\ UNCHANGED <<tables, locks, pc, local, received, replies>>

\* A client's request passes authentication and validation and enters
\* process_payment; reserve takes `now` before its first statement.
Receive(h, c) ==
  /\ pc[h] = "idle"
  /\ Len(received) < MaxRequests
  /\ received' = Append(received, c)
  /\ job' = [job EXCEPT ![h] = [number |-> Len(received) + 1, command |-> c,
                                now |-> clock]]
  /\ Goto(h, "reserve")
  /\ UNCHANGED <<clock, tables, locks, loaded, snapshot, row, posted, raised,
                 answer, replies>>

(***************************************************************************)
(* idempotency_repo.reserve                                                *)
(***************************************************************************)
InProgress(c, now) ==
  [hash |-> RequestHash(c), status |-> "IN_PROGRESS", response |-> NoAnswer,
   expires_at |-> now + TTL]

\* The INSERT waits for a transaction that has written the row and not ended.
Written(k) == \E g \in Handlers : keyLock[k] = g /\ row[g] # NoRow

Reserve(h) ==
  /\ pc[h] = "reserve"
  /\ ~Written(Key(h))
  /\ idem[Key(h)] = NoRow
  /\ keyLock' = [keyLock EXCEPT ![Key(h)] = h]
  /\ row' = [row EXCEPT ![h] = InProgress(Cmd(h), job[h].now)]
  /\ Goto(h, "lock_account")
  /\ UNCHANGED <<clock, tables, accountLock, job, loaded, snapshot, posted,
                 raised, answer, received, replies>>

ReserveConflicts(h) ==
  /\ pc[h] = "reserve"
  /\ ~Written(Key(h))
  /\ idem[Key(h)] # NoRow
  /\ Goto(h, "read_reservation")
  /\ UNCHANGED <<clock, tables, locks, local, received, replies>>

\* What reserve makes of the row it finds.
\* A bug to be found: expiry is looked at before completion.
Verdict_ExpiryFirst(found, hash, now) ==
  IF found.expires_at <= now         THEN "reset"
  ELSE IF found.hash # hash          THEN "IDEMPOTENCY_CONFLICT"
  ELSE IF found.status = "IN_PROGRESS" THEN "IDEMPOTENCY_IN_PROGRESS"
  ELSE "replay"

\* A bug to be found: the response is replayed whatever the request asks.
Verdict_NoHash(found, hash, now) ==
  IF found.status # "COMPLETED" /\ found.expires_at <= now THEN "reset"
  ELSE IF found.status = "IN_PROGRESS" THEN "IDEMPOTENCY_IN_PROGRESS"
  ELSE "replay"

Verdict(found, hash, now) ==
  IF found.status # "COMPLETED" /\ found.expires_at <= now THEN "reset"
  ELSE IF found.hash # hash            THEN "IDEMPOTENCY_CONFLICT"
  ELSE IF found.status = "IN_PROGRESS" THEN "IDEMPOTENCY_IN_PROGRESS"
  ELSE "replay"

VerdictOn(h) == Verdict(idem[Key(h)], RequestHash(Cmd(h)), job[h].now)

\* SELECT .. FOR UPDATE finds the row as last committed, once no other
\* transaction holds it.
LockRow(h) ==
  /\ pc[h] = "read_reservation"
  /\ keyLock[Key(h)] = NoHandler
  /\ keyLock' = [keyLock EXCEPT ![Key(h)] = h]

\* The stored response is returned as it is, and the transaction commits.
Replay(h) ==
  /\ LockRow(h)
  /\ VerdictOn(h) = "replay"
  /\ answer' = [answer EXCEPT ![h] = idem[Key(h)].response]
  /\ Goto(h, "commit")
  /\ UNCHANGED <<clock, tables, accountLock, job, loaded, snapshot, row,
                 posted, raised, received, replies>>

\* IdempotencyConflict or IdempotencyInProgress: the unit of work rolls back,
\* which frees the row, and the client gets a 409.
Refuse(h) ==
  /\ pc[h] = "read_reservation"
  /\ keyLock[Key(h)] = NoHandler
  /\ VerdictOn(h) \in {"IDEMPOTENCY_CONFLICT", "IDEMPOTENCY_IN_PROGRESS"}
  /\ answer' = [answer EXCEPT ![h] = Refused(job[h].number, VerdictOn(h))]
  /\ Goto(h, "reply")
  /\ UNCHANGED <<clock, tables, locks, job, loaded, snapshot, row, posted,
                 raised, received, replies>>

\* The ORM SELECT also loads the row's client and the client's accounts
\* (lazy="selectin"), at the version they have now.
FindExpired(h) ==
  /\ LockRow(h)
  /\ VerdictOn(h) = "reset"
  /\ loaded' = [loaded EXCEPT ![h] = {version[Account(h)]}]
  /\ Goto(h, "reset")
  /\ UNCHANGED <<clock, tables, accountLock, job, snapshot, row, posted,
                 raised, answer, received, replies>>

Reset(h) ==
  /\ pc[h] = "reset"
  /\ row' = [row EXCEPT ![h] = InProgress(Cmd(h), job[h].now)]
  /\ Goto(h, "lock_account")
  /\ UNCHANGED <<clock, tables, locks, job, loaded, snapshot, posted, raised,
                 answer, received, replies>>

(***************************************************************************)
(* ledger_repo.lock_account_for_client                                     *)
(***************************************************************************)
\* A bug to be found: the SELECT is not FOR UPDATE.
Grantable_NoLock(holder) == TRUE

Grantable(holder) == holder = NoHandler

\* The SELECT matches on account and client, waits for the row lock, and sees
\* the row as last committed.  An object of the same row that is still in the
\* session is returned instead, as it was loaded: it may be, or may have been
\* collected.
LockAccount(h) ==
  /\ pc[h] = "lock_account"
  /\ Owner[Account(h)] = Cmd(h).client
  /\ Grantable(accountLock[Account(h)])
  /\ accountLock' = [accountLock EXCEPT ![Account(h)] = h]
  /\ \E v \in {version[Account(h)]} \cup loaded[h] :
       snapshot' = [snapshot EXCEPT ![h] = v]
  /\ loaded' = [loaded EXCEPT ![h] = {}]
  /\ Goto(h, "get_balance")
  /\ UNCHANGED <<clock, tables, keyLock, job, row, posted, raised, answer,
                 received, replies>>

\* Nothing matches: the account is another client's, or there is none.
AccountNotFound(h) ==
  /\ pc[h] = "lock_account"
  /\ Owner[Account(h)] # Cmd(h).client
  /\ answer' = [answer EXCEPT ![h] = Failed(job[h].number,
                                            "ACCOUNT_NOT_FOUND")]
  /\ loaded' = [loaded EXCEPT ![h] = {}]
  /\ Goto(h, "complete")
  /\ UNCHANGED <<clock, tables, locks, job, snapshot, row, posted, raised,
                 received, replies>>

(***************************************************************************)
(* get_balance and decide_posting                                          *)
(***************************************************************************)
\* The statement sees the committed entries of its own moment.
Balance(h) == GetBalance(entries, Account(h), Cmd(h).currency)

Accept(h) ==
  /\ pc[h] = "get_balance"
  /\ AcceptsCommand(Cmd(h), Balance(h))
  /\ Goto(h, "insert_entry")
  /\ UNCHANGED <<clock, tables, locks, local, received, replies>>

\* A business error: no entry, a FAILED response.
Reject(h) ==
  /\ pc[h] = "get_balance"
  /\ ~AcceptsCommand(Cmd(h), Balance(h))
  /\ answer' = [answer EXCEPT ![h] = Failed(job[h].number,
                                            RefusalOf(Cmd(h)))]
  /\ Goto(h, "complete")
  /\ UNCHANGED <<clock, tables, locks, job, loaded, snapshot, row, posted,
                 raised, received, replies>>

(***************************************************************************)
(* ledger_repo.insert_entry and update_account_version                     *)
(***************************************************************************)
Decision(h) == Posting(Cmd(h), snapshot[h], job[h].number)

\* The unique index makes an INSERT wait for an uncommitted entry with the
\* same account and version.
NoRival(h) == \A g \in Handlers \ {h} : Unique(Decision(h), posted[g])

InsertEntry(h) ==
  /\ pc[h] = "insert_entry"
  /\ NoRival(h)
  /\ Storable(Decision(h)) /\ Unique(Decision(h), entries)
  /\ posted' = [posted EXCEPT ![h] = {Decision(h)}]
  /\ Goto(h, "update_version")
  /\ UNCHANGED <<clock, tables, locks, job, loaded, snapshot, row, raised,
                 answer, received, replies>>

\* A bug to be found: the guard compares with the new version.
GuardHolds_NewVersion(current, expected) == current = expected + 1

GuardHolds(current, expected) == current = expected

\* The optimistic guard.  When no row matches, ConcurrentLedgerWrite becomes
\* a FAILED response of the same transaction.
UpdateVersion(h) ==
  LET matched == GuardHolds(version[Account(h)], snapshot[h])
      n       == job[h].number
  IN
  /\ pc[h] = "update_version"
  /\ raised' = [raised EXCEPT ![h] = IF matched THEN snapshot[h] + 1
                                     ELSE NoVersion]
  /\ answer' = [answer EXCEPT ![h] =
                  IF matched THEN Completed(n)
                  ELSE Failed(n, "CONCURRENT_LEDGER_WRITE")]
  /\ Goto(h, "complete")
  /\ UNCHANGED <<clock, tables, locks, job, loaded, snapshot, row, posted,
                 received, replies>>

(***************************************************************************)
(* idempotency_repo.complete: the UPDATE matches a row IN_PROGRESS; the    *)
(* response of any other row is returned as a duplicate.                   *)
(***************************************************************************)
WithResponse(r, a) ==
  [hash |-> r.hash, status |-> a.status, response |-> a,
   expires_at |-> r.expires_at]

Complete(h) ==
  LET matched == row[h].status = "IN_PROGRESS" IN
  /\ pc[h] = "complete"
  /\ row' = [row EXCEPT ![h] =
               IF matched THEN WithResponse(row[h], answer[h]) ELSE @]
  /\ answer' = [answer EXCEPT ![h] = IF matched THEN @ ELSE row[h].response]
  /\ Goto(h, "commit")
  /\ UNCHANGED <<clock, tables, locks, job, loaded, snapshot, posted, raised,
                 received, replies>>

(***************************************************************************)
(* The unit of work.  __aexit__ rolls back when an exception leaves the    *)
(* block and commits otherwise; either way the locks are released.         *)
(***************************************************************************)
\* A bug to be found: the end of the block commits whatever happened.
RollsBack_Never(raising) == FALSE

RollsBack(raising) == raising

\* A bug to be found: the session of a failed request is never ended.
Free_Never(h, holder) == holder

Free(h, holder) == IF holder = h THEN NoHandler ELSE holder

Exit(h, raising) ==
  LET keeps == ~RollsBack(raising)
      a     == Account(h)
  IN
  /\ version' = [version EXCEPT ![a] =
                   IF keeps /\ raised[h] # NoVersion THEN raised[h] ELSE @]
  /\ entries' = IF keeps THEN entries \cup posted[h] ELSE entries
  /\ idem' = [idem EXCEPT ![Key(h)] =
                IF keeps /\ row[h] # NoRow THEN row[h] ELSE @]
  /\ keyLock' = [k \in IdemIds |-> Free(h, keyLock[k])]
  /\ accountLock' = [b \in Accounts |-> Free(h, accountLock[b])]
  /\ loaded' = [loaded EXCEPT ![h] = {}]
  /\ snapshot' = [snapshot EXCEPT ![h] = NoVersion]
  /\ row' = [row EXCEPT ![h] = NoRow]
  /\ posted' = [posted EXCEPT ![h] = {}]
  /\ raised' = [raised EXCEPT ![h] = NoVersion]

Commit(h) ==
  /\ pc[h] = "commit"
  /\ Exit(h, FALSE)
  /\ Goto(h, "reply")
  /\ UNCHANGED <<clock, job, answer, received, replies>>

\* The request ends without a response its client could use.
Abandon(h) ==
  /\ job' = [job EXCEPT ![h] = NoJob]
  /\ answer' = [answer EXCEPT ![h] = NoAnswer]
  /\ Goto(h, "idle")

\* A constraint of ledger_entries is violated: nobody catches the database's
\* error, and the client gets a 500.
InsertFails(h) ==
  /\ pc[h] = "insert_entry"
  /\ NoRival(h)
  /\ ~(Storable(Decision(h)) /\ Unique(Decision(h), entries))
  /\ Exit(h, TRUE)
  /\ Abandon(h)
  /\ UNCHANGED <<clock, received, replies>>

\* The worker dies, the connection is lost, a statement fails or the request
\* is cancelled, anywhere in the transaction.
Fail(h) ==
  /\ pc[h] \in InTransaction
  /\ Exit(h, TRUE)
  /\ Abandon(h)
  /\ UNCHANGED <<clock, received, replies>>

Deliver(h) ==
  /\ pc[h] = "reply"
  /\ replies' = replies \cup {[number |-> job[h].number, answer |-> answer[h]]}
  /\ Abandon(h)
  /\ UNCHANGED <<clock, tables, locks, loaded, snapshot, row, posted, raised,
                 received>>

\* The transaction has ended but the client never hears of it.
LoseReply(h) ==
  /\ pc[h] = "reply"
  /\ Abandon(h)
  /\ UNCHANGED <<clock, tables, locks, loaded, snapshot, row, posted, raised,
                 received, replies>>

\* What a handler does by itself, when nothing fails.
Step(h) ==
  \/ Reserve(h)     \/ ReserveConflicts(h)
  \/ Replay(h)      \/ Refuse(h)          \/ FindExpired(h)  \/ Reset(h)
  \/ LockAccount(h) \/ AccountNotFound(h) \/ Accept(h)       \/ Reject(h)
  \/ InsertEntry(h) \/ InsertFails(h)     \/ UpdateVersion(h)
  \/ Complete(h)    \/ Commit(h)          \/ Deliver(h)

Next ==
  \/ Tick
  \/ \E h \in Handlers :
       \/ \E c \in Commands : Receive(h, c)
       \/ Step(h)
       \/ Fail(h)
       \/ LoseReply(h)

Spec == Init /\ [][Next]_vars

\* The event loop runs every handler that can run, and PostgreSQL grants a
\* row lock to those that wait for it in turn.
Fairness == \A h \in Handlers : SF_vars(Step(h))

LiveSpec == Spec /\ Fairness

-----------------------------------------------------------------------------
(***************************************************************************)
(* Properties                                                              *)
(***************************************************************************)

\* Every variable keeps to the values its column or local variable can hold,
\* and a handler has a job exactly while it serves a request.
TypeOK ==
  /\ clock \in Nat
  /\ version \in [Accounts -> Nat]
  /\ entries \in SUBSET LedgerEntry
  /\ idem \in [IdemIds -> IdempotencyKey \cup {NoRow}]
  /\ keyLock \in [IdemIds -> Handlers \cup {NoHandler}]
  /\ accountLock \in [Accounts -> Handlers \cup {NoHandler}]
  /\ pc \in [Handlers -> Steps]
  /\ job \in [Handlers -> Job \cup {NoJob}]
  /\ loaded \in [Handlers -> SUBSET Nat]
  /\ snapshot \in [Handlers -> Nat]
  /\ row \in [Handlers -> IdempotencyKey \cup {NoRow}]
  /\ posted \in [Handlers -> SUBSET LedgerEntry]
  /\ raised \in [Handlers -> Nat]
  /\ answer \in [Handlers -> Answer \cup {NoAnswer}]
  /\ received \in Seq(Commands)
  /\ replies \in SUBSET [number : Nat, answer : Answer]

\* The committed entries that executions under idempotency id k produced.
EntriesOf(k) == {e \in entries : IdemId(received[e.request_id]) = k}

\* Exactly once: an id whose row says COMPLETED has one entry in the ledger,
\* the one its stored response and payload hash describe; any other id has
\* none.  (process_payment writes row and entry in one transaction.)
ExactlyOnce ==
  \A k \in IdemIds :
    IF idem[k] # NoRow /\ idem[k].status = "COMPLETED"
    THEN LET n == idem[k].response.attempt IN
         \E e \in entries :
           /\ EntriesOf(k) = {e}
           /\ e.request_id = n
           /\ idem[k].hash = RequestHash(received[n])
           /\ e = Posting(received[n], e.ledger_version - 1, n)
    ELSE EntriesOf(k) = {}

\* No committed row is left IN_PROGRESS or without a response: whatever fails,
\* a reservation is never seen by a later request, so
\* IDEMPOTENCY_IN_PROGRESS is never answered.
NoOrphanReservation ==
  \A k \in IdemIds :
    idem[k] # NoRow => /\ idem[k].status \in {"COMPLETED", "FAILED"}
                       /\ idem[k].response # NoAnswer
                       /\ idem[k].response.status = idem[k].status

\* No interleaving of debits takes the balance an account has in a currency
\* below what decide_posting allows.
BalanceWithinLimit ==
  \A a \in Accounts, cur \in Currencies :
    SumAmounts({e \in entries : e.account = a /\ e.currency = cur})
      >= Floor(BalanceTypeOf[a], CreditLimitOf[a])

\* ledger_version counts the account's entries, which carry the versions
\* 1 .. ledger_version once each: the balance cache relies on it.
VersionsDense ==
  \A a \in Accounts :
    LET es == {e \in entries : e.account = a} IN
    /\ {e.ledger_version : e \in es} = 1 .. version[a]
    /\ \A e, f \in es : e.ledger_version = f.ledger_version => e = f

\* What a client was told stays true: the payment a COMPLETED reply names is
\* in the ledger, for the payload and the key of this very request, and one a
\* FAILED reply names is not, whether the reply is the first or a replay.
RepliesHold ==
  \A r \in replies :
    LET c == received[r.number]
        n == r.answer.attempt
        posting == {e \in entries : e.request_id = n}
    IN
    CASE r.answer.status = "COMPLETED" ->
           /\ posting # {}
           /\ IdemId(received[n]) = IdemId(c)
           /\ RequestHash(received[n]) = RequestHash(c)
      [] r.answer.status = "FAILED" ->
           /\ posting = {}
           /\ IdemId(received[n]) = IdemId(c)
           /\ RequestHash(received[n]) = RequestHash(c)
      [] r.answer.status = "REFUSED" ->
           /\ n = r.number
           /\ posting = {}

\* A stored outcome stands: a COMPLETED row never changes again, and a FAILED
\* one not before it has expired.
OutcomeStands ==
  [][\A k \in IdemIds :
       idem[k] # NoRow /\ idem'[k] # idem[k] =>
         idem[k].status = "FAILED" /\ idem[k].expires_at <= clock]_vars

\* The ledger_version a handler decides on is the committed one as long as it
\* holds the account, unless it renews an expired reservation, the read of which
\* may leave an older copy of the account in the session.  Then the version it
\* would give its entry is taken, and the INSERT is refused.
SnapshotIsCurrentOrRefused ==
  \A h \in Handlers :
    pc[h] \in {"get_balance", "insert_entry", "update_version"} =>
      \/ snapshot[h] = version[Account(h)]
      \/ /\ pc[h] # "update_version"
         /\ idem[Key(h)] # NoRow
         /\ ~Unique(Decision(h), entries)

\* The optimistic guard of update_account_version never fails, even when the
\* snapshot was stale: the unique constraint has refused the entry before.
\* It must not, for ConcurrentLedgerWrite would commit the entry it reports
\* as failed.
GuardNeverFails ==
  \A h \in Handlers :
    pc[h] = "update_version" => snapshot[h] = version[Account(h)]

\* However executions interleave and fail, the tables change as if every
\* payment were decided and recorded in one step.
Atomic == INSTANCE AtomicLedger

Serializable == Atomic!Spec

\* What h waits for is in the hands of g: the idempotency row g has written or
\* locked, the account g has locked, or the version of an entry g has inserted.
WaitsFor(h, g) ==
  /\ g # h
  /\ \/ pc[h] = "reserve" /\ keyLock[Key(h)] = g /\ row[g] # NoRow
     \/ pc[h] = "read_reservation" /\ keyLock[Key(h)] = g
     \/ /\ pc[h] = "lock_account"
        /\ Owner[Account(h)] = Cmd(h).client
        /\ accountLock[Account(h)] = g
     \/ pc[h] = "insert_entry" /\ ~Unique(Decision(h), posted[g])

CanGo(h) ==
  pc[h] \in InTransaction /\ \A g \in Handlers : ~WaitsFor(h, g)

\* No deadlock, and no long wait: whoever a payment waits for can go on at
\* once, or after one other that can.  (process_payment takes its idempotency
\* row before its account, and what it holds ends with its transaction.)
NoDeadlock ==
  \A h, g \in Handlers :
    WaitsFor(h, g) =>
      CanGo(g) \/ \E f \in Handlers : WaitsFor(g, f) /\ CanGo(f)

\* Every request ends: no handler waits for a lock for ever.
RequestsEnd == \A h \in Handlers : pc[h] # "idle" ~> pc[h] = "idle"

\* docs/db_schema.md: "A mismatched `request_hash` returns a conflict
\* response".  Of two requests with one key and different payloads, one is
\* refused.
MismatchedHashConflicts ==
  \A r, s \in replies :
    LET c == received[r.number]
        d == received[s.number]
    IN
    IdemId(c) = IdemId(d) /\ RequestHash(c) # RequestHash(d) =>
      "REFUSED" \in {r.answer.status, s.answer.status}
=============================================================================
