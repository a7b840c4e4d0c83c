-------------------------- MODULE PaymentsInvariant --------------------------
(***************************************************************************)
(* The inductive invariant of Payments: what each handler knows at each    *)
(* statement, and what the committed tables satisfy.  Model-checked with   *)
(* the properties, and proved inductive in PaymentsProofs.                 *)
(***************************************************************************)
EXTENDS Payments

\* Statements before which a handler holds its idempotency row.
HoldingKey == {"reset", "lock_account", "get_balance", "insert_entry",
               "update_version", "complete", "commit"}

\* Statements before which its uncommitted row says IN_PROGRESS.
Reserved == {"lock_account", "get_balance", "insert_entry", "update_version",
             "complete"}

\* The committed row of its key is one the abstract specification executes.
Overwritable(h) ==
  \/ idem[Key(h)] = NoRow
  \/ idem[Key(h)].status = "FAILED" /\ idem[Key(h)].expires_at <= job[h].now

HoldsAccount(h) ==
  accountLock[Account(h)] = h /\ Owner[Account(h)] = Cmd(h).client

\* What the session has of the account row is of the past, and it has nothing
\* unless the handler renews an expired reservation.
LoadedOK(h) ==
  /\ loaded[h] \subseteq 0 .. version[Account(h)]
  /\ loaded[h] = {} \/ idem[Key(h)] # NoRow

SnapshotOK(h) ==
  /\ snapshot[h] <= version[Account(h)]
  /\ snapshot[h] = version[Account(h)] \/ idem[Key(h)] # NoRow

\* The decision still holds on the balance of this moment.
Approved(h) == HoldsAccount(h) /\ AcceptsCommand(Cmd(h), Balance(h))

Drafted(h) ==
  /\ Approved(h)
  /\ snapshot[h] = version[Account(h)]
  /\ Storable(Decision(h))
  /\ posted[h] = {Decision(h)}

Posts(h) ==
  /\ Drafted(h)
  /\ raised[h] = snapshot[h] + 1
  /\ answer[h] = Completed(job[h].number)

TurnsDown(h) ==
  /\ posted[h] = {}
  /\ raised[h] = NoVersion
  /\ \/ /\ Owner[Account(h)] # Cmd(h).client
        /\ answer[h] = Failed(job[h].number, "ACCOUNT_NOT_FOUND")
     \/ /\ HoldsAccount(h)
        /\ ~AcceptsCommand(Cmd(h), Balance(h))
        /\ answer[h] = Failed(job[h].number, RefusalOf(Cmd(h)))

Replays(h) ==
  /\ row[h] = NoRow
  /\ posted[h] = {}
  /\ raised[h] = NoVersion
  /\ idem[Key(h)] # NoRow
  /\ answer[h] = idem[Key(h)].response

Settles(h) ==
  /\ row[h] = Settled(Cmd(h), answer[h], job[h].now)
  /\ Overwritable(h)
  /\ Posts(h) \/ TurnsDown(h)

JobKnown(h) ==
  /\ job[h] \in Job
  /\ job[h].number \in 1 .. Len(received)
  /\ received[job[h].number] = job[h].command
  /\ job[h].now <= clock

\* What a handler has written, holds and may rely on before each statement.
HandlerOK(h) ==
  /\ pc[h] # "idle" => JobKnown(h)
  /\ pc[h] \in Steps \ (Reserved \cup {"commit"}) => row[h] = NoRow
  /\ pc[h] \in Steps \ {"update_version", "complete", "commit"} =>
       posted[h] = {}
  /\ pc[h] \in Steps \ {"complete", "commit"} => raised[h] = NoVersion
  /\ pc[h] \in Steps \ {"reset", "lock_account"} => loaded[h] = {}
  /\ pc[h] \in HoldingKey => keyLock[Key(h)] = h
  /\ pc[h] \in {"reset", "lock_account"} => LoadedOK(h)
  /\ pc[h] \in {"read_reservation", "reset"} => idem[Key(h)] # NoRow
  /\ pc[h] = "reset" => Overwritable(h)
  /\ pc[h] \in Reserved =>
       row[h] = InProgress(Cmd(h), job[h].now) /\ Overwritable(h)
  /\ pc[h] = "get_balance" => HoldsAccount(h) /\ SnapshotOK(h)
  /\ pc[h] = "insert_entry" => Approved(h) /\ SnapshotOK(h)
  /\ pc[h] = "update_version" => Drafted(h)
  /\ pc[h] = "complete" => Posts(h) \/ TurnsDown(h)
  /\ pc[h] = "commit" => Replays(h) \/ Settles(h)
  /\ pc[h] = "reply" => answer[h] \in Answer

EntriesKnown == \A e \in entries : e.request_id \in 1 .. Len(received)

TablesOK ==
  /\ Len(received) <= MaxRequests
  /\ EntriesKnown
  /\ NoOrphanReservation
  /\ VersionsDense
  /\ ExactlyOnce

\* Every reachable state satisfies this, and every step preserves it.
IInv == TypeOK /\ TablesOK /\ \A h \in Handlers : HandlerOK(h)

-----------------------------------------------------------------------------
(***************************************************************************)
(* Who holds a lock, and what for.                                         *)
(***************************************************************************)
\* Statements before which a handler may hold its account.
HoldingAccount == {"get_balance", "insert_entry", "update_version",
                   "complete", "commit"}

\* What stands behind NoDeadlock: a lock is held by a transaction that is past
\* the statement that takes it, on the row of its own request.
LocksHeld ==
  /\ \A k \in IdemIds, g \in Handlers :
       keyLock[k] = g => pc[g] \in HoldingKey /\ Key(g) = k
  /\ \A a \in Accounts, g \in Handlers :
       accountLock[a] = g => pc[g] \in HoldingAccount /\ Account(g) = a

-----------------------------------------------------------------------------
(***************************************************************************)
(* What clients are told, and what the tables say of it.  Attempt n is the *)
(* execution of the n-th request received.                                 *)
(***************************************************************************)
PostingOf(n) == {e \in entries : e.request_id = n}

\* Attempt n has ended, and so posts no more.
Ended(n) == \A h \in Handlers : pc[h] \in InTransaction => job[h].number # n

\* Answer a can be given to a request for idempotency id k with this hash.
Truthful(a, k, hash) ==
  LET n == a.attempt IN
  /\ n \in 1 .. Len(received)
  /\ Ended(n)
  /\ a.status = "COMPLETED" <=> PostingOf(n) # {}
  /\ a.status # "REFUSED" =>
       IdemId(received[n]) = k /\ RequestHash(received[n]) = hash

\* Answer a is true as an answer to request m.
Answers(a, m) ==
  /\ m \in 1 .. Len(received)
  /\ Truthful(a, IdemId(received[m]), RequestHash(received[m]))
  /\ a.status = "REFUSED" => a.attempt = m

AttemptsDiffer ==
  \A g, h \in Handlers :
    pc[g] # "idle" /\ pc[h] # "idle" /\ job[g].number = job[h].number => g = h

NothingPostedYet ==
  \A h \in Handlers : pc[h] \in InTransaction => PostingOf(job[h].number) = {}

RowsTruthful ==
  \A k \in IdemIds :
    idem[k] # NoRow => Truthful(idem[k].response, k, idem[k].hash)

\* Who writes no row of its own replays one for the same payload.
ReplaysMatch ==
  \A h \in Handlers :
    pc[h] = "commit" /\ row[h] = NoRow => idem[Key(h)].hash = RequestHash(Cmd(h))

\* What stands behind RepliesHold: the responses stored, about to be given and
\* given are true, and no execution still under way can change that.
RepliesInv ==
  /\ AttemptsDiffer
  /\ NothingPostedYet
  /\ RowsTruthful
  /\ ReplaysMatch
  /\ \A h \in Handlers : pc[h] = "reply" => Answers(answer[h], job[h].number)
  /\ \A r \in replies : Answers(r.answer, r.number)
=============================================================================
