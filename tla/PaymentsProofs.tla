--------------------------- MODULE PaymentsProofs ---------------------------
(***************************************************************************)
(* Proofs that IInv is an inductive invariant of Payments, and of what     *)
(* follows from it.                                                        *)
(***************************************************************************)
EXTENDS PaymentsInvariant, Service, CollectionLemmas

USE DEF NoVersion, NoError

\* A command's id, hash and posting are of the types of the columns they fill.
LEMMA CommandTypes ==
  ASSUME NEW c \in Commands, NEW v \in Nat, NEW n \in Nat, NEW t \in Nat
  PROVE  /\ c \in Command
         /\ IdemId(c) \in IdemIds
         /\ RequestHash(c) \in Hash
         /\ Posting(c, v, n) \in LedgerEntry
         /\ InProgress(c, t) \in IdempotencyKey
         /\ RefusalOf(c) \in ErrorCode
         /\ c.account \in Accounts
         /\ Completed(n) \in Answer
         /\ \A code \in ErrorCode : Failed(n, code) \in Answer
<1>1. c \in Command
  BY CommandsAssumption
<1>2. IdemId(c) \in IdemIds /\ c.account \in Accounts
  BY <1>1 DEF Command, IdemId, IdemIds
<1>3. RequestHash(c) \in Hash
  BY <1>1 DEF Command, RequestHash, Hash
<1>4. Signed(c.amount, c.direction) \in Int
  BY <1>1 DEF Command, Signed
<1>5. Posting(c, v, n) \in LedgerEntry
  BY <1>1, <1>4 DEF Command, Posting, LedgerEntry
<1>6. t + TTL \in Nat
  BY BoundsAssumption
<1>7. InProgress(c, t) \in IdempotencyKey
  BY <1>3, <1>6 DEF InProgress, IdempotencyKey
<1>8. RefusalOf(c) \in ErrorCode
  BY DEF RefusalOf, RefusalCode, ErrorCode
<1>9. Completed(n) \in Answer /\ \A code \in ErrorCode : Failed(n, code) \in Answer
  BY DEF Completed, Failed, Answer
<1> QED
  BY <1>1, <1>2, <1>3, <1>5, <1>7, <1>8, <1>9

LEMMA InitInvariant == Init => IInv
<1> SUFFICES ASSUME Init PROVE IInv
  OBVIOUS
<1>1. TypeOK
  BY DEF Init, TypeOK, Steps
<1>2. TablesOK
  <2>1. /\ EntriesKnown
        /\ NoOrphanReservation
        /\ Len(received) <= MaxRequests
    BY BoundsAssumption DEF Init, EntriesKnown, NoOrphanReservation
  <2>2. VersionsDense
    BY DEF Init, VersionsDense
  <2>3. ExactlyOnce
    BY DEF Init, ExactlyOnce, EntriesOf
  <2> QED
    BY <2>1, <2>2, <2>3 DEF TablesOK
<1>3. \A h \in Handlers : HandlerOK(h)
  BY DEF Init, HandlerOK, Reserved, HoldingKey
<1> QED
  BY <1>1, <1>2, <1>3 DEF IInv

(***************************************************************************)
(* A step of one handler leaves the others as they were.                   *)
(***************************************************************************)
\* Handler g's own variables do not change.
Still(g) ==
  /\ pc'[g] = pc[g]
  /\ job'[g] = job[g]
  /\ loaded'[g] = loaded[g]
  /\ snapshot'[g] = snapshot[g]
  /\ row'[g] = row[g]
  /\ posted'[g] = posted[g]
  /\ raised'[g] = raised[g]
  /\ answer'[g] = answer[g]

\* Nor does what it holds locked.
Protected(g) ==
  /\ pc[g] \in HoldingKey =>
       keyLock'[Key(g)] = g /\ idem'[Key(g)] = idem[Key(g)]
  /\ pc[g] # "idle" /\ accountLock[Account(g)] = g =>
       /\ accountLock'[Account(g)] = g
       /\ version'[Account(g)] = version[Account(g)]
       /\ GetBalance(entries', Account(g), Cmd(g).currency) = Balance(g)

\* Time, versions and the history only grow, and no row is deleted.
Forward ==
  /\ clock <= clock'
  /\ \A a \in Accounts : version[a] <= version'[a]
  /\ Len(received) <= Len(received')
  /\ \A n \in 1 .. Len(received) : received'[n] = received[n]
  /\ \A k \in IdemIds : idem[k] # NoRow => idem'[k] # NoRow

LEMMA JobTypes ==
  ASSUME TypeOK, NEW h \in Handlers, JobKnown(h)
  PROVE  /\ Cmd(h) \in Commands
         /\ Cmd(h) \in Command
         /\ Key(h) \in IdemIds
         /\ Account(h) \in Accounts
         /\ job[h].number \in Nat
         /\ job[h].now \in Nat
<1>1. Cmd(h) \in Commands /\ job[h].number \in Nat /\ job[h].now \in Nat
  BY DEF JobKnown, Job, Cmd
<1> QED
  BY <1>1, CommandTypes DEF Key, Account

\* The response a handler settles on is a row's response.
LEMMA OutcomeTypes ==
  ASSUME TypeOK, NEW h \in Handlers, JobKnown(h), Posts(h) \/ TurnsDown(h)
  PROVE  /\ answer[h] \in Answer
         /\ answer[h].status \in {"COMPLETED", "FAILED"}
         /\ answer[h].attempt = job[h].number
         /\ Settled(Cmd(h), answer[h], job[h].now) \in IdempotencyKey
<1>1. /\ Cmd(h) \in Commands /\ job[h].number \in Nat
      /\ job[h].now + TTL \in Nat
  BY JobTypes, BoundsAssumption
<1>2. \/ answer[h] = Completed(job[h].number)
      \/ \E code \in ErrorCode : answer[h] = Failed(job[h].number, code)
  BY <1>1, CommandTypes DEF Posts, TurnsDown, ErrorCode
<1>3. /\ answer[h] \in Answer
      /\ answer[h].status \in {"COMPLETED", "FAILED"}
      /\ answer[h].attempt = job[h].number
  <2>1. CASE answer[h] = Completed(job[h].number)
    BY <1>1, <2>1, CommandTypes DEF Completed
  <2>2. CASE \E code \in ErrorCode : answer[h] = Failed(job[h].number, code)
    BY <1>1, <2>2, CommandTypes DEF Failed
  <2> QED
    BY <1>2, <2>1, <2>2
<1>4. Settled(Cmd(h), answer[h], job[h].now) \in IdempotencyKey
  BY <1>1, <1>3, CommandTypes DEF Settled, IdempotencyKey
<1> QED
  BY <1>3, <1>4

LEMMA Undisturbed ==
  ASSUME TypeOK, TypeOK', NEW g \in Handlers, HandlerOK(g),
         Still(g), Protected(g), Forward
  PROVE  HandlerOK(g)'
<1>1. Cmd(g)' = Cmd(g) /\ Key(g)' = Key(g) /\ Account(g)' = Account(g)
  BY DEF Still, Cmd, Key, Account
<1>2. CASE pc[g] = "idle"
  BY <1>2 DEF HandlerOK, Still, Steps, Reserved, HoldingKey
<1>3. CASE pc[g] # "idle"
  <2>1. JobKnown(g) /\ pc[g] \in Steps /\ pc'[g] = pc[g]
    BY <1>3 DEF HandlerOK, TypeOK, Still
  <2>2. Account(g) \in Accounts /\ Key(g) \in IdemIds
    BY <2>1, JobTypes
  <2>3. JobKnown(g)'
    BY <2>1 DEF JobKnown, Still, Forward, Job, TypeOK
  <2>4. version[Account(g)] \in Nat /\ version'[Account(g)] \in Nat
        /\ version[Account(g)] <= version'[Account(g)]
    BY <2>2 DEF Forward, TypeOK
  <2>5. Decision(g)' = Decision(g)
    BY <1>1 DEF Decision, Still
  <2>6. pc[g] \in HoldingKey => (Overwritable(g) => Overwritable(g)')
    BY <1>1 DEF Overwritable, Protected, Still
  <2>7. HoldsAccount(g) =>
          /\ HoldsAccount(g)'
          /\ version'[Account(g)] = version[Account(g)]
          /\ Balance(g)' = Balance(g)
    BY <1>1, <1>3 DEF HoldsAccount, Protected, Balance
  <2>8. Approved(g) => Approved(g)'
    BY <2>7, <1>1 DEF Approved
  <2>9. Drafted(g) => Drafted(g)'
    BY <2>7, <2>8, <2>5, <1>1 DEF Drafted, Approved, Still
  <2>10. Posts(g) => Posts(g)'
    BY <2>9 DEF Posts, Still
  <2>11. TurnsDown(g) => TurnsDown(g)'
    BY <2>7, <1>1 DEF TurnsDown, Still
  <2>12. pc[g] \in HoldingKey => (Replays(g) => Replays(g)')
    BY <1>1 DEF Replays, Still, Protected
  <2>13. pc[g] \in HoldingKey => (Settles(g) => Settles(g)')
    BY <2>6, <2>10, <2>11, <1>1 DEF Settles, Still
  <2>14. pc[g] \in HoldingKey => keyLock'[Key(g)'] = g
    BY <1>1 DEF Protected
  <2>15. pc[g] \in {"reset", "lock_account"} => LoadedOK(g)'
    BY <2>2, <2>4, <1>1 DEF HandlerOK, Forward, Still, LoadedOK
  <2>16. /\ pc[g] = "reset" => Overwritable(g)'
         /\ pc[g] \in {"read_reservation", "reset"} => idem'[Key(g)'] # NoRow
    BY <2>2, <2>6, <1>1 DEF HandlerOK, Forward, HoldingKey
  <2>17. pc[g] \in Reserved =>
           row'[g] = InProgress(Cmd(g)', job'[g].now) /\ Overwritable(g)'
    BY <2>6, <1>1 DEF HandlerOK, Still, HoldingKey, Reserved
  <2>18. pc[g] = "get_balance" => HoldsAccount(g)' /\ SnapshotOK(g)'
    BY <2>2, <2>7, <1>1 DEF HandlerOK, Forward, Still, SnapshotOK
  <2>19. pc[g] = "insert_entry" => Approved(g)' /\ SnapshotOK(g)'
    BY <2>2, <2>7, <2>8, <1>1
    DEF HandlerOK, Forward, Still, Approved, SnapshotOK
  <2>20. pc[g] = "commit" => Replays(g)' \/ Settles(g)'
    BY <2>12, <2>13 DEF HandlerOK, HoldingKey
  <2>21. /\ pc'[g] \in Steps \ (Reserved \cup {"commit"}) => row'[g] = NoRow
         /\ pc'[g] \in Steps \ {"update_version", "complete", "commit"} =>
              posted'[g] = {}
         /\ pc'[g] \in Steps \ {"complete", "commit"} => raised'[g] = 0
         /\ pc'[g] \in Steps \ {"reset", "lock_account"} => loaded'[g] = {}
         /\ pc'[g] = "update_version" => Drafted(g)'
         /\ pc'[g] = "complete" => Posts(g)' \/ TurnsDown(g)'
         /\ pc'[g] = "reply" => answer'[g] \in Answer
    BY <2>9, <2>10, <2>11 DEF HandlerOK, Still
  <2> QED
    BY <2>1, <2>3, <2>14, <2>15, <2>16, <2>17, <2>18, <2>19, <2>20, <2>21
    DEF HandlerOK
<1> QED
  BY <1>2, <1>3

\* A step of h that leaves the tables alone, and the locks of the others.
LEMMA OthersKept ==
  ASSUME IInv, TypeOK', NEW h \in Handlers,
         UNCHANGED <<clock, tables, received>>,
         \A g \in Handlers \ {h} : Still(g),
         \A g \in Handlers \ {h} :
           pc[g] \in HoldingKey => keyLock'[Key(g)] = keyLock[Key(g)],
         \A a \in Accounts :
           accountLock[a] \in Handlers \ {h} => accountLock'[a] = accountLock[a]
  PROVE  TablesOK' /\ \A g \in Handlers \ {h} : HandlerOK(g)'
<1>1. TablesOK'
  BY DEF IInv, TablesOK, EntriesKnown, NoOrphanReservation, VersionsDense,
         ExactlyOnce, EntriesOf, tables
<1>2. ASSUME NEW g \in Handlers \ {h} PROVE HandlerOK(g)'
  <2>1. TypeOK /\ HandlerOK(g) /\ Still(g)
    BY DEF IInv
  <2>2. Forward
    BY <2>1 DEF Forward, tables, TypeOK
  <2>3. pc[g] \in HoldingKey =>
          keyLock'[Key(g)] = g /\ idem'[Key(g)] = idem[Key(g)]
    BY <2>1 DEF HandlerOK, tables
  <2>4. pc[g] # "idle" => Account(g) \in Accounts
    BY <2>1, JobTypes DEF HandlerOK
  <2>5. Protected(g)
    BY <2>3, <2>4 DEF Protected, tables, Balance
  <2> QED
    BY <2>1, <2>2, <2>5, Undisturbed
<1> QED
  BY <1>1, <1>2

\* The tables and the other handlers are as above: what is left is handler h.
LEMMA TickInvariant == ASSUME IInv, Tick PROVE IInv'
<1>1. TypeOK'
  BY DEF IInv, TypeOK, Tick, tables, locks, local
<1>2. TablesOK'
  BY DEF IInv, TablesOK, EntriesKnown, NoOrphanReservation, VersionsDense,
         ExactlyOnce, EntriesOf, Tick, tables
<1>3. ASSUME NEW g \in Handlers PROVE HandlerOK(g)'
  <2>1. TypeOK /\ HandlerOK(g) /\ Still(g)
    BY DEF IInv, Tick, Still, local
  <2>2. Forward
    BY <2>1 DEF Forward, Tick, tables, TypeOK
  <2>3. Protected(g)
    BY <2>1 DEF Protected, HandlerOK, Tick, tables, locks, Balance
  <2> QED
    BY <1>1, <2>1, <2>2, <2>3, Undisturbed
<1> QED
  BY <1>1, <1>2, <1>3 DEF IInv

LEMMA ReceiveInvariant ==
  ASSUME IInv, NEW h \in Handlers, NEW c \in Commands, Receive(h, c)
  PROVE  IInv'
<1> USE DEF Goto
<1>1. TypeOK /\ HandlerOK(h) /\ pc[h] = "idle" /\ Len(received) \in Nat
  BY DEF IInv, Receive, TypeOK
<1>2. received' \in Seq(Commands) /\ Len(received') = Len(received) + 1
      /\ received'[Len(received) + 1] = c
      /\ \A n \in 1 .. Len(received) : received'[n] = received[n]
  BY <1>1 DEF Receive, TypeOK
<1>3. job'[h] = [number |-> Len(received) + 1, command |-> c, now |-> clock]
  BY <1>1 DEF Receive, TypeOK
<1>4. job'[h] \in Job
  BY <1>1, <1>3 DEF Job, TypeOK
<1>5. TypeOK'
  BY <1>1, <1>2, <1>4 DEF TypeOK, Receive, tables, locks, Steps
<1>6. TablesOK'
  <2>1. UNCHANGED tables /\ Len(received') <= MaxRequests
    BY <1>1, <1>2, BoundsAssumption DEF Receive
  <2>2. EntriesKnown'
    BY <1>1, <1>2, <2>1 DEF IInv, TablesOK, EntriesKnown, tables
  <2>3. \A e \in entries : received'[e.request_id] = received[e.request_id]
    BY <1>2 DEF IInv, TablesOK, EntriesKnown
  <2>4. \A k \in IdemIds : EntriesOf(k)' = EntriesOf(k)
    BY <2>1, <2>3 DEF EntriesOf, tables
  <2>5. ExactlyOnce'
    <3> SUFFICES ASSUME NEW k \in IdemIds,
                        idem[k] # NoRow, idem[k].status = "COMPLETED"
                 PROVE  \E e \in entries :
                          /\ EntriesOf(k) = {e}
                          /\ e.request_id = idem[k].response.attempt
                          /\ idem[k].hash =
                               RequestHash(received'[e.request_id])
                          /\ e = Posting(received'[e.request_id],
                                         e.ledger_version - 1, e.request_id)
      BY <2>1, <2>4 DEF IInv, TablesOK, ExactlyOnce, tables
    <3>1. PICK e \in entries :
            /\ EntriesOf(k) = {e}
            /\ e.request_id = idem[k].response.attempt
            /\ idem[k].hash = RequestHash(received[e.request_id])
            /\ e = Posting(received[e.request_id], e.ledger_version - 1,
                           e.request_id)
      BY DEF IInv, TablesOK, ExactlyOnce
    <3> QED
      BY <3>1, <2>3
  <2> QED
    BY <2>1, <2>2, <2>5
    DEF IInv, TablesOK, NoOrphanReservation, VersionsDense, tables
<1>7. ASSUME NEW g \in Handlers \ {h} PROVE HandlerOK(g)'
  <2>1. HandlerOK(g) /\ Still(g)
    BY DEF IInv, TypeOK, Receive, Still
  <2>2. Forward
    BY <1>1, <1>2 DEF Forward, Receive, tables, TypeOK
  <2>3. Protected(g)
    BY <2>1 DEF Protected, HandlerOK, Receive, tables, locks, Balance
  <2> QED
    BY <1>1, <1>5, <2>1, <2>2, <2>3, Undisturbed
<1>8. HandlerOK(h)'
  <2>1. pc'[h] = "reserve"
    BY <1>1 DEF Receive, TypeOK
  <2>2. JobKnown(h)'
    BY <1>1, <1>2, <1>3, <1>4 DEF JobKnown, Receive, TypeOK
  <2>3. row'[h] = NoRow /\ posted'[h] = {} /\ raised'[h] = 0
        /\ loaded'[h] = {}
    BY <1>1 DEF HandlerOK, Receive, Reserved, Steps
  <2> QED
    BY <2>1, <2>2, <2>3 DEF HandlerOK, Reserved, HoldingKey
<1> QED
  BY <1>5, <1>6, <1>7, <1>8 DEF IInv

(***************************************************************************)
(* reserve                                                                 *)
(***************************************************************************)
LEMMA ReserveInvariant ==
  ASSUME IInv, NEW h \in Handlers, Reserve(h)
  PROVE  IInv'
<1> USE DEF Goto
<1>1. TypeOK /\ HandlerOK(h) /\ pc[h] = "reserve" /\ JobKnown(h)
  BY DEF IInv, Reserve, HandlerOK
<1>2. /\ Cmd(h) \in Commands /\ Key(h) \in IdemIds /\ Account(h) \in Accounts
      /\ Cmd(h)' = Cmd(h) /\ Key(h)' = Key(h) /\ Account(h)' = Account(h)
  BY <1>1, JobTypes DEF Reserve, Cmd, Key, Account
<1>3. InProgress(Cmd(h), job[h].now) \in IdempotencyKey
  BY <1>1, <1>2, JobTypes, CommandTypes
<1>4. TypeOK'
  BY <1>1, <1>3 DEF TypeOK, Reserve, tables, Steps
<1>5. \A g \in Handlers \ {h} : Still(g)
  BY <1>1 DEF Reserve, TypeOK, Still
<1>6. ASSUME NEW g \in Handlers \ {h}, pc[g] \in HoldingKey
      PROVE  keyLock'[Key(g)] = keyLock[Key(g)]
  \* A holder of the row of a key that has no committed row has written it.
  <2>1. HandlerOK(g) /\ keyLock[Key(g)] = g
    BY <1>6 DEF IInv, HandlerOK
  <2>2. CASE Key(g) = Key(h)
    <3>1. pc[g] # "reset"
      BY <2>1, <2>2 DEF HandlerOK, Reserve
    <3>2. ~Replays(g)
      BY <2>1, <2>2 DEF Replays, Reserve
    <3>3. NoRow \notin IdempotencyKey
      BY NullsAssumption
    <3>4. JobKnown(g) /\ Cmd(g) \in Commands /\ job[g].now \in Nat
          /\ job[g].number \in Nat
      BY <1>1, <1>6, <2>1, JobTypes DEF HandlerOK, HoldingKey
    <3>5. CASE pc[g] \in Reserved
      BY <2>1, <2>2, <3>3, <3>4, <3>5, CommandTypes
      DEF HandlerOK, Reserve, Written
    <3>6. CASE pc[g] = "commit"
      <4>1. Settles(g)
        BY <2>1, <3>2, <3>6 DEF HandlerOK
      <4>2. row[g] \in IdempotencyKey
        BY <1>1, <3>4, <4>1, OutcomeTypes DEF Settles
      <4> QED
        BY <2>1, <2>2, <3>3, <4>2 DEF Reserve, Written
    <3> QED
      BY <1>6, <3>1, <3>5, <3>6 DEF HoldingKey, Reserved
  <2>3. CASE Key(g) # Key(h)
    BY <2>3 DEF Reserve
  <2> QED
    BY <2>2, <2>3
<1>7. TablesOK' /\ \A g \in Handlers \ {h} : HandlerOK(g)'
  BY <1>4, <1>5, <1>6, OthersKept DEF Reserve
<1>8. HandlerOK(h)'
  <2>1. pc'[h] = "lock_account" /\ JobKnown(h)'
    BY <1>1 DEF Reserve, TypeOK, JobKnown
  <2>2. row'[h] = InProgress(Cmd(h), job[h].now)' /\ posted'[h] = {}
        /\ raised'[h] = 0 /\ keyLock'[Key(h)'] = h
    BY <1>1, <1>2 DEF HandlerOK, Reserve, TypeOK, Reserved, Steps, InProgress
  <2>3. Overwritable(h)'
    BY <1>2 DEF Overwritable, Reserve, tables
  <2>4. LoadedOK(h)'
    BY <1>1, <1>2 DEF HandlerOK, LoadedOK, Reserve, tables, Steps
  <2> QED
    BY <2>1, <2>2, <2>3, <2>4 DEF HandlerOK, Reserved, HoldingKey, InProgress
<1> QED
  BY <1>4, <1>7, <1>8 DEF IInv

LEMMA ReserveConflictsInvariant ==
  ASSUME IInv, NEW h \in Handlers, ReserveConflicts(h)
  PROVE  IInv'
<1> USE DEF Goto
<1>1. TypeOK /\ HandlerOK(h) /\ pc[h] = "reserve" /\ JobKnown(h)
  BY DEF IInv, ReserveConflicts, HandlerOK
<1>2. TypeOK'
  BY <1>1 DEF TypeOK, ReserveConflicts, tables, locks, local, Steps
<1>3. \A g \in Handlers \ {h} : Still(g)
  BY <1>1 DEF ReserveConflicts, TypeOK, Still, local
<1>4. TablesOK' /\ \A g \in Handlers \ {h} : HandlerOK(g)'
  BY <1>2, <1>3, OthersKept DEF ReserveConflicts, locks
<1>5. HandlerOK(h)'
  <2>1. pc'[h] = "read_reservation" /\ JobKnown(h)'
    BY <1>1 DEF ReserveConflicts, local, TypeOK, JobKnown
  <2>2. idem'[Key(h)'] # NoRow
    BY DEF ReserveConflicts, tables, local, Key, Cmd
  <2> QED
    BY <1>1, <2>1, <2>2
    DEF HandlerOK, ReserveConflicts, local, Reserved, HoldingKey, Steps
<1> QED
  BY <1>2, <1>4, <1>5 DEF IInv

\* A row that is replayed or refused holds a response; one that is reset is
\* FAILED and expired.
LEMMA VerdictMeans ==
  ASSUME IInv, NEW h \in Handlers, JobKnown(h), idem[Key(h)] # NoRow
  PROVE  /\ VerdictOn(h) = "replay" => idem[Key(h)].response \in Answer
         /\ VerdictOn(h) = "reset" => Overwritable(h)
<1>1. Key(h) \in IdemIds /\ idem[Key(h)] \in IdempotencyKey
  BY JobTypes DEF IInv, TypeOK
<1>2. /\ idem[Key(h)].response \in Answer
      /\ idem[Key(h)].status \in {"COMPLETED", "FAILED"}
  BY <1>1 DEF IInv, TablesOK, NoOrphanReservation, IdempotencyKey
<1> QED
  BY <1>1, <1>2 DEF VerdictOn, Verdict, Overwritable

LEMMA ReplayInvariant ==
  ASSUME IInv, NEW h \in Handlers, Replay(h)
  PROVE  IInv'
<1> USE DEF Goto, LockRow
<1>1. TypeOK /\ HandlerOK(h) /\ pc[h] = "read_reservation" /\ JobKnown(h)
      /\ idem[Key(h)] # NoRow
  BY DEF IInv, Replay, HandlerOK
<1>2. /\ Key(h) \in IdemIds /\ Key(h)' = Key(h)
      /\ idem[Key(h)].response \in Answer
  BY <1>1, JobTypes, VerdictMeans DEF Replay, Key, Cmd
<1>3. TypeOK'
  BY <1>1, <1>2 DEF TypeOK, Replay, tables, Steps
<1>4. \A g \in Handlers \ {h} : Still(g)
  BY <1>1 DEF Replay, TypeOK, Still
<1>5. \A g \in Handlers \ {h} :
        pc[g] \in HoldingKey => keyLock'[Key(g)] = keyLock[Key(g)]
  BY <1>1, HandlersAssumption DEF Replay, IInv, HandlerOK
<1>6. TablesOK' /\ \A g \in Handlers \ {h} : HandlerOK(g)'
  BY <1>3, <1>4, <1>5, OthersKept DEF Replay
<1>7. HandlerOK(h)'
  <2>1. pc'[h] = "commit" /\ JobKnown(h)' /\ keyLock'[Key(h)'] = h
    BY <1>1, <1>2 DEF Replay, TypeOK, JobKnown
  <2>2. Replays(h)' /\ loaded'[h] = {}
    BY <1>1, <1>2 DEF HandlerOK, Replays, Replay, tables, TypeOK, Reserved,
                      Steps
  <2> QED
    BY <2>1, <2>2 DEF HandlerOK, Reserved, HoldingKey
<1> QED
  BY <1>3, <1>6, <1>7 DEF IInv

LEMMA RefuseInvariant ==
  ASSUME IInv, NEW h \in Handlers, Refuse(h)
  PROVE  IInv'
<1> USE DEF Goto
<1>1. TypeOK /\ HandlerOK(h) /\ pc[h] = "read_reservation" /\ JobKnown(h)
  BY DEF IInv, Refuse, HandlerOK
<1>2. Refused(job[h].number, VerdictOn(h)) \in Answer
  BY <1>1, JobTypes DEF Refuse, Refused, Answer
<1>3. TypeOK'
  BY <1>1, <1>2 DEF TypeOK, Refuse, tables, locks, Steps
<1>4. \A g \in Handlers \ {h} : Still(g)
  BY <1>1 DEF Refuse, TypeOK, Still
<1>5. TablesOK' /\ \A g \in Handlers \ {h} : HandlerOK(g)'
  BY <1>3, <1>4, OthersKept DEF Refuse, locks
<1>6. HandlerOK(h)'
  <2>1. pc'[h] = "reply" /\ JobKnown(h)' /\ answer'[h] \in Answer
    BY <1>1, <1>2 DEF Refuse, TypeOK, JobKnown
  <2> QED
    BY <1>1, <2>1 DEF HandlerOK, Refuse, Reserved, HoldingKey, Steps
<1> QED
  BY <1>3, <1>5, <1>6 DEF IInv

LEMMA FindExpiredInvariant ==
  ASSUME IInv, NEW h \in Handlers, FindExpired(h)
  PROVE  IInv'
<1> USE DEF Goto, LockRow
<1>1. TypeOK /\ HandlerOK(h) /\ pc[h] = "read_reservation" /\ JobKnown(h)
      /\ idem[Key(h)] # NoRow
  BY DEF IInv, FindExpired, HandlerOK
<1>2. /\ Key(h) \in IdemIds /\ Account(h) \in Accounts
      /\ Key(h)' = Key(h) /\ Account(h)' = Account(h) /\ Overwritable(h)
      /\ version[Account(h)] \in Nat
  BY <1>1, JobTypes, VerdictMeans DEF FindExpired, Key, Cmd, Account, TypeOK
<1>3. TypeOK'
  BY <1>1, <1>2 DEF TypeOK, FindExpired, tables, Steps
<1>4. \A g \in Handlers \ {h} : Still(g)
  BY <1>1 DEF FindExpired, TypeOK, Still
<1>5. \A g \in Handlers \ {h} :
        pc[g] \in HoldingKey => keyLock'[Key(g)] = keyLock[Key(g)]
  BY <1>1, HandlersAssumption DEF FindExpired, IInv, HandlerOK
<1>6. TablesOK' /\ \A g \in Handlers \ {h} : HandlerOK(g)'
  BY <1>3, <1>4, <1>5, OthersKept DEF FindExpired
<1>7. HandlerOK(h)'
  <2>1. pc'[h] = "reset" /\ JobKnown(h)' /\ keyLock'[Key(h)'] = h
    BY <1>1, <1>2 DEF FindExpired, TypeOK, JobKnown
  <2>2. Overwritable(h)' /\ idem'[Key(h)'] # NoRow
    BY <1>1, <1>2 DEF Overwritable, FindExpired, tables
  <2>3. LoadedOK(h)'
    BY <1>1, <1>2 DEF LoadedOK, FindExpired, TypeOK, tables
  <2> QED
    BY <1>1, <2>1, <2>2, <2>3
    DEF HandlerOK, FindExpired, Reserved, HoldingKey, Steps
<1> QED
  BY <1>3, <1>6, <1>7 DEF IInv

LEMMA ResetInvariant ==
  ASSUME IInv, NEW h \in Handlers, Reset(h)
  PROVE  IInv'
<1> USE DEF Goto
<1>1. TypeOK /\ HandlerOK(h) /\ pc[h] = "reset" /\ JobKnown(h)
  BY DEF IInv, Reset, HandlerOK
<1>2. /\ Cmd(h)' = Cmd(h) /\ Key(h)' = Key(h) /\ Account(h)' = Account(h)
      /\ InProgress(Cmd(h), job[h].now) \in IdempotencyKey
  BY <1>1, JobTypes, CommandTypes DEF Reset, Key, Cmd, Account
<1>3. TypeOK'
  BY <1>1, <1>2 DEF TypeOK, Reset, tables, locks, Steps
<1>4. \A g \in Handlers \ {h} : Still(g)
  BY <1>1 DEF Reset, TypeOK, Still
<1>5. TablesOK' /\ \A g \in Handlers \ {h} : HandlerOK(g)'
  BY <1>3, <1>4, OthersKept DEF Reset, locks
<1>6. HandlerOK(h)'
  <2>1. pc'[h] = "lock_account" /\ JobKnown(h)'
    BY <1>1 DEF Reset, TypeOK, JobKnown
  <2>2. row'[h] = InProgress(Cmd(h), job[h].now)' /\ Overwritable(h)'
    BY <1>1, <1>2 DEF HandlerOK, Reset, TypeOK, InProgress, Overwritable, tables
  <2>3. keyLock'[Key(h)'] = h /\ LoadedOK(h)'
    BY <1>1, <1>2
    DEF HandlerOK, LoadedOK, Reset, HoldingKey, tables, locks
  <2> QED
    BY <1>1, <2>1, <2>2, <2>3
    DEF HandlerOK, Reset, Reserved, HoldingKey, Steps, InProgress
<1> QED
  BY <1>3, <1>5, <1>6 DEF IInv

(***************************************************************************)
(* lock_account_for_client                                                 *)
(***************************************************************************)
LEMMA LockAccountInvariant ==
  ASSUME IInv, NEW h \in Handlers, LockAccount(h)
  PROVE  IInv'
<1> USE DEF Goto
<1>1. TypeOK /\ HandlerOK(h) /\ pc[h] = "lock_account" /\ JobKnown(h)
  BY DEF IInv, LockAccount, HandlerOK
<1>2. /\ Cmd(h)' = Cmd(h) /\ Key(h)' = Key(h) /\ Account(h)' = Account(h)
      /\ Account(h) \in Accounts /\ version[Account(h)] \in Nat
  BY <1>1, JobTypes DEF LockAccount, Key, Cmd, Account, TypeOK
<1>3. PICK v \in {version[Account(h)]} \cup loaded[h] :
        snapshot' = [snapshot EXCEPT ![h] = v]
  BY DEF LockAccount
<1>4. /\ v \in 0 .. version[Account(h)]
      /\ v = version[Account(h)] \/ idem[Key(h)] # NoRow
  BY <1>1, <1>2, <1>3 DEF HandlerOK, LoadedOK
<1>5. TypeOK'
  BY <1>1, <1>2, <1>3, <1>4 DEF TypeOK, LockAccount, tables, Steps
<1>6. \A g \in Handlers \ {h} : Still(g)
  BY <1>1 DEF LockAccount, TypeOK, Still
<1>7. \A a \in Accounts :
        accountLock[a] \in Handlers \ {h} => accountLock'[a] = accountLock[a]
  BY <1>1, HandlersAssumption DEF LockAccount, Grantable, TypeOK
<1>8. TablesOK' /\ \A g \in Handlers \ {h} : HandlerOK(g)'
  BY <1>5, <1>6, <1>7, OthersKept DEF LockAccount
<1>9. HandlerOK(h)'
  <2>1. pc'[h] = "get_balance" /\ JobKnown(h)'
    BY <1>1 DEF LockAccount, TypeOK, JobKnown
  <2>2. row'[h] = InProgress(Cmd(h), job[h].now)' /\ Overwritable(h)'
        /\ keyLock'[Key(h)'] = h
    BY <1>1, <1>2 DEF HandlerOK, LockAccount, InProgress, Overwritable, tables,
                      Reserved, HoldingKey
  <2>3. HoldsAccount(h)' /\ SnapshotOK(h)'
    BY <1>1, <1>2, <1>3, <1>4
    DEF HoldsAccount, SnapshotOK, LockAccount, TypeOK, tables
  <2>4. loaded'[h] = {} /\ posted'[h] = {} /\ raised'[h] = 0
    BY <1>1 DEF HandlerOK, LockAccount, TypeOK, Steps
  <2> QED
    BY <2>1, <2>2, <2>3, <2>4
    DEF HandlerOK, Reserved, HoldingKey, Steps, InProgress
<1> QED
  BY <1>5, <1>8, <1>9 DEF IInv

LEMMA AccountNotFoundInvariant ==
  ASSUME IInv, NEW h \in Handlers, AccountNotFound(h)
  PROVE  IInv'
<1> USE DEF Goto
<1>1. TypeOK /\ HandlerOK(h) /\ pc[h] = "lock_account" /\ JobKnown(h)
  BY DEF IInv, AccountNotFound, HandlerOK
<1>2. /\ Cmd(h)' = Cmd(h) /\ Key(h)' = Key(h) /\ Account(h)' = Account(h)
      /\ Failed(job[h].number, "ACCOUNT_NOT_FOUND") \in Answer
  BY <1>1, JobTypes, CommandTypes
  DEF AccountNotFound, Key, Cmd, Account, ErrorCode
<1>3. TypeOK'
  BY <1>1, <1>2 DEF TypeOK, AccountNotFound, tables, locks, Steps
<1>4. \A g \in Handlers \ {h} : Still(g)
  BY <1>1 DEF AccountNotFound, TypeOK, Still
<1>5. TablesOK' /\ \A g \in Handlers \ {h} : HandlerOK(g)'
  BY <1>3, <1>4, OthersKept DEF AccountNotFound, locks
<1>6. HandlerOK(h)'
  <2>1. pc'[h] = "complete" /\ JobKnown(h)'
    BY <1>1 DEF AccountNotFound, TypeOK, JobKnown
  <2>2. row'[h] = InProgress(Cmd(h), job[h].now)' /\ Overwritable(h)'
        /\ keyLock'[Key(h)'] = h
    BY <1>1, <1>2 DEF HandlerOK, AccountNotFound, InProgress, Overwritable,
                      tables, locks, Reserved, HoldingKey
  <2>3. TurnsDown(h)' /\ loaded'[h] = {}
    BY <1>1, <1>2 DEF TurnsDown, HandlerOK, AccountNotFound, TypeOK, Steps
  <2> QED
    BY <2>1, <2>2, <2>3 DEF HandlerOK, Reserved, HoldingKey, Steps, InProgress
<1> QED
  BY <1>3, <1>5, <1>6 DEF IInv

(***************************************************************************)
(* get_balance with decide_posting, insert_entry, update_account_version   *)
(***************************************************************************)
LEMMA AcceptInvariant ==
  ASSUME IInv, NEW h \in Handlers, Accept(h)
  PROVE  IInv'
<1> USE DEF Goto
<1>1. TypeOK /\ HandlerOK(h) /\ pc[h] = "get_balance" /\ JobKnown(h)
  BY DEF IInv, Accept, HandlerOK
<1>2. /\ Cmd(h)' = Cmd(h) /\ Key(h)' = Key(h) /\ Account(h)' = Account(h)
      /\ Balance(h)' = Balance(h)
  BY DEF Accept, Key, Cmd, Account, Balance, local, tables
<1>3. TypeOK'
  BY <1>1 DEF TypeOK, Accept, tables, locks, local, Steps
<1>4. \A g \in Handlers \ {h} : Still(g)
  BY <1>1 DEF Accept, TypeOK, Still, local
<1>5. TablesOK' /\ \A g \in Handlers \ {h} : HandlerOK(g)'
  BY <1>3, <1>4, OthersKept DEF Accept, locks
<1>6. HandlerOK(h)'
  <2>1. pc'[h] = "insert_entry" /\ JobKnown(h)'
    BY <1>1 DEF Accept, TypeOK, JobKnown, local
  <2>2. row'[h] = InProgress(Cmd(h), job[h].now)' /\ Overwritable(h)'
        /\ keyLock'[Key(h)'] = h
    BY <1>1, <1>2 DEF HandlerOK, Accept, InProgress, Overwritable, tables,
                      locks, local, Reserved, HoldingKey
  <2>3. Approved(h)' /\ SnapshotOK(h)'
    BY <1>1, <1>2
    DEF Approved, HoldsAccount, SnapshotOK, HandlerOK, Accept, tables, locks,
        local
  <2>4. loaded'[h] = {} /\ posted'[h] = {} /\ raised'[h] = 0
    BY <1>1 DEF HandlerOK, Accept, local, Steps
  <2> QED
    BY <2>1, <2>2, <2>3, <2>4
    DEF HandlerOK, Reserved, HoldingKey, Steps, InProgress
<1> QED
  BY <1>3, <1>5, <1>6 DEF IInv

LEMMA RejectInvariant ==
  ASSUME IInv, NEW h \in Handlers, Reject(h)
  PROVE  IInv'
<1> USE DEF Goto
<1>1. TypeOK /\ HandlerOK(h) /\ pc[h] = "get_balance" /\ JobKnown(h)
  BY DEF IInv, Reject, HandlerOK
<1>2. /\ Cmd(h)' = Cmd(h) /\ Key(h)' = Key(h) /\ Account(h)' = Account(h)
      /\ Balance(h)' = Balance(h)
      /\ Failed(job[h].number, RefusalOf(Cmd(h))) \in Answer
  BY <1>1, JobTypes, CommandTypes
  DEF Reject, Key, Cmd, Account, Balance, tables
<1>3. TypeOK'
  BY <1>1, <1>2 DEF TypeOK, Reject, tables, locks, Steps
<1>4. \A g \in Handlers \ {h} : Still(g)
  BY <1>1 DEF Reject, TypeOK, Still
<1>5. TablesOK' /\ \A g \in Handlers \ {h} : HandlerOK(g)'
  BY <1>3, <1>4, OthersKept DEF Reject, locks
<1>6. HandlerOK(h)'
  <2>1. pc'[h] = "complete" /\ JobKnown(h)'
    BY <1>1 DEF Reject, TypeOK, JobKnown
  <2>2. row'[h] = InProgress(Cmd(h), job[h].now)' /\ Overwritable(h)'
        /\ keyLock'[Key(h)'] = h
    BY <1>1, <1>2 DEF HandlerOK, Reject, InProgress, Overwritable, tables,
                      locks, Reserved, HoldingKey
  <2>3. HoldsAccount(h)' /\ ~AcceptsCommand(Cmd(h), Balance(h))'
    BY <1>1, <1>2 DEF HoldsAccount, HandlerOK, Reject, locks
  <2>4. TurnsDown(h)' /\ loaded'[h] = {}
    BY <1>1, <1>2, <2>3 DEF TurnsDown, HandlerOK, Reject, TypeOK, Steps
  <2> QED
    BY <2>1, <2>2, <2>4 DEF HandlerOK, Reserved, HoldingKey, Steps, InProgress
<1> QED
  BY <1>3, <1>5, <1>6 DEF IInv

LEMMA InsertEntryInvariant ==
  ASSUME IInv, NEW h \in Handlers, InsertEntry(h)
  PROVE  IInv'
<1> USE DEF Goto
<1>1. TypeOK /\ HandlerOK(h) /\ pc[h] = "insert_entry" /\ JobKnown(h)
  BY DEF IInv, InsertEntry, HandlerOK
<1>2. /\ Cmd(h)' = Cmd(h) /\ Key(h)' = Key(h) /\ Account(h)' = Account(h)
      /\ Balance(h)' = Balance(h) /\ Decision(h)' = Decision(h)
  BY DEF InsertEntry, Key, Cmd, Account, Balance, Decision, tables
<1>3. /\ Decision(h) \in LedgerEntry
      /\ Account(h) \in Accounts /\ version[Account(h)] \in Nat
      /\ snapshot[h] \in Nat
  BY <1>1, JobTypes, CommandTypes DEF Decision, TypeOK
\* The unique index lets only the version after the current one through.
<1>4. snapshot[h] = version[Account(h)]
  <2>1. {e.ledger_version : e \in {e \in entries : e.account = Account(h)}}
          = 1 .. version[Account(h)]
    BY <1>3 DEF IInv, TablesOK, VersionsDense
  <2>2. Decision(h).account = Account(h)
        /\ Decision(h).ledger_version = snapshot[h] + 1
    BY DEF Decision, Posting, Account
  <2>3. snapshot[h] + 1 \notin 1 .. version[Account(h)]
    BY <2>1, <2>2 DEF InsertEntry, Unique
  <2>4. snapshot[h] <= version[Account(h)]
    BY <1>1 DEF HandlerOK, SnapshotOK
  <2> QED
    BY <1>3, <2>3, <2>4
<1>5. TypeOK'
  BY <1>1, <1>3 DEF TypeOK, InsertEntry, tables, locks, Steps
<1>6. \A g \in Handlers \ {h} : Still(g)
  BY <1>1 DEF InsertEntry, TypeOK, Still
<1>7. TablesOK' /\ \A g \in Handlers \ {h} : HandlerOK(g)'
  BY <1>5, <1>6, OthersKept DEF InsertEntry, locks
<1>8. HandlerOK(h)'
  <2>1. pc'[h] = "update_version" /\ JobKnown(h)'
    BY <1>1 DEF InsertEntry, TypeOK, JobKnown
  <2>2. row'[h] = InProgress(Cmd(h), job[h].now)' /\ Overwritable(h)'
        /\ keyLock'[Key(h)'] = h
    BY <1>1, <1>2 DEF HandlerOK, InsertEntry, InProgress, Overwritable, tables,
                      locks, Reserved, HoldingKey
  <2>3. Approved(h)'
    BY <1>1, <1>2 DEF Approved, HoldsAccount, HandlerOK, InsertEntry, locks
  <2>4. Drafted(h)'
    BY <1>1, <1>2, <1>4, <2>3 DEF Drafted, InsertEntry, TypeOK, tables
  <2>5. loaded'[h] = {} /\ raised'[h] = 0
    BY <1>1 DEF HandlerOK, InsertEntry, Steps
  <2> QED
    BY <2>1, <2>2, <2>4, <2>5
    DEF HandlerOK, Reserved, HoldingKey, Steps, InProgress
<1> QED
  BY <1>5, <1>7, <1>8 DEF IInv

LEMMA UpdateVersionInvariant ==
  ASSUME IInv, NEW h \in Handlers, UpdateVersion(h)
  PROVE  IInv'
<1> USE DEF Goto
<1>1. TypeOK /\ HandlerOK(h) /\ pc[h] = "update_version" /\ JobKnown(h)
      /\ Drafted(h)
  BY DEF IInv, UpdateVersion, HandlerOK
<1>2. /\ Cmd(h)' = Cmd(h) /\ Key(h)' = Key(h) /\ Account(h)' = Account(h)
      /\ Balance(h)' = Balance(h) /\ Decision(h)' = Decision(h)
  BY DEF UpdateVersion, Key, Cmd, Account, Balance, Decision, tables
<1>3. /\ snapshot[h] \in Nat
      /\ Completed(job[h].number) \in Answer
  BY <1>1, JobTypes, CommandTypes DEF TypeOK
\* The guard holds.
<1>4. /\ raised' = [raised EXCEPT ![h] = snapshot[h] + 1]
      /\ answer' = [answer EXCEPT ![h] = Completed(job[h].number)]
  BY <1>1 DEF UpdateVersion, GuardHolds, Drafted
<1>5. TypeOK'
  BY <1>1, <1>3, <1>4 DEF TypeOK, UpdateVersion, tables, locks, Steps
<1>6. \A g \in Handlers \ {h} : Still(g)
  BY <1>1 DEF UpdateVersion, TypeOK, Still
<1>7. TablesOK' /\ \A g \in Handlers \ {h} : HandlerOK(g)'
  BY <1>5, <1>6, OthersKept DEF UpdateVersion, locks
<1>8. HandlerOK(h)'
  <2>1. pc'[h] = "complete" /\ JobKnown(h)'
    BY <1>1 DEF UpdateVersion, TypeOK, JobKnown
  <2>2. row'[h] = InProgress(Cmd(h), job[h].now)' /\ Overwritable(h)'
        /\ keyLock'[Key(h)'] = h
    BY <1>1, <1>2 DEF HandlerOK, UpdateVersion, InProgress, Overwritable,
                      tables, locks, Reserved, HoldingKey
  <2>3. Drafted(h)'
    BY <1>1, <1>2
    DEF Drafted, Approved, HoldsAccount, UpdateVersion, locks, tables
  <2>4. Posts(h)' /\ loaded'[h] = {}
    BY <1>1, <1>4, <2>3 DEF Posts, HandlerOK, UpdateVersion, TypeOK, Steps
  <2> QED
    BY <2>1, <2>2, <2>4 DEF HandlerOK, Reserved, HoldingKey, Steps, InProgress
<1> QED
  BY <1>5, <1>7, <1>8 DEF IInv

(***************************************************************************)
(* complete                                                                *)
(***************************************************************************)
LEMMA CompleteInvariant ==
  ASSUME IInv, NEW h \in Handlers, Complete(h)
  PROVE  IInv'
<1> USE DEF Goto
<1>1. TypeOK /\ HandlerOK(h) /\ pc[h] = "complete" /\ JobKnown(h)
      /\ (Posts(h) \/ TurnsDown(h))
      /\ row[h] = InProgress(Cmd(h), job[h].now)
  BY DEF IInv, Complete, HandlerOK, Reserved
<1>2. /\ Cmd(h)' = Cmd(h) /\ Key(h)' = Key(h) /\ Account(h)' = Account(h)
      /\ Balance(h)' = Balance(h) /\ Decision(h)' = Decision(h)
  BY DEF Complete, Key, Cmd, Account, Balance, Decision, tables
<1>3. /\ answer[h] \in Answer
      /\ Settled(Cmd(h), answer[h], job[h].now) \in IdempotencyKey
  BY <1>1, OutcomeTypes
\* The row is IN_PROGRESS.
<1>4. /\ row' = [row EXCEPT ![h] = Settled(Cmd(h), answer[h], job[h].now)]
      /\ answer' = [answer EXCEPT ![h] = answer[h]]
  <2>1. row[h].status = "IN_PROGRESS"
    BY <1>1 DEF InProgress
  <2>2. WithResponse(row[h], answer[h])
          = Settled(Cmd(h), answer[h], job[h].now)
    BY <1>1 DEF WithResponse, InProgress, Settled
  <2>3. /\ row' = [row EXCEPT ![h] = WithResponse(row[h], answer[h])]
        /\ answer' = [answer EXCEPT ![h] = answer[h]]
    BY <2>1 DEF Complete
  <2> QED
    BY <2>2, <2>3
<1>5. answer' = answer
  BY <1>1, <1>4 DEF TypeOK
<1>6. TypeOK'
  BY <1>1, <1>3, <1>4, <1>5 DEF TypeOK, Complete, tables, locks, Steps
<1>7. \A g \in Handlers \ {h} : Still(g)
  BY <1>1 DEF Complete, TypeOK, Still
<1>8. TablesOK' /\ \A g \in Handlers \ {h} : HandlerOK(g)'
  BY <1>6, <1>7, OthersKept DEF Complete, locks
<1>9. HandlerOK(h)'
  <2>1. pc'[h] = "commit" /\ JobKnown(h)'
    BY <1>1 DEF Complete, TypeOK, JobKnown
  <2>2. Overwritable(h)' /\ keyLock'[Key(h)'] = h
    BY <1>1, <1>2 DEF HandlerOK, Complete, Overwritable, tables, locks,
                      Reserved, HoldingKey
  <2>3. HoldsAccount(h)' <=> HoldsAccount(h)
    BY <1>2 DEF HoldsAccount, Complete, locks
  <2>4. Posts(h)' \/ TurnsDown(h)'
    BY <1>1, <1>2, <1>5, <2>3
    DEF Posts, Drafted, Approved, TurnsDown, Complete, tables
  <2>5. Settles(h)' /\ loaded'[h] = {}
    BY <1>1, <1>2, <1>4, <2>2, <2>4
    DEF Settles, HandlerOK, Complete, TypeOK, Steps
  <2> QED
    BY <2>1, <2>2, <2>5 DEF HandlerOK, Reserved, HoldingKey, Steps
<1> QED
  BY <1>6, <1>8, <1>9 DEF IInv

(***************************************************************************)
(* The end of the unit of work                                             *)
(***************************************************************************)
\* Either way the handler's own variables are as a new session's, and the
\* other handlers keep theirs and their locks.
LEMMA ExitKeeps ==
  ASSUME TypeOK, NEW h \in Handlers, NEW raising \in BOOLEAN, Exit(h, raising)
  PROVE  /\ keyLock' \in [IdemIds -> Handlers \cup {NoHandler}]
         /\ accountLock' \in [Accounts -> Handlers \cup {NoHandler}]
         /\ loaded' \in [Handlers -> SUBSET Nat]
         /\ snapshot' \in [Handlers -> Nat]
         /\ row' \in [Handlers -> IdempotencyKey \cup {NoRow}]
         /\ posted' \in [Handlers -> SUBSET LedgerEntry]
         /\ raised' \in [Handlers -> Nat]
         /\ loaded'[h] = {} /\ row'[h] = NoRow /\ posted'[h] = {}
         /\ raised'[h] = NoVersion
         /\ \A g \in Handlers \ {h} :
              /\ \A k \in IdemIds : keyLock[k] = g => keyLock'[k] = g
              /\ \A a \in Accounts : accountLock[a] = g => accountLock'[a] = g
              /\ loaded'[g] = loaded[g] /\ snapshot'[g] = snapshot[g]
              /\ row'[g] = row[g] /\ posted'[g] = posted[g]
              /\ raised'[g] = raised[g]
  BY DEF TypeOK, Exit, Free

LEMMA RollbackTables ==
  ASSUME TypeOK, NEW h \in Handlers, Exit(h, TRUE)
  PROVE  UNCHANGED tables
<1>1. version' = [version EXCEPT ![Account(h)] = version[Account(h)]]
      /\ entries' = entries
      /\ idem' = [idem EXCEPT ![Key(h)] = idem[Key(h)]]
  BY DEF Exit, RollsBack
<1> QED
  BY <1>1 DEF TypeOK, tables

LEMMA RollbackInvariant ==
  ASSUME IInv, NEW h \in Handlers, pc[h] # "idle",
         Exit(h, TRUE), Abandon(h), UNCHANGED <<clock, received, replies>>
  PROVE  IInv'
<1> USE DEF Goto
<1>1. TypeOK /\ HandlerOK(h) /\ JobKnown(h)
  BY DEF IInv, HandlerOK
<1>2. UNCHANGED tables
  BY <1>1, RollbackTables
<1>3. TypeOK'
  <2>1. /\ job' \in [Handlers -> Job \cup {NoJob}]
        /\ answer' \in [Handlers -> Answer \cup {NoAnswer}]
        /\ pc' \in [Handlers -> Steps]
    BY <1>1 DEF TypeOK, Abandon, Steps
  <2> QED
    BY <1>1, <1>2, <2>1, ExitKeeps DEF TypeOK, tables
<1>4. ASSUME NEW g \in Handlers \ {h} PROVE Still(g)
  <2>1. pc'[g] = pc[g] /\ job'[g] = job[g] /\ answer'[g] = answer[g]
    BY DEF Abandon
  <2>2. /\ loaded'[g] = loaded[g] /\ snapshot'[g] = snapshot[g]
        /\ row'[g] = row[g] /\ posted'[g] = posted[g]
        /\ raised'[g] = raised[g]
    BY <1>1, ExitKeeps
  <2> QED
    BY <2>1, <2>2 DEF Still
<1>5. /\ \A g \in Handlers \ {h} :
           pc[g] \in HoldingKey => keyLock'[Key(g)] = keyLock[Key(g)]
      /\ \A a \in Accounts :
           accountLock[a] \in Handlers \ {h} => accountLock'[a] = accountLock[a]
  <2>1. ASSUME NEW g \in Handlers \ {h}, pc[g] \in HoldingKey
        PROVE  keyLock'[Key(g)] = keyLock[Key(g)]
    <3>1. keyLock[Key(g)] = g /\ Key(g) \in IdemIds
      BY <1>1, <2>1, JobTypes DEF IInv, HandlerOK, HoldingKey
    <3> QED
      BY <1>1, <3>1, ExitKeeps
  <2> QED
    BY <1>1, <2>1, ExitKeeps
<1>6. TablesOK' /\ \A g \in Handlers \ {h} : HandlerOK(g)'
  BY <1>2, <1>3, <1>4, <1>5, OthersKept
<1>7. HandlerOK(h)'
  <2>1. pc'[h] = "idle"
    BY <1>1 DEF Abandon, TypeOK
  <2> QED
    BY <1>1, <2>1, ExitKeeps DEF HandlerOK, Reserved, HoldingKey
<1> QED
  BY <1>3, <1>6, <1>7 DEF IInv

\* The reply, delivered or lost, ends the job.
LEMMA ReplyInvariant ==
  ASSUME IInv, NEW h \in Handlers, pc[h] = "reply", Abandon(h),
         UNCHANGED <<clock, tables, locks, loaded, snapshot, row, posted,
                     raised, received>>,
         \/ replies' = replies
         \/ replies' = replies \cup {[number |-> job[h].number,
                                      answer |-> answer[h]]}
  PROVE  IInv'
<1> USE DEF Goto
<1>1. TypeOK /\ HandlerOK(h) /\ JobKnown(h) /\ answer[h] \in Answer
      /\ job[h].number \in Nat
  BY JobTypes DEF IInv, HandlerOK
<1>2. TypeOK'
  BY <1>1 DEF TypeOK, Abandon, Steps, tables, locks
<1>3. \A g \in Handlers \ {h} : Still(g)
  BY <1>1 DEF Abandon, TypeOK, Still
<1>4. TablesOK' /\ \A g \in Handlers \ {h} : HandlerOK(g)'
  BY <1>2, <1>3, OthersKept DEF locks
<1>5. HandlerOK(h)'
  <2>1. pc'[h] = "idle"
    BY <1>1 DEF Abandon, TypeOK
  <2> QED
    BY <1>1, <2>1 DEF HandlerOK, Reserved, HoldingKey, Steps
<1> QED
  BY <1>2, <1>4, <1>5 DEF IInv

(***************************************************************************)
(* What a commit does to the tables                                        *)
(***************************************************************************)
LEMMA CommitFacts ==
  ASSUME IInv, NEW h \in Handlers, Commit(h)
  PROVE  /\ TypeOK /\ HandlerOK(h) /\ JobKnown(h)
         /\ Replays(h) \/ Settles(h)
         /\ Cmd(h) \in Commands /\ Key(h) \in IdemIds
         /\ Account(h) \in Accounts /\ version[Account(h)] \in Nat
         /\ job[h].number \in Nat /\ job[h].now \in Nat
         /\ keyLock[Key(h)] = h
  BY JobTypes DEF IInv, Commit, HandlerOK, HoldingKey, TypeOK

LEMMA CommitReplays ==
  ASSUME IInv, NEW h \in Handlers, Commit(h), Replays(h)
  PROVE  UNCHANGED tables
<1>1. TypeOK
  BY DEF IInv
<1>2. /\ version' = [version EXCEPT ![Account(h)] = version[Account(h)]]
      /\ entries' = entries
      /\ idem' = [idem EXCEPT ![Key(h)] = idem[Key(h)]]
  BY DEF Commit, Exit, RollsBack, Replays
<1> QED
  BY <1>1, <1>2 DEF TypeOK, tables

LEMMA CommitSettles ==
  ASSUME IInv, NEW h \in Handlers, Commit(h), Settles(h)
  PROVE  /\ Settled(Cmd(h), answer[h], job[h].now) \in IdempotencyKey
         /\ idem' = [idem EXCEPT ![Key(h)] =
                       Settled(Cmd(h), answer[h], job[h].now)]
         /\ TurnsDown(h) => UNCHANGED <<version, entries>>
         /\ Posts(h) =>
              /\ version' = [version EXCEPT ![Account(h)] =
                               version[Account(h)] + 1]
              /\ entries' = entries \cup {Decision(h)}
<1>1. /\ TypeOK
      /\ Settled(Cmd(h), answer[h], job[h].now) \in IdempotencyKey
  BY CommitFacts, OutcomeTypes DEF Settles
<1>2. row[h] = Settled(Cmd(h), answer[h], job[h].now) /\ row[h] # NoRow
  BY <1>1, NullsAssumption DEF Settles
<1>3. idem' = [idem EXCEPT ![Key(h)] = row[h]]
  BY <1>2 DEF Commit, Exit, RollsBack
<1>4. TurnsDown(h) => UNCHANGED <<version, entries>>
  <2> SUFFICES ASSUME TurnsDown(h) PROVE UNCHANGED <<version, entries>>
    OBVIOUS
  <2>1. /\ version' = [version EXCEPT ![Account(h)] = version[Account(h)]]
        /\ entries' = entries
    BY DEF Commit, Exit, RollsBack, TurnsDown
  <2> QED
    BY <1>1, <2>1 DEF TypeOK
<1>5. Posts(h) =>
        /\ version' = [version EXCEPT ![Account(h)] = version[Account(h)] + 1]
        /\ entries' = entries \cup {Decision(h)}
  <2> SUFFICES ASSUME Posts(h)
               PROVE  /\ version' = [version EXCEPT ![Account(h)] =
                                       version[Account(h)] + 1]
                      /\ entries' = entries \cup {Decision(h)}
    OBVIOUS
  <2>1. /\ raised[h] = version[Account(h)] + 1
        /\ posted[h] = {Decision(h)}
        /\ version[Account(h)] \in Nat
    BY CommitFacts DEF Posts, Drafted
  <2>2. raised[h] # NoVersion
    BY <2>1
  <2> QED
    BY <2>1, <2>2 DEF Commit, Exit, RollsBack
<1> QED
  BY <1>1, <1>2, <1>3, <1>4, <1>5

\* A posting keeps the versions of its account dense.
LEMMA PostingKeepsDense ==
  ASSUME IInv, NEW h \in Handlers, Commit(h), Settles(h), Posts(h)
  PROVE  VersionsDense'
<1> DEFINE d == Decision(h)
<1>1. /\ Account(h) \in Accounts /\ version[Account(h)] \in Nat
      /\ version' = [version EXCEPT ![Account(h)] = version[Account(h)] + 1]
      /\ entries' = entries \cup {d}
      /\ TypeOK
  BY CommitFacts, CommitSettles
<1>2. d.account = Account(h) /\ d.ledger_version = version[Account(h)] + 1
  BY DEF Decision, Posting, Account, Posts, Drafted
<1>3. VersionsDense
  BY DEF IInv, TablesOK
<1> SUFFICES ASSUME NEW a \in Accounts
             PROVE  /\ {e.ledger_version : e \in {e \in entries' : e.account = a}}
                         = 1 .. version'[a]
                    /\ \A e, f \in {e \in entries' : e.account = a} :
                         e.ledger_version = f.ledger_version => e = f
  BY DEF VersionsDense
<1>4. /\ {e.ledger_version : e \in {e \in entries : e.account = a}}
           = 1 .. version[a]
      /\ \A e, f \in {e \in entries : e.account = a} :
           e.ledger_version = f.ledger_version => e = f
      /\ version[a] \in Nat
  BY <1>1, <1>3 DEF VersionsDense, TypeOK
<1>5. CASE a # Account(h)
  <2>1. {e \in entries' : e.account = a} = {e \in entries : e.account = a}
    BY <1>1, <1>2, <1>5
  <2>2. version'[a] = version[a]
    BY <1>1, <1>5 DEF TypeOK
  <2> QED
    BY <1>4, <2>1, <2>2
<1>6. CASE a = Account(h)
  <2>1. {e \in entries' : e.account = a}
          = {e \in entries : e.account = a} \cup {d}
    BY <1>1, <1>2, <1>6
  <2>2. version'[a] = version[a] + 1
    BY <1>1, <1>6 DEF TypeOK
  <2>3. 1 .. version'[a] = (1 .. version[a]) \cup {version[a] + 1}
    BY <1>4, <2>2
  <2>4. \A e \in {e \in entries : e.account = a} :
          e.ledger_version \in 1 .. version[a]
    BY <1>4
  <2>5. version[a] + 1 \notin 1 .. version[a]
    BY <1>4
  <2>6. \A e \in {e \in entries : e.account = a} :
          e.ledger_version # d.ledger_version
    BY <1>2, <1>6, <2>4, <2>5
  <2>7. {e.ledger_version : e \in {e \in entries' : e.account = a}}
          = 1 .. version'[a]
    BY <1>2, <1>4, <1>6, <2>1, <2>3
  <2>8. \A e, f \in {e \in entries' : e.account = a} :
          e.ledger_version = f.ledger_version => e = f
    BY <1>4, <2>1, <2>6
  <2> QED
    BY <2>7, <2>8
<1> QED
  BY <1>5, <1>6

\* An id that may be executed has no entry yet.
LEMMA OverwritableHasNoEntry ==
  ASSUME IInv, NEW h \in Handlers, Key(h) \in IdemIds, Overwritable(h)
  PROVE  EntriesOf(Key(h)) = {}
BY DEF IInv, TablesOK, ExactlyOnce, Overwritable

LEMMA SettlingKeepsExactlyOnce ==
  ASSUME IInv, NEW h \in Handlers, Commit(h), Settles(h)
  PROVE  ExactlyOnce'
<1> DEFINE d == Decision(h)
           n == job[h].number
           new == Settled(Cmd(h), answer[h], job[h].now)
<1>1. /\ TypeOK /\ JobKnown(h) /\ Key(h) \in IdemIds
      /\ idem' = [idem EXCEPT ![Key(h)] = new]
      /\ new # NoRow
      /\ received' = received
      /\ EntriesOf(Key(h)) = {}
      /\ answer[h].status = "COMPLETED" => Posts(h)
      /\ answer[h].status = "FAILED" => TurnsDown(h)
      /\ answer[h].status \in {"COMPLETED", "FAILED"}
  <2>1. /\ TypeOK /\ JobKnown(h) /\ Key(h) \in IdemIds
        /\ idem' = [idem EXCEPT ![Key(h)] = new]
        /\ new \in IdempotencyKey
        /\ received' = received
    BY CommitFacts, CommitSettles DEF Commit
  <2>2. Posts(h) \/ TurnsDown(h)
    BY DEF Settles
  <2>3. Posts(h) => answer[h].status = "COMPLETED"
    BY DEF Posts, Completed
  <2>4. TurnsDown(h) => answer[h].status = "FAILED"
    BY DEF TurnsDown, Failed
  <2>5. EntriesOf(Key(h)) = {}
    BY <2>1, OverwritableHasNoEntry DEF Settles
  <2> QED
    BY <2>1, <2>2, <2>3, <2>4, <2>5, NullsAssumption
<1>2. /\ new.status = answer[h].status
      /\ new.response = answer[h]
      /\ new.hash = RequestHash(Cmd(h))
  BY DEF Settled
<1>3. received[n] = Cmd(h) /\ IdemId(received[n]) = Key(h)
  BY <1>1 DEF JobKnown, Cmd, Key
<1> SUFFICES ASSUME NEW k \in IdemIds
             PROVE  IF idem'[k] # NoRow /\ idem'[k].status = "COMPLETED"
                    THEN \E e \in entries' :
                           /\ EntriesOf(k)' = {e}
                           /\ e.request_id = idem'[k].response.attempt
                           /\ idem'[k].hash = RequestHash(
                                received[idem'[k].response.attempt])
                           /\ e = Posting(received[idem'[k].response.attempt],
                                          e.ledger_version - 1,
                                          idem'[k].response.attempt)
                    ELSE EntriesOf(k)' = {}
  BY <1>1 DEF ExactlyOnce
<1>4. IF idem[k] # NoRow /\ idem[k].status = "COMPLETED"
      THEN \E e \in entries :
             /\ EntriesOf(k) = {e}
             /\ e.request_id = idem[k].response.attempt
             /\ idem[k].hash = RequestHash(received[idem[k].response.attempt])
             /\ e = Posting(received[idem[k].response.attempt],
                            e.ledger_version - 1, idem[k].response.attempt)
      ELSE EntriesOf(k) = {}
  BY DEF IInv, TablesOK, ExactlyOnce
<1>5. CASE TurnsDown(h)
  <2>1. entries' = entries /\ EntriesOf(k)' = EntriesOf(k)
    BY <1>1, <1>5, CommitSettles DEF EntriesOf
  <2>2. CASE k = Key(h)
    <3>1. answer[h].status = "FAILED"
      BY <1>5 DEF TurnsDown, Failed
    <3>2. idem'[k] = new /\ new.status # "COMPLETED"
      BY <1>1, <1>2, <2>2, <3>1 DEF TypeOK
    <3> QED
      BY <1>1, <2>1, <2>2, <3>2
  <2>3. CASE k # Key(h)
    <3>1. idem'[k] = idem[k]
      BY <1>1, <2>3 DEF TypeOK
    <3> QED
      BY <1>4, <2>1, <3>1
  <2> QED
    BY <2>2, <2>3
<1>6. CASE Posts(h)
  <2>1. /\ entries' = entries \cup {d}
        /\ d.request_id = n
        /\ d = Posting(Cmd(h), snapshot[h], n)
        /\ d.ledger_version = snapshot[h] + 1 /\ snapshot[h] \in Nat
    BY <1>1, <1>6, CommitSettles DEF Decision, Posting, TypeOK
  <2>2. CASE k = Key(h)
    <3>1. idem'[k] = new /\ new.response.attempt = n
          /\ new.status = "COMPLETED"
      BY <1>1, <1>2, <1>6, <2>2 DEF TypeOK, Posts, Completed
    <3>2. EntriesOf(k)' = {d}
      BY <1>1, <1>3, <2>1, <2>2 DEF EntriesOf
    <3>3. d = Posting(received[n], d.ledger_version - 1, n)
      BY <1>3, <2>1
    <3> QED
      BY <1>1, <1>2, <1>3, <2>1, <3>1, <3>2, <3>3
  <2>3. CASE k # Key(h)
    <3>1. idem'[k] = idem[k]
      BY <1>1, <2>3 DEF TypeOK
    <3>2. EntriesOf(k)' = EntriesOf(k)
      BY <1>1, <1>3, <2>1, <2>3 DEF EntriesOf
    <3> QED
      BY <1>4, <2>1, <3>1, <3>2
  <2> QED
    BY <2>2, <2>3
<1> QED
  BY <1>5, <1>6 DEF Settles

\* A commit changes no row and no account that another handler relies on.
LEMMA CommitProtects ==
  ASSUME IInv, NEW h \in Handlers, Commit(h), NEW g \in Handlers \ {h}
  PROVE  Protected(g)
<1>1. /\ TypeOK /\ HandlerOK(g)
      /\ Key(h) \in IdemIds /\ Account(h) \in Accounts
      /\ keyLock[Key(h)] = h
  BY CommitFacts DEF IInv
<1>2. CASE pc[g] = "idle"
  BY <1>2 DEF Protected, HoldingKey
<1>3. CASE pc[g] # "idle"
  <2>1. Key(g) \in IdemIds /\ Account(g) \in Accounts
    BY <1>1, <1>3, JobTypes DEF HandlerOK
  <2>2. ASSUME pc[g] \in HoldingKey
        PROVE  keyLock'[Key(g)] = g /\ idem'[Key(g)] = idem[Key(g)]
    <3>1. keyLock[Key(g)] = g /\ Key(g) # Key(h)
      BY <1>1, <2>2 DEF HandlerOK
    <3>2. keyLock'[Key(g)] = g
      BY <1>1, <2>1, <3>1, ExitKeeps DEF Commit
    <3>3. idem'[Key(g)] = idem[Key(g)]
      BY <1>1, <2>1, <3>1 DEF Commit, Exit, TypeOK
    <3> QED
      BY <3>2, <3>3
  <2>3. ASSUME accountLock[Account(g)] = g
        PROVE  /\ accountLock'[Account(g)] = g
               /\ version'[Account(g)] = version[Account(g)]
               /\ GetBalance(entries', Account(g), Cmd(g).currency) = Balance(g)
    <3>1. accountLock'[Account(g)] = g
      BY <1>1, <2>1, <2>3, ExitKeeps DEF Commit
    <3>2. CASE UNCHANGED <<version, entries>>
      BY <3>1, <3>2 DEF Balance
    <3>3. CASE Settles(h) /\ Posts(h)
      <4>1. /\ version' = [version EXCEPT ![Account(h)] =
                             version[Account(h)] + 1]
            /\ entries' = entries \cup {Decision(h)}
            /\ Account(g) # Account(h)
        BY <1>1, <2>3, <3>3, CommitSettles
        DEF Posts, Drafted, Approved, HoldsAccount
      <4>2. Decision(h).account = Account(h)
        BY DEF Decision, Posting, Account
      <4>3. {e \in entries' : /\ e.account = Account(g)
                              /\ e.currency = Cmd(g).currency}
              = {e \in entries : /\ e.account = Account(g)
                                 /\ e.currency = Cmd(g).currency}
        BY <4>1, <4>2
      <4>4. GetBalance(entries', Account(g), Cmd(g).currency) = Balance(g)
        BY <4>3 DEF GetBalance, Balance
      <4> QED
        BY <1>1, <2>1, <3>1, <4>1, <4>4 DEF TypeOK
    <3> QED
      BY <3>2, <3>3, CommitFacts, CommitReplays, CommitSettles
      DEF Settles, tables
  <2> QED
    BY <2>2, <2>3 DEF Protected
<1> QED
  BY <1>2, <1>3

LEMMA CommitInvariant ==
  ASSUME IInv, NEW h \in Handlers, Commit(h)
  PROVE  IInv'
<1> USE DEF Goto
<1>1. /\ TypeOK /\ HandlerOK(h) /\ JobKnown(h) /\ pc[h] = "commit"
      /\ Replays(h) \/ Settles(h)
      /\ Cmd(h) \in Commands /\ job[h].number \in Nat
      /\ Key(h) \in IdemIds /\ Account(h) \in Accounts
      /\ version[Account(h)] \in Nat
      /\ UNCHANGED <<clock, job, answer, received, replies>>
  BY CommitFacts DEF Commit
<1>2. /\ version' \in [Accounts -> Nat]
      /\ entries' \in SUBSET LedgerEntry
      /\ idem' \in [IdemIds -> IdempotencyKey \cup {NoRow}]
      /\ \A a \in Accounts : version[a] <= version'[a]
      /\ \A k \in IdemIds : idem[k] # NoRow => idem'[k] # NoRow
  <2>1. /\ idem' \in [IdemIds -> IdempotencyKey \cup {NoRow}]
        /\ \A k \in IdemIds : idem[k] # NoRow => idem'[k] # NoRow
    <3>1. CASE Replays(h)
      BY <1>1, <3>1, CommitReplays DEF TypeOK, tables
    <3>2. CASE Settles(h)
      BY <1>1, <3>2, CommitSettles, NullsAssumption DEF TypeOK
    <3> QED
      BY <1>1, <3>1, <3>2
  <2>2. \/ UNCHANGED <<version, entries>>
        \/ /\ version' = [version EXCEPT ![Account(h)] =
                             version[Account(h)] + 1]
           /\ entries' = entries \cup {Decision(h)}
    BY <1>1, CommitReplays, CommitSettles DEF Settles, tables
  <2>3. Decision(h) \in LedgerEntry
    BY <1>1, CommandTypes DEF Decision, TypeOK
  <2>4. entries' \in SUBSET LedgerEntry
    BY <1>1, <2>2, <2>3 DEF TypeOK
  <2>5. version' \in [Accounts -> Nat] /\ \A a \in Accounts : version[a] <= version'[a]
    <3>1. version \in [Accounts -> Nat]
      BY <1>1 DEF TypeOK
    <3> QED
      BY <1>1, <2>2, <3>1
  <2> QED
    BY <2>1, <2>4, <2>5
<1>3. TypeOK'
  BY <1>1, <1>2, ExitKeeps DEF TypeOK, Commit, Steps
<1>4. answer[h] \in Answer
  <2>1. CASE Replays(h)
    BY <1>1, <2>1
    DEF Replays, IInv, TablesOK, NoOrphanReservation, TypeOK, IdempotencyKey
  <2>2. CASE Settles(h)
    BY <1>1, <2>2, OutcomeTypes DEF Settles
  <2> QED
    BY <1>1, <2>1, <2>2
<1>5. TablesOK'
  <2>1. CASE Replays(h)
    BY <1>1, <2>1, CommitReplays
    DEF IInv, TablesOK, EntriesKnown, NoOrphanReservation, VersionsDense,
        ExactlyOnce, EntriesOf, tables
  <2>2. CASE Settles(h)
    <3>1. NoOrphanReservation'
      <4>1. /\ answer[h] # NoAnswer
            /\ answer[h].status \in {"COMPLETED", "FAILED"}
        BY <1>1, <2>2, OutcomeTypes, NullsAssumption DEF Settles
      <4>2. idem' = [idem EXCEPT ![Key(h)] =
                       Settled(Cmd(h), answer[h], job[h].now)]
        BY <2>2, CommitSettles
      <4>3. NoOrphanReservation
        BY DEF IInv, TablesOK
      <4> QED
        BY <1>1, <4>1, <4>2, <4>3 DEF NoOrphanReservation, Settled, TypeOK
    <3>2. EntriesKnown'
      <4>1. EntriesKnown
        BY DEF IInv, TablesOK
      <4>2. Decision(h).request_id \in 1 .. Len(received)
        BY <1>1 DEF Decision, Posting, JobKnown
      <4>3. entries' = entries \/ entries' = entries \cup {Decision(h)}
        BY <2>2, CommitSettles DEF Settles
      <4> QED
        BY <1>1, <4>1, <4>2, <4>3 DEF EntriesKnown
    <3>3. VersionsDense'
      <4>1. CASE TurnsDown(h)
        BY <2>2, <4>1, CommitSettles DEF IInv, TablesOK, VersionsDense
      <4>2. CASE Posts(h)
        BY <2>2, <4>2, PostingKeepsDense
      <4> QED
        BY <2>2, <4>1, <4>2 DEF Settles
    <3>4. ExactlyOnce'
      BY <2>2, SettlingKeepsExactlyOnce
    <3>5. Len(received') <= MaxRequests
      BY <1>1 DEF IInv, TablesOK
    <3> QED
      BY <3>1, <3>2, <3>3, <3>4, <3>5 DEF TablesOK
  <2> QED
    BY <1>1, <2>1, <2>2
<1>6. ASSUME NEW g \in Handlers \ {h} PROVE HandlerOK(g)'
  <2>1. HandlerOK(g) /\ Protected(g)
    BY CommitProtects DEF IInv
  <2>2. Still(g)
    BY <1>1, ExitKeeps DEF Commit, TypeOK, Still
  <2>3. Forward
    BY <1>1, <1>2 DEF Forward, TypeOK
  <2> QED
    BY <1>1, <1>3, <2>1, <2>2, <2>3, Undisturbed
<1>7. HandlerOK(h)'
  <2>1. pc'[h] = "reply" /\ JobKnown(h)' /\ answer'[h] \in Answer
    BY <1>1, <1>4 DEF Commit, TypeOK, JobKnown
  <2>2. loaded'[h] = {} /\ row'[h] = NoRow /\ posted'[h] = {}
        /\ raised'[h] = NoVersion
    BY <1>1, ExitKeeps DEF Commit
  <2> QED
    BY <2>1, <2>2 DEF HandlerOK, Reserved, HoldingKey
<1> QED
  BY <1>3, <1>5, <1>6, <1>7 DEF IInv

(***************************************************************************)
(* The invariant, and the properties it implies                            *)
(***************************************************************************)
LEMMA NextInvariant == IInv /\ [Next]_vars => IInv'
<1> SUFFICES ASSUME IInv, [Next]_vars PROVE IInv'
  OBVIOUS
<1>1. CASE Tick
  BY <1>1, TickInvariant
<1>2. ASSUME NEW h \in Handlers, NEW c \in Commands, Receive(h, c)
      PROVE  IInv'
  BY <1>2, ReceiveInvariant
<1>3. ASSUME NEW h \in Handlers, Step(h) PROVE IInv'
  <2>1. CASE Reserve(h) \/ ReserveConflicts(h)
    BY <2>1, ReserveInvariant, ReserveConflictsInvariant
  <2>2. CASE Replay(h) \/ Refuse(h) \/ FindExpired(h) \/ Reset(h)
    BY <2>2, ReplayInvariant, RefuseInvariant, FindExpiredInvariant,
       ResetInvariant
  <2>3. CASE LockAccount(h) \/ AccountNotFound(h) \/ Accept(h) \/ Reject(h)
    BY <2>3, LockAccountInvariant, AccountNotFoundInvariant, AcceptInvariant,
       RejectInvariant
  <2>4. CASE InsertEntry(h) \/ UpdateVersion(h) \/ Complete(h) \/ Commit(h)
    BY <2>4, InsertEntryInvariant, UpdateVersionInvariant, CompleteInvariant,
       CommitInvariant
  <2>5. CASE InsertFails(h)
    BY <2>5, RollbackInvariant DEF InsertFails
  <2>6. CASE Deliver(h)
    BY <2>6, ReplyInvariant DEF Deliver
  <2> QED
    BY <1>3, <2>1, <2>2, <2>3, <2>4, <2>5, <2>6 DEF Step
<1>4. ASSUME NEW h \in Handlers, Fail(h) PROVE IInv'
  BY <1>4, RollbackInvariant DEF Fail, InTransaction
<1>5. ASSUME NEW h \in Handlers, LoseReply(h) PROVE IInv'
  BY <1>5, ReplyInvariant DEF LoseReply
<1>6. CASE UNCHANGED vars
  <2>1. TypeOK'
    BY <1>6 DEF IInv, TypeOK, vars, tables, locks, local
  <2>2. TablesOK'
    BY <1>6 DEF IInv, TablesOK, EntriesKnown, NoOrphanReservation,
                VersionsDense, ExactlyOnce, EntriesOf, vars, tables
  <2>3. ASSUME NEW g \in Handlers PROVE HandlerOK(g)'
    <3>1. TypeOK /\ HandlerOK(g) /\ Still(g)
      BY <1>6 DEF IInv, Still, vars, local
    <3>2. Forward
      BY <1>6, <3>1 DEF Forward, vars, tables, TypeOK
    <3>3. Protected(g)
      BY <1>6, <3>1 DEF Protected, HandlerOK, vars, tables, locks, Balance
    <3> QED
      BY <2>1, <3>1, <3>2, <3>3, Undisturbed
  <2> QED
    BY <2>1, <2>2, <2>3 DEF IInv
<1> QED
  BY <1>1, <1>2, <1>3, <1>4, <1>5, <1>6 DEF Next

\* Every reachable state satisfies the inductive invariant.
THEOREM Invariance == Spec => []IInv
<1> QED
  BY InitInvariant, NextInvariant, PTL DEF Spec

\* Rows, locks and local variables of process_payment keep to their types.
THEOREM TypeCorrect == Spec => []TypeOK
<1>1. IInv => TypeOK
  BY DEF IInv
<1> QED
  BY <1>1, Invariance, PTL

\* An idempotency key posts at most once, and its row says whether it did.
THEOREM PostsExactlyOnce == Spec => []ExactlyOnce
<1>1. IInv => ExactlyOnce
  BY DEF IInv, TablesOK
<1> QED
  BY <1>1, Invariance, PTL

\* No reservation survives the request that made it.
THEOREM NoOrphans == Spec => []NoOrphanReservation
<1>1. IInv => NoOrphanReservation
  BY DEF IInv, TablesOK
<1> QED
  BY <1>1, Invariance, PTL

\* An account's entries carry the versions 1 .. ledger_version once each.
THEOREM DenseVersions == Spec => []VersionsDense
<1>1. IInv => VersionsDense
  BY DEF IInv, TablesOK
<1> QED
  BY <1>1, Invariance, PTL

\* ConcurrentLedgerWrite is never raised, stale snapshots or not.
THEOREM GuardIsRedundant == Spec => []GuardNeverFails
<1>1. IInv => GuardNeverFails
  BY DEF IInv, HandlerOK, Drafted, GuardNeverFails
<1> QED
  BY <1>1, Invariance, PTL

\* A handler that holds the account decides on its current version, or on one
\* that the unique constraint then refuses, whatever its session has kept.
THEOREM StaleSnapshotsAreRefused == Spec => []SnapshotIsCurrentOrRefused
<1>1. ASSUME IInv PROVE SnapshotIsCurrentOrRefused
  <2> SUFFICES ASSUME NEW h \in Handlers,
                      pc[h] \in {"get_balance", "insert_entry",
                                 "update_version"},
                      snapshot[h] # version[Account(h)]
               PROVE  /\ pc[h] # "update_version"
                      /\ idem[Key(h)] # NoRow
                      /\ ~Unique(Decision(h), entries)
    BY DEF SnapshotIsCurrentOrRefused
  <2>1. TypeOK /\ HandlerOK(h) /\ VersionsDense
    BY <1>1 DEF IInv, TablesOK
  <2>2. pc[h] \in {"get_balance", "insert_entry"} /\ SnapshotOK(h)
    BY <2>1 DEF HandlerOK, Drafted
  <2>3. /\ Account(h) \in Accounts
        /\ snapshot[h] \in Nat /\ version[Account(h)] \in Nat
    BY <2>1, JobTypes DEF HandlerOK, TypeOK
  <2>4. snapshot[h] + 1 \in 1 .. version[Account(h)]
    BY <2>2, <2>3 DEF SnapshotOK
  <2>5. /\ Decision(h).account = Account(h)
        /\ Decision(h).ledger_version = snapshot[h] + 1
    BY DEF Decision, Posting, Account
  <2>6. ~Unique(Decision(h), entries)
    BY <2>1, <2>3, <2>4, <2>5 DEF VersionsDense, Unique
  <2> QED
    BY <2>2, <2>6 DEF SnapshotOK
<1> QED
  BY <1>1, Invariance, PTL

(***************************************************************************)
(* Only a commit changes the tables                                        *)
(***************************************************************************)
LEMMA OnlyCommitsWrite ==
  ASSUME IInv, [Next]_vars
  PROVE  \/ Tick
         \/ \E h \in Handlers : Commit(h)
         \/ UNCHANGED <<clock, tables>>
<1>1. ASSUME NEW h \in Handlers, Step(h)
      PROVE  Commit(h) \/ UNCHANGED <<clock, tables>>
  <2>1. InsertFails(h) => UNCHANGED <<clock, tables>>
    BY RollbackTables DEF InsertFails, IInv
  <2> QED
    BY <1>1, <2>1
    DEF Step, Reserve, ReserveConflicts, Replay, Refuse, FindExpired, Reset,
        LockAccount, AccountNotFound, Accept, Reject, InsertEntry,
        UpdateVersion, Complete, Deliver
<1>2. ASSUME NEW h \in Handlers, Fail(h) PROVE UNCHANGED <<clock, tables>>
  BY <1>2, RollbackTables DEF Fail, IInv
<1> QED
  BY <1>1, <1>2 DEF Next, Receive, LoseReply, vars

\* A COMPLETED row never changes, a FAILED one not before it has expired.
THEOREM OutcomesStand == Spec => OutcomeStands
<1>1. ASSUME IInv, [Next]_vars, NEW k \in IdemIds,
             idem[k] # NoRow, idem'[k] # idem[k]
      PROVE  idem[k].status = "FAILED" /\ idem[k].expires_at <= clock
  <2>1. PICK h \in Handlers : Commit(h)
    BY <1>1, OnlyCommitsWrite DEF Tick, tables
  <2>2. Settles(h)
    BY <1>1, <2>1, CommitFacts, CommitReplays DEF tables
  <2>3. k = Key(h)
    BY <1>1, <2>1, <2>2, CommitSettles DEF IInv, TypeOK
  <2>4. idem[k].status = "FAILED" /\ idem[k].expires_at <= job[h].now
    BY <1>1, <2>2, <2>3 DEF Settles, Overwritable
  <2>5. job[h].now <= clock /\ job[h].now \in Nat /\ clock \in Nat
    BY <1>1, <2>1, CommitFacts DEF JobKnown, TypeOK
  <2>6. idem[k].expires_at \in Nat
    BY <1>1 DEF IInv, TypeOK, IdempotencyKey
  <2> QED
    BY <2>4, <2>5, <2>6
<1>2. IInv /\ [Next]_vars =>
        [\A k \in IdemIds :
           idem[k] # NoRow /\ idem'[k] # idem[k] =>
             idem[k].status = "FAILED" /\ idem[k].expires_at <= clock]_vars
  BY <1>1
<1> QED
  BY <1>2, Invariance, PTL DEF Spec, OutcomeStands

(***************************************************************************)
(* The refinement                                                          *)
(***************************************************************************)
\* The abstract specification reads the schema as this one does.
LEMMA SameSchema ==
  ASSUME NEW c, NEW b, NEW v, NEW n, NEW t, NEW a, NEW e, NEW code, NEW cur
  PROVE  /\ Atomic!IdemIds = IdemIds
         /\ Atomic!IdemId(c) = IdemId(c)
         /\ Atomic!Attempts = Attempts
         /\ Atomic!NoError = NoError
         /\ Atomic!Settled(c, a, t) = Settled(c, a, t)
         /\ Atomic!Completed(n) = Completed(n)
         /\ Atomic!Failed(n, code) = Failed(n, code)
         /\ Atomic!Posting(c, v, n) = Posting(c, v, n)
         /\ Atomic!Storable(e) = Storable(e)
         /\ Atomic!AcceptsCommand(c, b) = AcceptsCommand(c, b)
         /\ Atomic!RefusalOf(c) = RefusalOf(c)
         /\ Atomic!GetBalance(e, a, cur) = GetBalance(e, a, cur)
<1>1. /\ Atomic!IdemIds = IdemIds
      /\ Atomic!IdemId(c) = IdemId(c)
      /\ Atomic!Attempts = Attempts
      /\ Atomic!NoError = NoError
      /\ Atomic!Settled(c, a, t) = Settled(c, a, t)
      /\ Atomic!Completed(n) = Completed(n)
      /\ Atomic!Failed(n, code) = Failed(n, code)
  BY DEF IdemIds, Atomic!IdemIds, IdemId, Atomic!IdemId, Attempts,
         Atomic!Attempts, Atomic!NoError, Settled, Atomic!Settled, RequestHash,
         Atomic!RequestHash, Completed, Atomic!Completed, Failed, Atomic!Failed
<1>2. /\ Atomic!Posting(c, v, n) = Posting(c, v, n)
      /\ Atomic!Storable(e) = Storable(e)
  BY DEF Posting, Atomic!Posting, Signed, Atomic!Signed, Storable,
         Atomic!Storable
<1>3. /\ Atomic!AcceptsCommand(c, b) = AcceptsCommand(c, b)
      /\ Atomic!RefusalOf(c) = RefusalOf(c)
  BY DEF AcceptsCommand, Atomic!AcceptsCommand, Accepts, Atomic!Accepts,
         Signed, Atomic!Signed, WithinCredit, Atomic!WithinCredit, ValidLimit,
         Atomic!ValidLimit, RefusalOf, Atomic!RefusalOf, RefusalCode,
         Atomic!RefusalCode
<1>4. ASSUME NEW ledger PROVE Atomic!SumAmounts(ledger) = SumAmounts(ledger)
  BY DEF SumAmounts, Atomic!SumAmounts, MapThenSumSet, Atomic!MapThenSumSet,
         MapThenFoldSet, Atomic!MapThenFoldSet
<1>5. Atomic!GetBalance(e, a, cur) = GetBalance(e, a, cur)
  BY <1>4 DEF GetBalance, Atomic!GetBalance
<1> QED
  BY <1>1, <1>2, <1>3, <1>5

\* The steps of the abstract specification in the terms of this one.
LEMMA AtomicMeans ==
  ASSUME NEW c, NEW n, NEW t
  PROVE  /\ Atomic!Executable(c, t) <=>
              \/ idem[IdemId(c)] = NoRow
              \/ /\ idem[IdemId(c)].status = "FAILED"
                 /\ idem[IdemId(c)].expires_at <= t
         /\ Atomic!Outcome(c) =
              IF Owner[c.account] # c.client THEN "ACCOUNT_NOT_FOUND"
              ELSE IF AcceptsCommand(c, GetBalance(entries, c.account,
                                                   c.currency))
              THEN NoError ELSE RefusalOf(c)
<1>1. Atomic!IdemId(c) = IdemId(c)
  BY SameSchema
<1>2. Atomic!GetBalance(entries, c.account, c.currency)
        = GetBalance(entries, c.account, c.currency)
  BY SameSchema
<1>3. \A b : Atomic!AcceptsCommand(c, b) = AcceptsCommand(c, b)
  BY SameSchema
<1>4. Atomic!NoError = NoError /\ Atomic!RefusalOf(c) = RefusalOf(c)
  BY SameSchema
<1>5. Atomic!Executable(c, t) <=>
        \/ idem[IdemId(c)] = NoRow
        \/ /\ idem[IdemId(c)].status = "FAILED"
           /\ idem[IdemId(c)].expires_at <= t
  BY <1>1 DEF Atomic!Executable
<1> QED
  BY <1>2, <1>3, <1>4, <1>5 DEF Atomic!Outcome

\* A commit that records an outcome is one step of the abstract specification.
LEMMA CommitIsAtomic ==
  ASSUME IInv, NEW h \in Handlers, Commit(h)
  PROVE  Atomic!Next \/ UNCHANGED Atomic!atomicVars
<1> DEFINE c == Cmd(h)
           n == job[h].number
           t == job[h].now
<1>1. /\ TypeOK /\ JobKnown(h) /\ c \in Commands
      /\ Key(h) = IdemId(c) /\ Account(h) = c.account
      /\ UNCHANGED clock
  BY CommitFacts DEF Commit, Key, Account
<1>2. n \in Attempts /\ t \in 0 .. clock
  <2>1. /\ n \in Nat /\ t \in Nat /\ clock \in Nat
        /\ n \in 1 .. Len(received) /\ t <= clock
        /\ Len(received) \in Nat /\ Len(received) <= MaxRequests
    BY <1>1, CommitFacts DEF JobKnown, IInv, TablesOK, TypeOK
  <2> QED
    BY <2>1, BoundsAssumption DEF Attempts
<1>3. CASE Replays(h)
  BY <1>1, <1>3, CommitReplays DEF Atomic!atomicVars, tables
<1>4. ASSUME Settles(h) PROVE Atomic!Executable(c, t)
  BY <1>1, <1>4, AtomicMeans DEF Settles, Overwritable
<1>5. CASE Settles(h) /\ Posts(h)
  <2>1. Atomic!Outcome(c) = NoError
    BY <1>1, <1>5, AtomicMeans
    DEF Posts, Drafted, Approved, HoldsAccount, Balance
  <2>2. Decision(h) = Posting(c, version[c.account], n)
    BY <1>1, <1>5 DEF Decision, Posts, Drafted
  <2>3. Storable(Decision(h)) /\ answer[h] = Completed(n)
    BY <1>5 DEF Posts, Drafted
  <2>4. Atomic!Post(c, n, t)
    BY <1>1, <1>4, <1>5, <2>1, <2>2, <2>3, CommitSettles, SameSchema
    DEF Atomic!Post
  <2> QED
    BY <1>1, <1>2, <2>4, SameSchema DEF Atomic!Next
<1>6. CASE Settles(h) /\ TurnsDown(h)
  <2>1. Atomic!Outcome(c) # NoError /\ answer[h] = Failed(n, Atomic!Outcome(c))
    <3>1. CASE Owner[c.account] # c.client
      BY <1>1, <1>6, <3>1, AtomicMeans DEF TurnsDown, HoldsAccount
    <3>2. CASE Owner[c.account] = c.client
      <4>1. Atomic!Outcome(c) = RefusalOf(c)
            /\ answer[h] = Failed(n, RefusalOf(c))
        BY <1>1, <1>6, <3>2, AtomicMeans DEF TurnsDown, Balance
      <4>2. RefusalOf(c) # NoError
        BY DEF RefusalOf, RefusalCode
      <4> QED
        BY <4>1, <4>2
    <3> QED
      BY <3>1, <3>2
  <2>2. Atomic!TurnDown(c, n, t)
    BY <1>1, <1>4, <1>6, <2>1, CommitSettles, SameSchema DEF Atomic!TurnDown
  <2> QED
    BY <1>1, <1>2, <2>2, SameSchema DEF Atomic!Next
<1> QED
  BY <1>3, <1>5, <1>6, CommitFacts DEF Settles

\* The committed tables change as if every payment were decided and recorded
\* in one step.
THEOREM PaymentsSerialize == Spec => Serializable
<1>1. Init => Atomic!Init
  BY SameSchema DEF Init, Atomic!Init
<1>2. IInv /\ [Next]_vars => [Atomic!Next]_(Atomic!atomicVars)
  <2> SUFFICES ASSUME IInv, [Next]_vars
               PROVE  Atomic!Next \/ UNCHANGED Atomic!atomicVars
    OBVIOUS
  <2>1. CASE Tick
    BY <2>1 DEF Tick, tables, Atomic!Next, Atomic!Tick
  <2>2. ASSUME NEW h \in Handlers, Commit(h)
        PROVE  Atomic!Next \/ UNCHANGED Atomic!atomicVars
    BY <2>2, CommitIsAtomic
  <2>3. CASE UNCHANGED <<clock, tables>>
    BY <2>3 DEF tables, Atomic!atomicVars
  <2> QED
    BY <2>1, <2>2, <2>3, OnlyCommitsWrite
<1> QED
  BY <1>1, <1>2, Invariance, PTL DEF Spec, Serializable, Atomic!Spec

(***************************************************************************)
(* Balances                                                                *)
(***************************************************************************)
LEMMA SumsAreTotals ==
  ASSUME NEW S
  PROVE  SumAmounts(S) = TotalAmount(S)
BY DEF SumAmounts, TotalAmount

\* A new entry moves the balance of its account in its currency, and no other.
LEMMA BalanceAfterEntry ==
  ASSUME NEW S \in SUBSET LedgerEntry, IsFiniteSet(S),
         NEW e \in LedgerEntry \ S, NEW a, NEW cur
  PROVE  /\ GetBalance(S, a, cur) \in Int
         /\ GetBalance(S \cup {e}, a, cur) =
              IF e.account = a /\ e.currency = cur
              THEN GetBalance(S, a, cur) + e.amount ELSE GetBalance(S, a, cur)
<1> DEFINE old == {f \in S : f.account = a /\ f.currency = cur}
           new == {f \in S \cup {e} : f.account = a /\ f.currency = cur}
<1>1. /\ GetBalance(S, a, cur) = TotalAmount(old)
      /\ GetBalance(S \cup {e}, a, cur) = TotalAmount(new)
  BY SumsAreTotals DEF GetBalance
<1>2. IsFiniteSet(old) /\ IsFiniteSet(new)
  <2>1. IsFiniteSet(S \cup {e})
    BY FS_AddElement
  <2> QED
    BY <2>1, FS_Subset
<1>3. \A f \in new : f.amount \in Int
  BY DEF LedgerEntry
<1>4. TotalAmount(old) \in Int
  BY <1>2, <1>3, SumRemoves
<1>5. CASE e.account = a /\ e.currency = cur
  <2>1. e \in new /\ old = new \ {e} /\ e.amount \in Int
    BY <1>3, <1>5
  <2>2. TotalAmount(new) = e.amount + TotalAmount(new \ {e})
    <3> HIDE DEF new
    <3> QED
      BY <1>2, <1>3, <2>1, SumRemoves
  <2> HIDE DEF new, old
  <2> QED
    BY <1>1, <1>4, <1>5, <2>1, <2>2
<1>6. CASE ~(e.account = a /\ e.currency = cur)
  <2>1. old = new
    BY <1>6
  <2> QED
    BY <1>1, <1>4, <1>6, <2>1
<1> QED
  BY <1>5, <1>6

\* What decide_posting accepts leaves the balance at or above the floor of
\* the account, if it was so before.
LEMMA AcceptedKeepsFloor ==
  ASSUME NEW c \in Commands, NEW b \in Int, AcceptsCommand(c, b),
         b >= Floor(BalanceTypeOf[c.account], CreditLimitOf[c.account])
  PROVE  b + Signed(c.amount, c.direction)
           >= Floor(BalanceTypeOf[c.account], CreditLimitOf[c.account])
<1>1. /\ c.amount \in Int /\ c.direction \in EntryType
      /\ c.account \in Accounts
  BY CommandsAssumption DEF Command
<1>2. \/ BalanceTypeOf[c.account] = "DEBIT_ONLY"
      \/ /\ BalanceTypeOf[c.account] = "CREDIT_ALLOWED"
         /\ CreditLimitOf[c.account] \in Nat
         /\ CreditLimitOf[c.account] # NoLimit
  BY <1>1, AccountsAssumption, NoLimitAssumption
<1> QED
  BY <1>1, <1>2
  DEF AcceptsCommand, Accepts, Signed, WithinCredit, ValidLimit, Floor,
      EntryType

\* The balances are within their limits, and sums of finitely many entries.
BalancesOK == IsFiniteSet(entries) /\ BalanceWithinLimit

\* A new account's balance, 0, is within its limit.
LEMMA BalancesStart == Init => BalancesOK
<1> SUFFICES ASSUME Init, NEW a \in Accounts, NEW cur \in Currencies
             PROVE  /\ IsFiniteSet(entries)
                    /\ SumAmounts({e \in entries :
                                     e.account = a /\ e.currency = cur})
                         >= Floor(BalanceTypeOf[a], CreditLimitOf[a])
  BY FS_EmptySet DEF BalancesOK, BalanceWithinLimit, Init
<1>1. entries = {} /\ IsFiniteSet({})
  BY FS_EmptySet DEF Init
<1>2. SumAmounts({}) = 0
  BY <1>1, SumRecursion, SumsAreTotals
<1>3. 0 >= Floor(BalanceTypeOf[a], CreditLimitOf[a])
  BY AccountsAssumption, NoLimitAssumption DEF Floor, ValidLimit
<1>4. {e \in entries : e.account = a /\ e.currency = cur} = {}
  BY <1>1
<1> QED
  BY <1>1, <1>2, <1>3, <1>4

\* Only a commit of an accepted posting changes a balance, and it is decided on
\* the balance under the account's lock.
LEMMA BalancesStep ==
  ASSUME IInv, BalancesOK, [Next]_vars
  PROVE  BalancesOK'
<1>1. CASE UNCHANGED entries
  BY <1>1 DEF BalancesOK, BalanceWithinLimit
<1>2. ASSUME NEW h \in Handlers, Commit(h) PROVE BalancesOK'
  <2>1. CASE Replays(h) \/ TurnsDown(h)
    <3>1. UNCHANGED entries
      BY <1>2, <2>1, CommitFacts, CommitReplays, CommitSettles DEF tables
    <3> QED
      BY <1>1, <3>1
  <2>2. CASE Settles(h) /\ Posts(h)
    <3> DEFINE c == Cmd(h)
               d == Decision(h)
    <3>1. /\ TypeOK /\ c \in Commands /\ Account(h) = c.account
          /\ job[h].number \in Nat /\ version[Account(h)] \in Nat
          /\ Account(h) \in Accounts
      BY <1>2, CommitFacts DEF Account
    <3>2. /\ AcceptsCommand(c, GetBalance(entries, c.account, c.currency))
          /\ d = Posting(c, version[c.account], job[h].number)
          /\ entries' = entries \cup {d}
      BY <1>2, <2>2, <3>1, CommitSettles
      DEF Posts, Drafted, Approved, Balance, Decision
    <3>3. /\ d.account = c.account /\ d.currency = c.currency
          /\ d.amount = Signed(c.amount, c.direction)
          /\ d.ledger_version = version[c.account] + 1
      BY <3>2 DEF Posting
    <3>4. d \in LedgerEntry /\ entries \in SUBSET LedgerEntry
      BY <3>1, <3>2, CommandTypes DEF TypeOK
    <3>5. d \notin entries
      <4>1. \A e \in entries : e.account = c.account =>
              e.ledger_version \in 1 .. version[c.account]
        BY <3>1 DEF IInv, TablesOK, VersionsDense
      <4> HIDE DEF d, c
      <4> QED
        BY <3>1, <3>3, <4>1
    <3>6. IsFiniteSet(entries) /\ IsFiniteSet(entries')
      BY <3>2, FS_AddElement DEF BalancesOK
    <3>7. ASSUME NEW a \in Accounts, NEW cur \in Currencies
          PROVE  GetBalance(entries', a, cur)
                   >= Floor(BalanceTypeOf[a], CreditLimitOf[a])
      <4> HIDE DEF d, c
      <4>1. GetBalance(entries, a, cur)
              >= Floor(BalanceTypeOf[a], CreditLimitOf[a])
        BY DEF BalancesOK, BalanceWithinLimit, GetBalance
      <4>2. /\ GetBalance(entries, a, cur) \in Int
            /\ GetBalance(entries', a, cur) =
                 IF d.account = a /\ d.currency = cur
                 THEN GetBalance(entries, a, cur) + d.amount
                 ELSE GetBalance(entries, a, cur)
        <5>1. d \in LedgerEntry \ entries
          BY <3>4, <3>5
        <5>2. /\ GetBalance(entries, a, cur) \in Int
              /\ GetBalance(entries \cup {d}, a, cur) =
                   IF d.account = a /\ d.currency = cur
                   THEN GetBalance(entries, a, cur) + d.amount
                   ELSE GetBalance(entries, a, cur)
          BY <3>4, <3>6, <5>1, BalanceAfterEntry
        <5> QED
          BY <3>2, <5>2
      <4>3. CASE d.account = a /\ d.currency = cur
        BY <3>1, <3>2, <3>3, <4>1, <4>2, <4>3, AcceptedKeepsFloor
      <4> QED
        BY <4>1, <4>2, <4>3
    <3> QED
      BY <3>6, <3>7 DEF BalancesOK, BalanceWithinLimit, GetBalance
  <2> QED
    BY <1>2, <2>1, <2>2, CommitFacts DEF Settles
<1> QED
  BY <1>1, <1>2, OnlyCommitsWrite DEF Tick, tables

\* However payments overlap, are retried or fail, no account's balance in any
\* currency falls below what decide_posting allows.
THEOREM NoOverdraft == Spec => []BalanceWithinLimit
<1>1. BalancesOK => BalanceWithinLimit
  BY DEF BalancesOK
<1>2. IInv /\ BalancesOK /\ [Next]_vars => BalancesOK'
  BY BalancesStep
<1> QED
  BY <1>1, <1>2, BalancesStart, Invariance, PTL DEF Spec

(***************************************************************************)
(* What clients are told                                                   *)
(***************************************************************************)
\* The requests received stay as they are; attempts end and do not resume; only
\* an attempt under way, or a new one, posts.
History ==
  /\ Len(received) <= Len(received')
  /\ \A n \in 1 .. Len(received) : received'[n] = received[n]
  /\ \A h \in Handlers : pc'[h] \in InTransaction =>
       \/ pc[h] \in InTransaction /\ job'[h].number = job[h].number
       \/ job'[h].number \notin 1 .. Len(received)
  /\ entries \subseteq entries'
  /\ \A e \in entries' \ entries :
       \E h \in Handlers :
         pc[h] \in InTransaction /\ e.request_id = job[h].number

\* So what is true of an ended attempt stays true.
LEMMA TruthStays ==
  ASSUME History, Len(received) \in Nat, Len(received') \in Nat
  PROVE  /\ \A a, k, hash :
              Truthful(a, k, hash) => Truthful(a, k, hash)'
         /\ \A a, m : Answers(a, m) => Answers(a, m)'
<1>1. ASSUME NEW a, NEW k, NEW hash, Truthful(a, k, hash)
      PROVE  Truthful(a, k, hash)'
  <2> DEFINE n == a.attempt
  <2>1. /\ n \in 1 .. Len(received)
        /\ \A h \in Handlers : pc[h] \in InTransaction => job[h].number # n
    BY <1>1 DEF Truthful, Ended
  <2>2. n \in 1 .. Len(received') /\ received'[n] = received[n]
    BY <2>1 DEF History
  <2>3. Ended(n)'
    BY <2>1 DEF History, Ended
  <2>4. PostingOf(n)' = PostingOf(n)
    BY <2>1 DEF History, PostingOf
  <2> QED
    BY <1>1, <2>2, <2>3, <2>4 DEF Truthful
<1>2. ASSUME NEW a, NEW m, Answers(a, m) PROVE Answers(a, m)'
  <2>1. /\ m \in 1 .. Len(received)
        /\ Truthful(a, IdemId(received[m]), RequestHash(received[m]))
        /\ a.status = "REFUSED" => a.attempt = m
    BY <1>2 DEF Answers
  <2>2. m \in 1 .. Len(received') /\ received'[m] = received[m]
    BY <2>1 DEF History
  <2>3. PICK k, hash :
          k = IdemId(received[m]) /\ hash = RequestHash(received[m])
    OBVIOUS
  <2>4. Truthful(a, k, hash)'
    BY <1>1, <2>1, <2>3
  <2> QED
    BY <2>1, <2>2, <2>3, <2>4 DEF Answers, Truthful
<1> QED
  BY <1>1, <1>2

\* How a handler may move while no table changes: it ends, or goes on with its
\* request, and comes to a commit or a reply only in these ways.
Moves(h) ==
  \/ pc'[h] = "idle"
  \/ /\ job'[h] = job[h] /\ pc[h] # "idle"
     /\ pc'[h] \in InTransaction => pc[h] \in InTransaction
     /\ pc'[h] = "commit" /\ row'[h] = NoRow =>
          idem[Key(h)].hash = RequestHash(Cmd(h))
     /\ pc'[h] = "reply" =>
          \/ pc[h] = "reply" /\ answer'[h] = answer[h]
          \/ /\ pc[h] \in InTransaction
             /\ answer'[h].status = "REFUSED"
             /\ answer'[h].attempt = job[h].number

\* The reply of h is delivered.
Replied(h) == pc[h] = "reply"
  /\ replies' = replies \cup {[number |-> job[h].number, answer |-> answer[h]]}

\* Steps that move handlers so, and change no table, keep what clients are told.
LEMMA MovesKeep ==
  ASSUME IInv, TypeOK', RepliesInv, UNCHANGED <<entries, idem, received>>,
         \A h \in Handlers : Moves(h),
         UNCHANGED replies \/ \E h \in Handlers : Replied(h)
  PROVE  RepliesInv'
<1>1. /\ TypeOK /\ Len(received) \in Nat
      /\ \A h \in Handlers : pc[h] # "idle" => JobKnown(h)
  BY DEF IInv, TypeOK, HandlerOK
<1>2. History
  BY <1>1 DEF History, Moves, InTransaction
<1>3. /\ \A a, k, hash : Truthful(a, k, hash) => Truthful(a, k, hash)'
      /\ \A a, m : Answers(a, m) => Answers(a, m)'
  BY <1>1, <1>2, TruthStays
<1>4. AttemptsDiffer'
  BY DEF RepliesInv, AttemptsDiffer, Moves
<1>5. NothingPostedYet'
  BY DEF RepliesInv, NothingPostedYet, Moves, PostingOf, InTransaction
<1>6. RowsTruthful'
  <2> SUFFICES ASSUME NEW k \in IdemIds, idem[k] # NoRow
               PROVE  Truthful(idem[k].response, k, idem[k].hash)'
    BY DEF RowsTruthful
  <2>1. PICK a, hash : a = idem[k].response /\ hash = idem[k].hash
    OBVIOUS
  <2>2. Truthful(a, k, hash)'
    BY <1>3, <2>1 DEF RepliesInv, RowsTruthful
  <2> QED
    BY <2>1, <2>2 DEF Truthful
<1>7. ReplaysMatch'
  BY DEF RepliesInv, ReplaysMatch, Moves, Key, Cmd
<1>8. ASSUME NEW h \in Handlers, pc'[h] = "reply"
      PROVE  Answers(answer[h], job[h].number)'
  <2>1. PICK a, m : a = answer'[h] /\ m = job[h].number
    OBVIOUS
  <2>2. job'[h] = job[h] /\ pc[h] # "idle"
    BY <1>8 DEF Moves
  <2>3. CASE pc[h] = "reply" /\ answer'[h] = answer[h]
    <3>1. Answers(a, m)'
      BY <1>3, <2>1, <2>3 DEF RepliesInv
    <3> QED
      BY <2>1, <2>2, <3>1
  <2>4. CASE /\ pc[h] \in InTransaction
             /\ answer'[h].status = "REFUSED"
             /\ answer'[h].attempt = job[h].number
    <3>1. m \in 1 .. Len(received)
      BY <1>1, <2>1, <2>2 DEF JobKnown
    <3>2. Ended(m)'
      <4> SUFFICES ASSUME NEW g \in Handlers, pc'[g] \in InTransaction,
                          job'[g].number = m
                   PROVE  FALSE
        BY DEF Ended
      <4>1. g = h
        BY <1>4, <1>8, <2>1, <2>2 DEF AttemptsDiffer, InTransaction
      <4> QED
        BY <1>8, <4>1 DEF InTransaction
    <3>3. PostingOf(m)' = {}
      BY <2>1, <2>4 DEF RepliesInv, NothingPostedYet, PostingOf
    <3>4. Answers(a, m)'
      BY <2>1, <2>4, <3>1, <3>2, <3>3 DEF Answers, Truthful
    <3> QED
      BY <2>1, <2>2, <3>4
  <2> QED
    BY <1>8, <2>3, <2>4 DEF Moves
<1>9. ASSUME NEW r \in replies' PROVE Answers(r.answer, r.number)'
  <2>1. PICK a, m : a = r.answer /\ m = r.number
    OBVIOUS
  <2>2. Answers(a, m)
    BY <2>1 DEF RepliesInv, Replied
  <2>3. Answers(a, m)'
    BY <1>3, <2>2
  <2> QED
    BY <2>1, <2>3
<1> QED
  BY <1>4, <1>5, <1>6, <1>7, <1>8, <1>9 DEF RepliesInv

\* Whatever a handler does but take a request and commit leaves it so.
LEMMA OtherStepsKeepReplies ==
  ASSUME IInv, IInv', RepliesInv, NEW h \in Handlers,
         (Step(h) /\ ~Commit(h)) \/ Fail(h) \/ LoseReply(h)
  PROVE  RepliesInv'
<1> USE DEF Goto
<1>1. /\ TypeOK /\ TypeOK' /\ HandlerOK(h)
      /\ pc[h] # "idle" => JobKnown(h)
  BY DEF IInv, HandlerOK
<1>2. ASSUME Exit(h, TRUE), Abandon(h), UNCHANGED <<clock, received, replies>>
      PROVE  RepliesInv'
  <2>1. UNCHANGED <<entries, idem, received>>
    BY <1>1, <1>2, RollbackTables DEF tables
  <2>2. pc'[h] = "idle"
        /\ \A g \in Handlers \ {h} : pc'[g] = pc[g] /\ job'[g] = job[g]
             /\ answer'[g] = answer[g] /\ row'[g] = row[g]
    <3>1. \A g \in Handlers \ {h} : row'[g] = row[g]
      BY <1>1, <1>2, ExitKeeps
    <3> QED
      BY <1>1, <1>2, <3>1 DEF Abandon, TypeOK
  <2>3. \A g \in Handlers : Moves(g)
    BY <2>2 DEF Moves, RepliesInv, ReplaysMatch
  <2> QED
    BY <1>1, <1>2, <2>1, <2>3, MovesKeep
<1>3. CASE Fail(h) \/ InsertFails(h)
  BY <1>2, <1>3 DEF Fail, InsertFails
<1>4. CASE Deliver(h) \/ LoseReply(h)
  <2>1. /\ UNCHANGED <<entries, idem, received>>
        /\ UNCHANGED replies \/ Replied(h)
    BY <1>4 DEF Deliver, LoseReply, tables, Replied
  <2>2. pc'[h] = "idle"
        /\ \A g \in Handlers \ {h} : pc'[g] = pc[g] /\ job'[g] = job[g]
             /\ answer'[g] = answer[g] /\ row'[g] = row[g]
    BY <1>1, <1>4 DEF Deliver, LoseReply, Abandon, TypeOK
  <2>3. \A g \in Handlers : Moves(g)
    BY <2>2 DEF Moves, RepliesInv, ReplaysMatch
  <2> QED
    BY <1>1, <2>1, <2>3, MovesKeep
<1>5. ASSUME UNCHANGED <<tables, received, replies, job>>,
             pc[h] \in InTransaction, pc'[h] \in InTransaction,
             pc'[h] = "commit" /\ row'[h] = NoRow =>
               idem[Key(h)].hash = RequestHash(Cmd(h)),
             \A g \in Handlers \ {h} : pc'[g] = pc[g]
               /\ answer'[g] = answer[g] /\ row'[g] = row[g]
      PROVE  RepliesInv'
  <2>1. \A g \in Handlers : Moves(g)
    BY <1>5 DEF Moves, RepliesInv, ReplaysMatch, InTransaction
  <2> QED
    BY <1>1, <1>5, <2>1, MovesKeep DEF tables
<1>6. CASE Replay(h)
  <2>1. idem[Key(h)].hash = RequestHash(Cmd(h))
    BY <1>6 DEF Replay, VerdictOn, Verdict
  <2> QED
    BY <1>1, <1>5, <1>6, <2>1
    DEF Replay, LockRow, TypeOK, InTransaction, Steps
<1>7. CASE Complete(h)
  <2>1. /\ pc[h] = "complete" /\ JobKnown(h)
        /\ Posts(h) \/ TurnsDown(h)
        /\ row[h] = InProgress(Cmd(h), job[h].now)
    BY <1>1, <1>7 DEF Complete, HandlerOK, Reserved
  <2>2. row'[h] = Settled(Cmd(h), answer[h], job[h].now)
    BY <1>1, <1>7, <2>1 DEF Complete, InProgress, WithResponse, Settled, TypeOK
  <2>3. row'[h] # NoRow
    <3>1. Settled(Cmd(h), answer[h], job[h].now) \in IdempotencyKey
      BY <1>1, <2>1, OutcomeTypes
    <3> QED
      BY <2>2, <3>1, NullsAssumption
  <2> QED
    BY <1>1, <1>5, <1>7, <2>3 DEF Complete, TypeOK, InTransaction, Steps
<1>8. CASE Refuse(h)
  <2>1. /\ answer'[h].status = "REFUSED" /\ answer'[h].attempt = job[h].number
        /\ pc[h] = "read_reservation" /\ pc'[h] = "reply"
    BY <1>1, <1>8 DEF Refuse, Refused, TypeOK
  <2>2. \A g \in Handlers \ {h} : pc'[g] = pc[g] /\ answer'[g] = answer[g]
    BY <1>1, <1>8 DEF Refuse, TypeOK
  <2>3. UNCHANGED <<entries, idem, received, replies, job, row>>
    BY <1>8 DEF Refuse, tables
  <2>4. \A g \in Handlers : Moves(g)
    BY <2>1, <2>2, <2>3
    DEF Moves, RepliesInv, ReplaysMatch, InTransaction, Steps
  <2> QED
    BY <1>1, <2>3, <2>4, MovesKeep
<1>9. CASE \/ Reserve(h) \/ ReserveConflicts(h) \/ FindExpired(h) \/ Reset(h)
          \/ LockAccount(h) \/ AccountNotFound(h) \/ Accept(h) \/ Reject(h)
          \/ InsertEntry(h) \/ UpdateVersion(h)
  BY <1>1, <1>5, <1>9
  DEF Reserve, ReserveConflicts, FindExpired, Reset, LockRow, LockAccount,
      AccountNotFound, Accept, Reject, InsertEntry, UpdateVersion, TypeOK,
      InTransaction, Steps, tables, locks, local
<1> QED
  BY <1>3, <1>4, <1>6, <1>7, <1>8, <1>9 DEF Step

\* A new request is an attempt of its own, that has posted nothing.
LEMMA ReceiveKeepsReplies ==
  ASSUME IInv, TypeOK', RepliesInv,
         NEW h \in Handlers, NEW c \in Commands, Receive(h, c)
  PROVE  RepliesInv'
<1> USE DEF Goto
<1>1. /\ TypeOK /\ Len(received) \in Nat /\ Len(received') = Len(received) + 1
      /\ \A n \in 1 .. Len(received) : received'[n] = received[n]
      /\ \A g \in Handlers : pc[g] # "idle" => JobKnown(g)
  BY DEF IInv, TypeOK, HandlerOK, Receive
<1>2. /\ UNCHANGED <<entries, idem, row, answer, replies>>
      /\ pc[h] = "idle" /\ pc'[h] = "reserve"
      /\ job'[h].number = Len(received) + 1
      /\ \A g \in Handlers \ {h} : pc'[g] = pc[g] /\ job'[g] = job[g]
  BY <1>1 DEF Receive, TypeOK, tables
<1>3. History
  BY <1>1, <1>2 DEF History
<1>4. /\ \A a, k, hash : Truthful(a, k, hash) => Truthful(a, k, hash)'
      /\ \A a, m : Answers(a, m) => Answers(a, m)'
  BY <1>1, <1>3, TruthStays
<1>5. \A g \in Handlers \ {h} :
        pc[g] # "idle" => job[g].number \in 1 .. Len(received)
  BY <1>1 DEF JobKnown
<1>6. AttemptsDiffer'
  BY <1>1, <1>2, <1>5 DEF RepliesInv, AttemptsDiffer
<1>7. NothingPostedYet'
  <2>1. \A e \in entries : e.request_id \in 1 .. Len(received)
    BY DEF IInv, TablesOK, EntriesKnown
  <2>2. PostingOf(Len(received) + 1) = {}
    BY <1>1, <2>1 DEF PostingOf
  <2> QED
    BY <1>2, <2>2 DEF RepliesInv, NothingPostedYet, PostingOf, InTransaction
<1>8. RowsTruthful'
  <2> SUFFICES ASSUME NEW k \in IdemIds, idem[k] # NoRow
               PROVE  Truthful(idem[k].response, k, idem[k].hash)'
    BY <1>2 DEF RowsTruthful
  <2>1. PICK a, hash : a = idem[k].response /\ hash = idem[k].hash
    OBVIOUS
  <2>2. Truthful(a, k, hash)'
    BY <1>4, <2>1 DEF RepliesInv, RowsTruthful
  <2> QED
    BY <1>2, <2>1, <2>2 DEF Truthful
<1>9. ReplaysMatch'
  BY <1>2 DEF RepliesInv, ReplaysMatch, Key, Cmd
<1>10. ASSUME NEW g \in Handlers, pc'[g] = "reply"
       PROVE  Answers(answer[g], job[g].number)'
  <2>1. PICK a, m : a = answer[g] /\ m = job[g].number
    OBVIOUS
  <2>2. Answers(a, m)'
    BY <1>2, <1>4, <1>10, <2>1 DEF RepliesInv
  <2> QED
    BY <1>2, <1>10, <2>1, <2>2
<1>11. ASSUME NEW r \in replies PROVE Answers(r.answer, r.number)'
  BY <1>4 DEF RepliesInv
<1> QED
  BY <1>2, <1>6, <1>7, <1>8, <1>9, <1>10, <1>11 DEF RepliesInv

\* A commit makes the answer it stores true, or the one it replays is so.
LEMMA CommitKeepsReplies ==
  ASSUME IInv, IInv', RepliesInv, NEW h \in Handlers, Commit(h)
  PROVE  RepliesInv'
<1> USE DEF Goto
<1>1. /\ TypeOK /\ Len(received) \in Nat
      /\ UNCHANGED <<received, job, replies, answer>>
      /\ JobKnown(h) /\ Key(h) \in IdemIds
      /\ Replays(h) \/ Settles(h)
  <2>1. /\ TypeOK /\ JobKnown(h) /\ Key(h) \in IdemIds
        /\ Replays(h) \/ Settles(h)
    BY CommitFacts
  <2>2. Len(received) \in Nat
    BY <2>1 DEF TypeOK
  <2>3. UNCHANGED <<received, job, replies, answer>>
    BY DEF Commit
  <2> QED
    BY <2>1, <2>2, <2>3
<1>2. /\ pc[h] = "commit" /\ pc'[h] = "reply"
      /\ \A g \in Handlers \ {h} : pc'[g] = pc[g] /\ row'[g] = row[g]
  BY <1>1, ExitKeeps DEF Commit, TypeOK
<1>3. PICK a, k, hash, n :
        /\ a = answer[h] /\ k = Key(h) /\ hash = RequestHash(Cmd(h))
        /\ n = job[h].number
  OBVIOUS
<1>4. /\ n \in 1 .. Len(received)
      /\ IdemId(received[n]) = k /\ RequestHash(received[n]) = hash
  BY <1>1, <1>3 DEF JobKnown, Cmd, Key
<1>5. /\ entries \subseteq entries'
      /\ \A e \in entries' \ entries : e.request_id = n
      /\ \A j \in IdemIds \ {k} : idem'[j] = idem[j]
  BY <1>1, <1>3, CommitReplays, CommitSettles
  DEF Settles, tables, TypeOK, Decision, Posting
<1>6. History
  BY <1>1, <1>2, <1>3, <1>5 DEF History, InTransaction, Steps
<1>7. /\ \A b, j, x : Truthful(b, j, x) => Truthful(b, j, x)'
      /\ \A b, m : Answers(b, m) => Answers(b, m)'
  BY <1>1, <1>6, TruthStays
<1>8. AttemptsDiffer'
  BY <1>1, <1>2 DEF RepliesInv, AttemptsDiffer
<1>9. Ended(n)'
  BY <1>1, <1>2, <1>3 DEF RepliesInv, AttemptsDiffer, Ended, InTransaction
<1>10. NothingPostedYet'
  BY <1>1, <1>2, <1>3, <1>5
  DEF RepliesInv, NothingPostedYet, AttemptsDiffer, PostingOf, InTransaction
<1>11. Truthful(a, k, hash)'
  <2>1. CASE Replays(h)
    <3>1. /\ idem[k].hash = hash /\ a = idem[k].response
          /\ idem[k] # NoRow /\ k \in IdemIds
      BY <1>1, <1>2, <1>3, <2>1 DEF Replays, RepliesInv, ReplaysMatch
    <3>2. Truthful(a, k, hash)
      BY <3>1 DEF RepliesInv, RowsTruthful
    <3> QED
      BY <1>7, <3>2
  <2>2. CASE Settles(h) /\ Posts(h)
    <3>1. a.attempt = n /\ a.status = "COMPLETED"
      BY <1>3, <2>2 DEF Posts, Completed
    <3>2. Decision(h) \in entries' /\ Decision(h).request_id = n
      BY <1>3, <2>2, CommitSettles DEF Decision, Posting
    <3>3. PostingOf(n)' # {}
      BY <3>2 DEF PostingOf
    <3> QED
      BY <1>1, <1>4, <1>9, <3>1, <3>3 DEF Truthful
  <2>3. CASE Settles(h) /\ TurnsDown(h)
    <3>1. a.attempt = n /\ a.status = "FAILED"
      BY <1>3, <2>3 DEF TurnsDown, Failed
    <3>2. entries' = entries
      BY <2>3, CommitSettles
    <3>3. PostingOf(n)' = {}
      BY <1>2, <1>3, <3>2
      DEF PostingOf, RepliesInv, NothingPostedYet, InTransaction, Steps
    <3> QED
      BY <1>1, <1>4, <1>9, <3>1, <3>3 DEF Truthful
  <2> QED
    BY <1>1, <2>1, <2>2, <2>3 DEF Settles
<1>12. RowsTruthful'
  <2> SUFFICES ASSUME NEW j \in IdemIds, idem'[j] # NoRow
               PROVE  Truthful(idem[j].response, j, idem[j].hash)'
    BY DEF RowsTruthful
  <2>1. PICK b, x : b = idem'[j].response /\ x = idem'[j].hash
    OBVIOUS
  <2>2. Truthful(b, j, x)'
    <3>1. CASE idem'[j] = idem[j]
      BY <1>7, <2>1, <3>1 DEF RepliesInv, RowsTruthful
    <3>2. CASE idem'[j] # idem[j]
      <4>1. j = k
        BY <1>5, <3>2
      <4>2. Settles(h)
        BY <1>1, <3>2, CommitReplays DEF tables
      <4>3. idem'[j] = Settled(Cmd(h), answer[h], job[h].now)
        BY <1>1, <1>3, <4>1, <4>2, CommitSettles DEF TypeOK
      <4>4. b = a /\ x = hash
        BY <1>3, <2>1, <4>3 DEF Settled
      <4> QED
        BY <1>11, <4>1, <4>4
    <3> QED
      BY <3>1, <3>2
  <2> QED
    BY <2>1, <2>2
<1>13. ReplaysMatch'
  <2> SUFFICES ASSUME NEW g \in Handlers, pc'[g] = "commit", row'[g] = NoRow
               PROVE  idem'[Key(g)].hash = RequestHash(Cmd(g))
    BY <1>1 DEF ReplaysMatch, Key, Cmd
  <2>1. g # h /\ pc[g] = "commit" /\ row[g] = NoRow
    BY <1>2
  <2>2. keyLock[Key(g)] = g /\ keyLock[Key(h)] = h /\ JobKnown(g)
    BY <1>2, <2>1 DEF IInv, HandlerOK, HoldingKey
  <2>3. Key(g) \in IdemIds /\ Key(g) # k
    BY <1>1, <1>3, <2>1, <2>2, JobTypes
  <2> QED
    BY <1>5, <2>1, <2>3 DEF RepliesInv, ReplaysMatch
<1>14. ASSUME NEW g \in Handlers, pc'[g] = "reply"
       PROVE  Answers(answer[g], job[g].number)'
  <2>1. PICK b, m : b = answer[g] /\ m = job[g].number
    OBVIOUS
  <2>2. Answers(b, m)'
    <3>1. CASE g = h
      <4>1. a.status # "REFUSED"
        <5>1. CASE Replays(h)
          BY <1>1, <1>3, <5>1
          DEF Replays, IInv, TablesOK, NoOrphanReservation
        <5>2. CASE Settles(h)
          BY <1>1, <1>3, <5>2, OutcomeTypes DEF Settles
        <5> QED
          BY <1>1, <5>1, <5>2
      <4>2. b = a /\ m = n
        BY <1>3, <2>1, <3>1
      <4> QED
        BY <1>1, <1>4, <1>11, <4>1, <4>2 DEF Answers, Truthful
    <3>2. CASE g # h
      BY <1>2, <1>7, <1>14, <2>1, <3>2 DEF RepliesInv
    <3> QED
      BY <3>1, <3>2
  <2> QED
    BY <1>1, <2>1, <2>2
<1>15. ASSUME NEW r \in replies PROVE Answers(r.answer, r.number)'
  BY <1>7 DEF RepliesInv
<1> QED
  BY <1>1, <1>8, <1>10, <1>12, <1>13, <1>14, <1>15 DEF RepliesInv

\* Nobody has been told anything yet.
LEMMA RepliesStart == Init => RepliesInv
BY DEF Init, RepliesInv, AttemptsDiffer, NothingPostedYet, RowsTruthful,
       ReplaysMatch, InTransaction

\* Every step keeps what is stored and told true.
LEMMA RepliesStep ==
  ASSUME IInv, IInv', RepliesInv, [Next]_vars
  PROVE  RepliesInv'
<1>1. CASE Tick \/ UNCHANGED vars
  BY <1>1
  DEF Tick, vars, tables, locks, local, RepliesInv, AttemptsDiffer,
      NothingPostedYet, PostingOf, RowsTruthful, Truthful, Ended, ReplaysMatch,
      Key, Cmd, Answers
<1>2. ASSUME NEW h \in Handlers, NEW c \in Commands, Receive(h, c)
      PROVE  RepliesInv'
  BY <1>2, ReceiveKeepsReplies DEF IInv
<1>3. ASSUME NEW h \in Handlers, Step(h) \/ Fail(h) \/ LoseReply(h)
      PROVE  RepliesInv'
  BY <1>3, CommitKeepsReplies, OtherStepsKeepReplies
<1> QED
  BY <1>1, <1>2, <1>3 DEF Next

\* What is stored as a response, and what a client is told, is so, and no
\* execution under way will make it otherwise.
THEOREM RepliesInvariant == Spec => []RepliesInv
<1>1. IInv /\ IInv' /\ RepliesInv /\ [Next]_vars => RepliesInv'
  BY RepliesStep
<1> QED
  BY <1>1, RepliesStart, Invariance, PTL DEF Spec

\* What a client was told stays true, of first replies and of replays.
THEOREM RepliesStayTrue == Spec => []RepliesHold
<1>1. ASSUME RepliesInv, TypeOK PROVE RepliesHold
  <2> SUFFICES ASSUME NEW r \in replies
      PROVE  LET c == received[r.number]
                 n == r.answer.attempt
                 posting == {e \in entries : e.request_id = n}
             IN
             CASE r.answer.status = "COMPLETED" ->
                    /\ posting # {}
                    /\ IdemId(received[n]) = IdemId(c)
                    /\ RequestHash(received[n]) = RequestHash(c)
               [] r.answer.status = "FAILED" ->
                    /\ posting = {}
                    /\ IdemId(received[n]) = IdemId(c)
                    /\ RequestHash(received[n]) = RequestHash(c)
               [] r.answer.status = "REFUSED" ->
                    /\ n = r.number
                    /\ posting = {}
    BY DEF RepliesHold
  <2>1. Answers(r.answer, r.number)
    BY <1>1 DEF RepliesInv
  <2>2. r.answer.status \in {"COMPLETED", "FAILED", "REFUSED"}
    BY <1>1 DEF TypeOK, Answer
  <2> QED
    BY <2>1, <2>2 DEF Answers, Truthful, PostingOf
<1> QED
  BY <1>1, RepliesInvariant, TypeCorrect, PTL
-----------------------------------------------------------------------------
(***************************************************************************)
(* No deadlock.                                                            *)
(***************************************************************************)
\* Nobody holds a lock before the first request.
LEMMA LocksStart == Init => LocksHeld
BY HandlersAssumption DEF Init, LocksHeld

\* What handler h holds, it holds for the step it is at.
OwnLocks(h) ==
  /\ \A k \in IdemIds : keyLock[k] = h => pc[h] \in HoldingKey /\ Key(h) = k
  /\ \A a \in Accounts :
       accountLock[a] = h => pc[h] \in HoldingAccount /\ Account(h) = a

LEMMA LocksAreOwn == LocksHeld <=> \A h \in Handlers : OwnLocks(h)
BY DEF LocksHeld, OwnLocks

\* A step of h takes no lock for another handler, and leaves it where it is.
LEMMA OthersKeepLocks ==
  ASSUME LocksHeld, NEW h \in Handlers,
         \A g \in Handlers \ {h} : pc'[g] = pc[g] /\ job'[g] = job[g],
         \A k \in IdemIds, g \in Handlers \ {h} :
           keyLock'[k] = g => keyLock[k] = g,
         \A a \in Accounts, g \in Handlers \ {h} :
           accountLock'[a] = g => accountLock[a] = g,
         OwnLocks(h)'
  PROVE  LocksHeld'
BY DEF LocksHeld, OwnLocks, Key, Account, Cmd

\* A statement that takes and releases no lock keeps what was taken before.
LEMMA LocksUntouched ==
  ASSUME TypeOK, LocksHeld, NEW h \in Handlers, UNCHANGED locks,
         \A g \in Handlers \ {h} : pc'[g] = pc[g] /\ job'[g] = job[g],
         \/ pc[h] \notin HoldingKey \cup HoldingAccount
         \/ /\ job'[h] = job[h]
            /\ pc[h] \in HoldingKey => pc'[h] \in HoldingKey
            /\ pc[h] \in HoldingAccount => pc'[h] \in HoldingAccount
  PROVE  LocksHeld'
<1>1. OwnLocks(h)
  BY LocksAreOwn
<1>2. OwnLocks(h)'
  BY <1>1 DEF OwnLocks, locks, Key, Account, Cmd
<1> QED
  BY <1>2, OthersKeepLocks DEF locks

\* The end of a transaction releases what it holds.
LEMMA ExitReleases ==
  ASSUME TypeOK, LocksHeld, NEW h \in Handlers, NEW raising,
         Exit(h, raising),
         \A g \in Handlers \ {h} : pc'[g] = pc[g] /\ job'[g] = job[g]
  PROVE  LocksHeld'
<1>1. /\ \A k \in IdemIds : keyLock'[k] = Free(h, keyLock[k])
      /\ \A a \in Accounts : accountLock'[a] = Free(h, accountLock[a])
  BY DEF Exit
<1>2. /\ \A k \in IdemIds : keyLock'[k] # h
      /\ \A a \in Accounts : accountLock'[a] # h
  BY <1>1, HandlersAssumption DEF Free
<1>3. /\ \A k \in IdemIds, g \in Handlers \ {h} :
           keyLock'[k] = g => keyLock[k] = g
      /\ \A a \in Accounts, g \in Handlers \ {h} :
           accountLock'[a] = g => accountLock[a] = g
  BY <1>1, HandlersAssumption DEF Free
<1>4. OwnLocks(h)'
  BY <1>2 DEF OwnLocks
<1> QED
  BY <1>3, <1>4, OthersKeepLocks

\* Every step of a handler keeps locks in the hands of those at work under
\* them.
LEMMA StepKeepsLocks ==
  ASSUME IInv, LocksHeld, NEW h \in Handlers,
         \/ \E c \in Commands : Receive(h, c)
         \/ Step(h) \/ Fail(h) \/ LoseReply(h)
  PROVE  LocksHeld'
<1> USE DEF Goto
<1>1. TypeOK /\ HandlerOK(h) /\ OwnLocks(h)
  BY LocksAreOwn DEF IInv
<1>2. CASE \/ ReserveConflicts(h) \/ Refuse(h) \/ Reset(h)
           \/ AccountNotFound(h) \/ Accept(h) \/ Reject(h)
           \/ InsertEntry(h) \/ UpdateVersion(h) \/ Complete(h)
  <2>1. /\ UNCHANGED <<locks, job>>
        /\ \A g \in Handlers \ {h} : pc'[g] = pc[g]
    BY <1>1, <1>2
    DEF ReserveConflicts, Refuse, Reset, AccountNotFound, Accept, Reject,
        InsertEntry, UpdateVersion, Complete, TypeOK, local, locks
  <2>2. \/ pc[h] \notin HoldingKey \cup HoldingAccount
        \/ /\ pc[h] \in HoldingKey => pc'[h] \in HoldingKey
           /\ pc[h] \in HoldingAccount => pc'[h] \in HoldingAccount
    BY <1>1, <1>2
    DEF ReserveConflicts, Refuse, Reset, AccountNotFound, Accept, Reject,
        InsertEntry, UpdateVersion, Complete, TypeOK, HoldingKey,
        HoldingAccount
  <2> QED
    BY <1>1, <2>1, <2>2, LocksUntouched
<1>3. CASE \/ \E c \in Commands : Receive(h, c)
           \/ Deliver(h) \/ LoseReply(h)
  <2>1. /\ UNCHANGED locks
        /\ pc[h] \in {"idle", "reply"}
        /\ \A g \in Handlers \ {h} : pc'[g] = pc[g] /\ job'[g] = job[g]
    BY <1>1, <1>3 DEF Receive, Deliver, LoseReply, Abandon, TypeOK
  <2> QED
    BY <1>1, <2>1, LocksUntouched DEF HoldingKey, HoldingAccount
<1>4. CASE Reserve(h) \/ Replay(h) \/ FindExpired(h)
  <2>1. /\ keyLock' = [keyLock EXCEPT ![Key(h)] = h]
        /\ pc[h] \in {"reserve", "read_reservation"}
        /\ pc'[h] \in HoldingKey
        /\ UNCHANGED <<accountLock, job>>
        /\ \A g \in Handlers \ {h} : pc'[g] = pc[g]
    BY <1>1, <1>4
    DEF Reserve, Replay, FindExpired, LockRow, TypeOK, HoldingKey
  <2>2. /\ \A k \in IdemIds : keyLock[k] # h
        /\ \A a \in Accounts : accountLock[a] # h
    BY <1>1, <2>1 DEF OwnLocks, HoldingKey, HoldingAccount
  <2>3. \A k \in IdemIds : keyLock'[k] = h => k = Key(h)
    BY <1>1, <2>1, <2>2 DEF TypeOK
  <2>4. OwnLocks(h)'
    BY <2>1, <2>2, <2>3 DEF OwnLocks, Key, Cmd
  <2>5. \A k \in IdemIds, g \in Handlers \ {h} :
          keyLock'[k] = g => keyLock[k] = g
    BY <1>1, <2>1 DEF TypeOK
  <2> QED
    BY <2>1, <2>4, <2>5, OthersKeepLocks
<1>5. CASE LockAccount(h)
  <2>1. /\ accountLock' = [accountLock EXCEPT ![Account(h)] = h]
        /\ pc[h] = "lock_account" /\ pc'[h] = "get_balance"
        /\ UNCHANGED <<keyLock, job>>
        /\ \A g \in Handlers \ {h} : pc'[g] = pc[g]
    BY <1>1, <1>5 DEF LockAccount, TypeOK
  <2>2. \A a \in Accounts : accountLock[a] # h
    BY <1>1, <2>1 DEF OwnLocks, HoldingAccount
  <2>3. \A a \in Accounts : accountLock'[a] = h => a = Account(h)
    BY <1>1, <2>1, <2>2 DEF TypeOK
  <2>4. OwnLocks(h)'
    BY <1>1, <2>1, <2>3
    DEF OwnLocks, HoldingKey, HoldingAccount, Key, Account, Cmd
  <2>5. \A a \in Accounts, g \in Handlers \ {h} :
          accountLock'[a] = g => accountLock[a] = g
    BY <1>1, <2>1 DEF TypeOK
  <2> QED
    BY <2>1, <2>4, <2>5, OthersKeepLocks
<1>6. CASE Commit(h)
  BY <1>1, <1>6, ExitReleases DEF Commit, TypeOK
<1>7. CASE Fail(h) \/ InsertFails(h)
  BY <1>1, <1>7, ExitReleases DEF Fail, InsertFails, Abandon, TypeOK
<1> QED
  BY <1>2, <1>3, <1>4, <1>5, <1>6, <1>7 DEF Step

\* A lock is always held by a transaction that is past the statement that
\* takes it, on the row of its own request: none is left behind.
THEOREM LocksBelong == Spec => []LocksHeld
<1>1. ASSUME IInv, LocksHeld, [Next]_vars PROVE LocksHeld'
  <2>1. CASE Tick \/ UNCHANGED vars
    BY <1>1, <2>1
    DEF Tick, vars, locks, local, LocksHeld, Key, Account, Cmd
  <2>2. CASE \E h \in Handlers :
               \/ \E c \in Commands : Receive(h, c)
               \/ Step(h) \/ Fail(h) \/ LoseReply(h)
    BY <1>1, <2>2, StepKeepsLocks
  <2> QED
    BY <1>1, <2>1, <2>2 DEF Next
<1> QED
  BY <1>1, LocksStart, Invariance, PTL DEF Spec

\* Who has posted an entry holds the account it is on.
LEMMA PostersHoldAccount ==
  ASSUME TypeOK, NEW g \in Handlers, HandlerOK(g), posted[g] # {}
  PROVE  /\ posted[g] = {Decision(g)}
         /\ accountLock[Account(g)] = g
         /\ Decision(g).account = Account(g)
<1>1. pc[g] \in {"update_version", "complete", "commit"}
  BY DEF HandlerOK, TypeOK
<1>2. Drafted(g)
  BY <1>1 DEF HandlerOK, Posts, TurnsDown, Replays, Settles
<1> QED
  BY <1>2 DEF Drafted, Approved, HoldsAccount, Decision, Posting, Account

\* Who holds an account waits for nothing any more.
LEMMA AccountHoldersGo ==
  ASSUME IInv, LocksHeld, NEW f \in Handlers, NEW a \in Accounts,
         accountLock[a] = f
  PROVE  CanGo(f)
<1>1. TypeOK /\ HandlerOK(f) /\ pc[f] \in HoldingAccount /\ Account(f) = a
  BY DEF IInv, LocksHeld
<1>2. pc[f] \in InTransaction
  BY <1>1 DEF HoldingAccount, InTransaction, Steps
<1>3. ASSUME NEW g \in Handlers, WaitsFor(f, g) PROVE FALSE
  <2>1. /\ pc[f] = "insert_entry" /\ g # f
        /\ ~Unique(Decision(f), posted[g])
    BY <1>1, <1>3 DEF WaitsFor, HoldingAccount
  <2>2. PICK e \in posted[g] : e.account = Decision(f).account
    BY <2>1 DEF Unique
  <2>3. HandlerOK(g)
    BY DEF IInv
  <2>4. e.account = Account(g) /\ accountLock[Account(g)] = g
    BY <1>1, <2>2, <2>3, PostersHoldAccount
  <2>5. Decision(f).account = Account(f)
    BY DEF Decision, Posting, Account
  <2> QED
    BY <1>1, <2>1, <2>2, <2>4, <2>5
<1> QED
  BY <1>2, <1>3 DEF CanGo

\* Payments cannot deadlock, however many there are: whoever one of them waits
\* for can go on at once, or after one other that can.
THEOREM PaymentsNeverDeadlock == Spec => []NoDeadlock
<1>1. ASSUME IInv, LocksHeld PROVE NoDeadlock
  <2> SUFFICES ASSUME NEW h \in Handlers, NEW g \in Handlers, WaitsFor(h, g),
                      ~CanGo(g)
               PROVE  \E f \in Handlers : WaitsFor(g, f) /\ CanGo(f)
    BY DEF NoDeadlock
  <2>1. /\ TypeOK /\ HandlerOK(h) /\ HandlerOK(g)
        /\ pc[h] # "idle"
    BY <1>1 DEF IInv, WaitsFor
  <2>2. /\ Key(h) \in IdemIds /\ Account(h) \in Accounts
    BY <2>1, JobTypes DEF HandlerOK
  <2>3. pc[h] # "lock_account"
    BY <1>1, <2>2, AccountHoldersGo DEF WaitsFor
  <2>4. pc[h] # "insert_entry"
    <3>1. SUFFICES ASSUME pc[h] = "insert_entry" PROVE FALSE
      OBVIOUS
    <3>2. accountLock[Account(h)] = h
      BY <2>1, <3>1 DEF HandlerOK, Approved, HoldsAccount
    <3> QED
      BY <1>1, <2>2, <3>2, AccountHoldersGo DEF CanGo
  <2>5. pc[g] \in HoldingKey
    BY <1>1, <2>2, <2>3, <2>4 DEF WaitsFor, LocksHeld
  <2>6. pc[g] \in InTransaction
    BY <2>5 DEF HoldingKey, InTransaction, Steps
  <2>7. PICK f \in Handlers : WaitsFor(g, f)
    BY <2>6 DEF CanGo
  <2>8. pc[g] # "insert_entry"
    <3>1. SUFFICES ASSUME pc[g] = "insert_entry" PROVE FALSE
      OBVIOUS
    <3>2. accountLock[Account(g)] = g /\ JobKnown(g)
      BY <2>1, <3>1 DEF HandlerOK, Approved, HoldsAccount
    <3>3. Account(g) \in Accounts
      BY <2>1, <3>2, JobTypes
    <3> QED
      BY <1>1, <3>2, <3>3, AccountHoldersGo
  <2>9. pc[g] = "lock_account" /\ accountLock[Account(g)] = f
    BY <2>5, <2>7, <2>8 DEF WaitsFor, HoldingKey
  <2>10. Account(g) \in Accounts
    BY <2>1, <2>9, JobTypes DEF HandlerOK
  <2>11. CanGo(f)
    BY <1>1, <2>9, <2>10, AccountHoldersGo
  <2> QED
    BY <2>7, <2>11
<1> QED
  BY <1>1, LocksBelong, Invariance, PTL

-----------------------------------------------------------------------------
(***************************************************************************)
(* The service: statements of payments and of reads in any order.          *)
(***************************************************************************)
\* The readers' ledger reads the schema as that of Serializable does.
LEMMA SameLedgerSchema ==
  ASSUME NEW c, NEW b, NEW v, NEW n, NEW t, NEW a, NEW e, NEW code, NEW cur
  PROVE  /\ Reads!Ledger!IdemIds = Atomic!IdemIds
         /\ Reads!Ledger!IdemId(c) = Atomic!IdemId(c)
         /\ Reads!Ledger!Attempts = Atomic!Attempts
         /\ Reads!Ledger!NoError = Atomic!NoError
         /\ Reads!Ledger!Settled(c, a, t) = Atomic!Settled(c, a, t)
         /\ Reads!Ledger!Completed(n) = Atomic!Completed(n)
         /\ Reads!Ledger!Failed(n, code) = Atomic!Failed(n, code)
         /\ Reads!Ledger!Posting(c, v, n) = Atomic!Posting(c, v, n)
         /\ Reads!Ledger!Storable(e) <=> Atomic!Storable(e)
         /\ Reads!Ledger!AcceptsCommand(c, b) <=> Atomic!AcceptsCommand(c, b)
         /\ Reads!Ledger!RefusalOf(c) = Atomic!RefusalOf(c)
         /\ Reads!Ledger!GetBalance(e, a, cur) = Atomic!GetBalance(e, a, cur)
<1>1. /\ Reads!Ledger!IdemIds = Atomic!IdemIds
      /\ Reads!Ledger!IdemId(c) = Atomic!IdemId(c)
      /\ Reads!Ledger!Attempts = Atomic!Attempts
      /\ Reads!Ledger!NoError = Atomic!NoError
      /\ Reads!Ledger!Settled(c, a, t) = Atomic!Settled(c, a, t)
      /\ Reads!Ledger!Completed(n) = Atomic!Completed(n)
      /\ Reads!Ledger!Failed(n, code) = Atomic!Failed(n, code)
  BY DEF Reads!Ledger!IdemIds, Atomic!IdemIds, Reads!Ledger!IdemId,
         Atomic!IdemId, Reads!Ledger!Attempts, Atomic!Attempts,
         Reads!Ledger!NoError, Atomic!NoError, Reads!Ledger!Settled,
         Atomic!Settled, Reads!Ledger!RequestHash, Atomic!RequestHash,
         Reads!Ledger!Completed, Atomic!Completed, Reads!Ledger!Failed,
         Atomic!Failed
<1>2. /\ Reads!Ledger!Posting(c, v, n) = Atomic!Posting(c, v, n)
      /\ Reads!Ledger!Storable(e) <=> Atomic!Storable(e)
  BY DEF Reads!Ledger!Posting, Atomic!Posting, Reads!Ledger!Signed,
         Atomic!Signed, Reads!Ledger!Storable, Atomic!Storable
<1>3. /\ Reads!Ledger!AcceptsCommand(c, b) <=> Atomic!AcceptsCommand(c, b)
      /\ Reads!Ledger!RefusalOf(c) = Atomic!RefusalOf(c)
  BY DEF Reads!Ledger!AcceptsCommand, Atomic!AcceptsCommand,
         Reads!Ledger!Accepts, Atomic!Accepts, Reads!Ledger!Signed,
         Atomic!Signed, Reads!Ledger!WithinCredit, Atomic!WithinCredit,
         Reads!Ledger!ValidLimit, Atomic!ValidLimit, Reads!Ledger!RefusalOf,
         Atomic!RefusalOf, Reads!Ledger!RefusalCode, Atomic!RefusalCode
<1>4. ASSUME NEW ledger
      PROVE  Reads!Ledger!SumAmounts(ledger) = Atomic!SumAmounts(ledger)
  BY DEF Reads!Ledger!SumAmounts, Atomic!SumAmounts,
         Reads!Ledger!MapThenSumSet, Atomic!MapThenSumSet,
         Reads!Ledger!MapThenFoldSet, Atomic!MapThenFoldSet
<1>5. Reads!Ledger!GetBalance(e, a, cur) = Atomic!GetBalance(e, a, cur)
  BY <1>4 DEF Reads!Ledger!GetBalance, Atomic!GetBalance
<1> QED
  BY <1>1, <1>2, <1>3, <1>5

\* What the readers take for a payment is a step of the ledger that payments
\* implement.
LEMMA SameLedger == Atomic!Next => Reads!Ledger!Next
<1>1. ASSUME NEW c, NEW t
      PROVE  /\ Atomic!Executable(c, t) => Reads!Ledger!Executable(c, t)
             /\ Reads!Ledger!Outcome(c) = Atomic!Outcome(c)
  <2>1. Reads!Ledger!GetBalance(entries, c.account, c.currency)
          = Atomic!GetBalance(entries, c.account, c.currency)
    BY SameLedgerSchema
  <2>2. \A b : Reads!Ledger!AcceptsCommand(c, b)
                 <=> Atomic!AcceptsCommand(c, b)
    BY SameLedgerSchema
  <2>3. /\ Reads!Ledger!IdemId(c) = Atomic!IdemId(c)
        /\ Reads!Ledger!NoError = Atomic!NoError
        /\ Reads!Ledger!RefusalOf(c) = Atomic!RefusalOf(c)
    BY SameLedgerSchema
  <2> QED
    BY <2>1, <2>2, <2>3 DEF Atomic!Executable, Reads!Ledger!Executable,
       Atomic!Outcome, Reads!Ledger!Outcome
<1>2. ASSUME NEW c, NEW n, NEW t, Atomic!Post(c, n, t)
      PROVE  Reads!Ledger!Post(c, n, t)
  BY <1>1, <1>2, SameLedgerSchema DEF Atomic!Post, Reads!Ledger!Post
<1>3. ASSUME NEW c, NEW n, NEW t, Atomic!TurnDown(c, n, t)
      PROVE  Reads!Ledger!TurnDown(c, n, t)
  BY <1>1, <1>3, SameLedgerSchema DEF Atomic!TurnDown, Reads!Ledger!TurnDown
<1>4. Atomic!Tick => Reads!Ledger!Tick
  BY DEF Atomic!Tick, Reads!Ledger!Tick
<1>5. Reads!Ledger!Attempts = Atomic!Attempts
  BY SameLedgerSchema
<1> QED
  BY <1>2, <1>3, <1>4, <1>5 DEF Atomic!Next, Reads!Ledger!Next

LEMMA ClockBounded == Spec => [](clock \in 0 .. MaxClock)
<1>1. Init => clock \in 0 .. MaxClock
  BY ClockAssumption DEF Init
<1>2. IInv /\ clock \in 0 .. MaxClock /\ [Next]_vars
        => (clock \in 0 .. MaxClock)'
  <2> SUFFICES ASSUME IInv, clock \in 0 .. MaxClock, [Next]_vars
               PROVE  (clock \in 0 .. MaxClock)'
    OBVIOUS
  <2>1. CASE Tick
    BY <2>1, ClockAssumption DEF Tick
  <2>2. ASSUME NEW h \in Handlers, Commit(h) PROVE UNCHANGED clock
    BY <2>2 DEF Commit
  <2> QED
    BY <2>1, <2>2, OnlyCommitsWrite
<1> QED
  BY <1>1, <1>2, Invariance, PTL DEF Spec

\* Payments are, to the readers, what BalanceRead takes them for: of all the
\* statements of process_payment, only those that commit are seen, and each as
\* one step of the ledger.
THEOREM ServiceServesReads == ServiceSpec => Reads!ServedSpec
<1>1. ServiceSpec => Spec
  <2>1. ServiceInit => Init
    BY DEF ServiceInit
  <2>2. [ServiceNext]_serviceVars => [Next]_vars
    BY DEF ServiceNext, Write, Serve, serviceVars
  <2> QED
    BY <2>1, <2>2, PTL DEF ServiceSpec, Spec
<1>2. /\ IInv /\ (clock \in 0 .. MaxClock)'
      /\ [Next]_vars /\ [Atomic!Next]_(Atomic!atomicVars)
      /\ [ServiceNext]_serviceVars
      => [Reads!ServedNext]_(Reads!servedVars)
  <2> SUFFICES ASSUME IInv, (clock \in 0 .. MaxClock)', [Next]_vars,
                      [Atomic!Next]_(Atomic!atomicVars),
                      [ServiceNext]_serviceVars
               PROVE  [Reads!ServedNext]_(Reads!servedVars)
    OBVIOUS
  <2> USE DEF Reads!servedVars, Reads!vars, Reads!tables, Reads!local,
              Reads!adapterVars
  <2>1. CASE UNCHANGED serviceVars
    BY <2>1 DEF serviceVars, readVars, vars, tables
  <2>2. CASE Serve
    BY <2>2 DEF Serve, Reads!ServedNext
  <2>3. CASE Write /\ UNCHANGED <<clock, tables>>
    BY <2>3 DEF Write, tables
  <2>4. CASE Write /\ ~UNCHANGED <<clock, tables>>
    <3>1. Reads!Ledger!Next
      BY <2>4, SameLedger DEF Atomic!atomicVars, tables
    <3>2. clock' <= MaxClock
      BY ClockAssumption
    <3>3. Reads!Pay /\ UNCHANGED Reads!adapterVars
      BY <2>4, <3>1, <3>2 DEF Write, Reads!Pay
    <3> QED
      BY <3>3 DEF Reads!ServedNext
  <2> QED
    BY <2>1, <2>2, <2>3, <2>4 DEF ServiceNext
<1>3. ServiceInit => Reads!ServedInit
  BY DEF ServiceInit
<1> QED
  BY <1>1, <1>2, <1>3, Invariance, ClockBounded, PaymentsSerialize, PTL
  DEF ServiceSpec, Reads!ServedSpec, Spec, Serializable, Atomic!Spec

\* The readers' parameters are such as their proofs assume.
LEMMA SameParameters ==
  /\ NoLimit \notin Int
  /\ Commands \subseteq Reads!Command
  /\ Owner \in [Accounts -> Clients]
  /\ BalanceTypeOf \in [Accounts -> Reads!BalanceType]
  /\ \A a \in Accounts :
       \/ BalanceTypeOf[a] = "DEBIT_ONLY" /\ CreditLimitOf[a] = NoLimit
       \/ BalanceTypeOf[a] = "CREDIT_ALLOWED" /\ CreditLimitOf[a] \in Nat
  /\ TTL \in Nat \ {0} /\ BigIntMax \in Nat /\ MaxRequests \in Nat
  /\ NoRow \notin Reads!IdempotencyKey /\ NoAnswer \notin Reads!Answer
<1>1. Reads!Command = Command /\ Reads!BalanceType = BalanceType
  BY DEF Reads!Command, Command, Reads!EntryType, EntryType,
         Reads!BalanceType, BalanceType
<1>2. Reads!Answer = Answer
  BY DEF Reads!Answer, Answer, Reads!ErrorCode, ErrorCode, Reads!NoError
<1>3. Reads!IdempotencyKey = IdempotencyKey
  BY <1>2 DEF Reads!IdempotencyKey, IdempotencyKey, Reads!Hash, Hash,
              Reads!EntryType, EntryType
<1> QED
  BY <1>1, <1>2, <1>3, NoLimitAssumption, CommandsAssumption,
     AccountsAssumption, BoundsAssumption, NullsAssumption

\* GET /balance answers with a balance the account had at some moment since
\* the request arrived, whatever statements of POST /payments run, wait, fail
\* and are retried meanwhile, and whatever the cache keeps.
THEOREM ServiceReadsAreCurrent ==
  ASSUME Reads!ReadersAssumption, Reads!WorkerAssumption,
         Reads!AdapterAssumption
  PROVE  ServiceSpec => []Reads!ReadsAreCurrent
<1>1. Reads!ServedInit => Reads!ServedInv
  BY SameParameters, Reads!ServedStart
<1>2. Reads!ServedInv /\ [Reads!ServedNext]_(Reads!servedVars)
        => Reads!ServedInv'
  BY SameParameters, Reads!ServedStep
<1>3. Reads!ServedInv => Reads!ReadsAreCurrent
  BY DEF Reads!ServedInv, Reads!ReadInv
<1> QED
  BY <1>1, <1>2, <1>3, ServiceServesReads, PTL DEF Reads!ServedSpec
=============================================================================
