---------------------------- MODULE AtomicLedger ----------------------------
(***************************************************************************)
(* What POST /payments promises: however its executions overlap, fail and  *)
(* are retried, the committed tables change as if each payment were        *)
(* decided and recorded in one indivisible step, on the balance of that    *)
(* very moment.                                                            *)
(***************************************************************************)
EXTENDS LedgerSchema

VARIABLES
  clock,      \* the time
  version,    \* accounts.ledger_version
  entries,    \* ledger_entries
  idem        \* idempotency_keys, by (client_id, idempotency_key)

atomicVars == <<clock, version, entries, idem>>

Init ==
  /\ clock = 0
  /\ version = [a \in Accounts |-> 0]
  /\ entries = {}
  /\ idem = [k \in IdemIds |-> NoRow]

Tick == clock' = clock + 1 /\ UNCHANGED <<version, entries, idem>>

\* A key may be executed when it was never used, or when its last execution
\* failed and the record of that failure had expired at time t.
Executable(c, t) ==
  LET row == idem[IdemId(c)] IN
  row # NoRow => row.status = "FAILED" /\ row.expires_at <= t

\* The error command c meets if it is decided now, or NoError.
Outcome(c) ==
  IF Owner[c.account] # c.client THEN "ACCOUNT_NOT_FOUND"
  ELSE IF AcceptsCommand(c, GetBalance(entries, c.account, c.currency))
  THEN NoError
  ELSE RefusalOf(c)

\* Execution n of command c, received at time t, posts its entry.
Post(c, n, t) ==
  LET e == Posting(c, version[c.account], n) IN
  /\ Executable(c, t)
  /\ Outcome(c) = NoError
  /\ Storable(e)
  /\ entries' = entries \cup {e}
  /\ version' = [version EXCEPT ![c.account] = version[c.account] + 1]
  /\ idem' = [idem EXCEPT ![IdemId(c)] = Settled(c, Completed(n), t)]
  /\ UNCHANGED clock

\* Execution n of command c, received at time t, is turned down and leaves
\* the ledger alone.
TurnDown(c, n, t) ==
  /\ Executable(c, t)
  /\ Outcome(c) # NoError
  /\ idem' = [idem EXCEPT ![IdemId(c)] = Settled(c, Failed(n, Outcome(c)), t)]
  /\ UNCHANGED <<clock, version, entries>>

Next ==
  \/ Tick
  \/ \E c \in Commands, n \in Attempts, t \in 0 .. clock :
       Post(c, n, t) \/ TurnDown(c, n, t)

Spec == Init /\ [][Next]_atomicVars
=============================================================================
