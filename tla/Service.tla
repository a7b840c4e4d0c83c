------------------------------ MODULE Service ------------------------------
(***************************************************************************)
(* The service: POST /payments, statement by statement, and GET /balance   *)
(* on the cache of the process, on the same tables.  A reader sees of a    *)
(* payment what is committed; of a reader, a payment sees nothing.         *)
(*                                                                         *)
(* So BalanceRead need not say what a payment is: that it is one step of   *)
(* the ledger is proved here.                                              *)
(***************************************************************************)
EXTENDS Payments

CONSTANTS
  Readers, Workers, WorkerOf, Queries, NoQuery, NoBalance, Nothing, Worker,
  WindowCapacity, ProbationCapacity, ProtectedCapacity,
  Seeds, Columns, Index, MaxCounter, ResetAfter

VARIABLES
  cache, reading, query, expected, balance, possible,   \* as in BalanceRead
  lfu, hit, table, operations                           \* as in ServedReads

\* The readers, with what is proved of them; reading is what pc is there.
Reads == INSTANCE BalanceReadProofs WITH pc <- reading

readVars == <<cache, reading, query, expected, balance, possible,
              lfu, hit, table, operations>>

serviceVars == <<vars, readVars>>

ServiceInit == Init /\ Reads!ServedInit

\* A statement of a payment.  What it commits is visible to the next
\* statement of each reader.
Write ==
  /\ Next
  /\ possible' =
       IF UNCHANGED <<clock, tables>> THEN possible
       ELSE [r \in Readers |->
               IF reading[r] = "idle" THEN {}
               ELSE possible[r]
                      \cup {Reads!BalanceIn(entries', Reads!Key(r))}]
  /\ UNCHANGED <<cache, reading, query, expected, balance,
                 lfu, hit, table, operations>>

\* A step of a reader, or a restart of the process: its payments end by Fail.
Serve ==
  /\ \/ \E r \in Readers : Reads!ServedRead(r)
     \/ Reads!ServedRestart
  /\ UNCHANGED vars

ServiceNext == Write \/ Serve

ServiceSpec == ServiceInit /\ [][ServiceNext]_serviceVars
=============================================================================
