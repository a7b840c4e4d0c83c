---------------------------- MODULE MCServedReads ----------------------------
(***************************************************************************)
(* A small instance of ServedReads for TLC: three keys are read, and the   *)
(* third that enters the cache has to leave the window for a full          *)
(* probation.  The sketch tells euros from dollars only.                   *)
(***************************************************************************)
EXTENDS ServedReads, TLC

CONSTANTS acme, globex, k1, current, savings, eur, usd, w1, s1

MC_Owner         == current :> acme @@ savings :> acme
MC_BalanceTypeOf == current :> "DEBIT_ONLY" @@ savings :> "DEBIT_ONLY"
MC_CreditLimitOf == current :> NoLimit @@ savings :> NoLimit

\* One payment, so that there is an older and a newer balance.
MC_Commands == {[client |-> acme, key |-> k1, account |-> current,
                 amount |-> 1, currency |-> eur, direction |-> "CREDIT"]}

ReadOf(client, account, currency) ==
  [client |-> client, account |-> account, currency |-> currency]

MC_Queries == {ReadOf(acme, current, eur), ReadOf(acme, current, usd),
               ReadOf(acme, savings, eur), ReadOf(globex, current, eur)}

MC_WorkerOf == [r \in Readers |-> w1]

MC_Index == [s \in Seeds |-> [k \in CacheKeys |-> IF k[2] = eur THEN 0 ELSE 1]]

ReadersAreAlike == Permutations(Readers)
=============================================================================
