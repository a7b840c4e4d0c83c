----------------------------- MODULE MCPayments -----------------------------
(***************************************************************************)
(* Small instances of Payments for TLC.                                    *)
(***************************************************************************)
EXTENDS PaymentsInvariant, TLC

CONSTANTS acme, globex, k1, k2, current, savings, eur, usd

(***************************************************************************)
(* acme owns a current account it may overdraw by 1; globex owns a savings *)
(* account it may not overdraw.                                            *)
(***************************************************************************)
MC_Owner         == current :> acme @@ savings :> globex
MC_BalanceTypeOf == current :> "CREDIT_ALLOWED" @@ savings :> "DEBIT_ONLY"
MC_CreditLimitOf == current :> 1 @@ savings :> NoLimit

Pay(client, key, account, amount, currency, direction) ==
  [client |-> client, key |-> key, account |-> account, amount |-> amount,
   currency |-> currency, direction |-> direction]

\* Two debits that compete for the same credit.
Debit1 == Pay(acme, k1, current, 1, eur, "DEBIT")
Debit2 == Pay(acme, k2, current, 1, eur, "DEBIT")

\* A credit that makes room for what was beyond the limit.
Credit2 == Pay(acme, k2, current, 1, eur, "CREDIT")

\* The key of Debit1 with another payload, beyond the credit limit.
Overspend1 == Pay(acme, k1, current, 2, eur, "DEBIT")

\* Money in another currency, which no debit in euros may use.
Dollars2 == Pay(acme, k2, current, 2, usd, "CREDIT")

\* Another tenant: the same key text on an account that is not its own, and
\* an overdraft of its own account.
Foreign   == Pay(globex, k1, current, 1, eur, "DEBIT")
Overdraft == Pay(globex, k1, savings, 1, eur, "DEBIT")

\* Amounts that no entry can carry: not positive, and wider than the column.
Zero == Pay(acme, k2, current, 0, eur, "CREDIT")
Huge == Pay(acme, k2, current, 4, eur, "CREDIT")

MC_All  == {Debit1, Debit2, Overspend1, Dollars2, Foreign, Overdraft, Zero,
            Huge}
MC_Race == {Debit1, Debit2, Credit2, Overspend1}
MC_Room == {Debit1, Credit2, Overspend1, Huge}

HandlersAreAlike == Permutations(Handlers)
=============================================================================
