---------------------------- MODULE LedgerEngine ----------------------------
(***************************************************************************)
(* The domain rules of ledger_domain/ledger_engine.py: which posting an    *)
(* account accepts, and the ledger entry an accepted posting produces.     *)
(* Pure operators; no state.                                               *)
(***************************************************************************)
EXTENDS Integers

CONSTANT NoLimit        \* credit_limit IS NULL

ASSUME NoLimitAssumption == NoLimit \notin Int

EntryType   == {"DEBIT", "CREDIT"}
BalanceType == {"DEBIT_ONLY", "CREDIT_ALLOWED"}

\* The error codes process_payment turns into a FAILED response.
ErrorCode == {"INVALID_AMOUNT", "INSUFFICIENT_FUNDS", "CREDIT_LIMIT_EXCEEDED",
              "INVALID_ACCOUNT_CONFIG", "ACCOUNT_NOT_FOUND",
              "CONCURRENT_LEDGER_WRITE"}

Signed(amount, direction) == IF direction = "CREDIT" THEN amount ELSE -amount

ValidLimit(limit) == limit # NoLimit /\ limit >= 0

\* A debit below zero is accepted only down to the credit limit.
\* A bug to be found: the boundary of the credit limit is off by one.
WithinCredit_OffByOne(newBalance, type, limit) ==
  type = "CREDIT_ALLOWED" /\ ValidLimit(limit) /\ newBalance >= -limit - 1

WithinCredit(newBalance, type, limit) ==
  type = "CREDIT_ALLOWED" /\ ValidLimit(limit) /\ newBalance >= -limit

\* decide_posting returns a decision exactly when this holds.
Accepts(amount, direction, balance, type, limit) ==
  LET newBalance == balance + Signed(amount, direction) IN
  /\ amount > 0
  /\ \/ direction = "CREDIT"
     \/ newBalance >= 0
     \/ WithinCredit(newBalance, type, limit)

\* The exception decide_posting raises when it does not accept: the amount is
\* looked at before the account's configuration.
RefusalCode(amount, type, limit) ==
  IF amount <= 0                    THEN "INVALID_AMOUNT"
  ELSE IF type = "DEBIT_ONLY"       THEN "INSUFFICIENT_FUNDS"
  ELSE IF ~ValidLimit(limit)        THEN "INVALID_ACCOUNT_CONFIG"
  ELSE "CREDIT_LIMIT_EXCEEDED"

\* The lowest balance a debit may leave on an account of this configuration.
Floor(type, limit) ==
  IF type = "CREDIT_ALLOWED" /\ ValidLimit(limit) THEN -limit ELSE 0
=============================================================================
