---------------------------- MODULE LedgerSchema ----------------------------
(***************************************************************************)
(* The data the payment path works on: the rows of accounts, ledger_entries*)
(* and idempotency_keys (data_models/db_models.py), the requests of POST   *)
(* /payments and the responses stored for them.                            *)
(*                                                                         *)
(* Strings, timestamps and hashes are abstracted to what the program       *)
(* compares: names are model values, the clock counts ticks, and the       *)
(* SHA-256 of the canonical payload is the record of the fields it covers  *)
(* (collisions are ignored).                                               *)
(***************************************************************************)
EXTENDS LedgerEngine, FiniteSetsExt

CONSTANTS
  Clients,         \* tenants
  Keys,            \* Idempotency-Key values
  Accounts,        \* account ids that exist; a missing account answers like
                   \* a foreign one, so no other id is needed
  Currencies,
  Owner,           \* accounts.client_id
  BalanceTypeOf,   \* accounts.balance_type
  CreditLimitOf,   \* accounts.credit_limit
  Commands,        \* the payment requests that may arrive
  TTL,             \* ttl_hours, in clock ticks
  BigIntMax,       \* the largest amount a BIGINT column stores
  MaxRequests,     \* bound: executions of process_payment in a behaviour
  NoRow,           \* no idempotency row for a key
  NoAnswer         \* response_payload IS NULL

Command == [client : Clients, key : Keys, account : Accounts, amount : Int,
            currency : Currencies, direction : EntryType]

ASSUME CommandsAssumption == Commands \subseteq Command

\* Accounts satisfy the two CHECK constraints of the accounts table.
ASSUME AccountsAssumption ==
  /\ Owner \in [Accounts -> Clients]
  /\ BalanceTypeOf \in [Accounts -> BalanceType]
  /\ \A a \in Accounts :
       \/ BalanceTypeOf[a] = "DEBIT_ONLY" /\ CreditLimitOf[a] = NoLimit
       \/ BalanceTypeOf[a] = "CREDIT_ALLOWED" /\ CreditLimitOf[a] \in Nat

ASSUME BoundsAssumption == TTL \in Nat \ {0} /\ BigIntMax \in Nat
                          /\ MaxRequests \in Nat

Attempts == 1 .. MaxRequests

(***************************************************************************)
(* Requests.  An idempotency key is scoped by its client, and the hash     *)
(* covers the payload without its request_id.                              *)
(***************************************************************************)
IdemIds == Clients \X Keys

IdemId(c) == <<c.client, c.key>>

RequestHash(c) == [account  |-> c.account,  amount    |-> c.amount,
                   currency |-> c.currency, direction |-> c.direction]

Hash == [account : Accounts, amount : Int, currency : Currencies,
         direction : EntryType]

(***************************************************************************)
(* Responses.  attempt numbers the execution of process_payment that       *)
(* produced the response; it stands for the payment_id and request_id      *)
(* stored in it, which a replay returns unchanged.  REFUSED is a 409.      *)
(***************************************************************************)
NoError == "NONE"

Answer == [status  : {"COMPLETED", "FAILED", "REFUSED"},
           code    : ErrorCode \cup {NoError, "IDEMPOTENCY_CONFLICT",
                                     "IDEMPOTENCY_IN_PROGRESS"},
           attempt : Nat]

Completed(n)     == [status |-> "COMPLETED", code |-> NoError, attempt |-> n]
Failed(n, code)  == [status |-> "FAILED",    code |-> code,    attempt |-> n]
Refused(n, code) == [status |-> "REFUSED",   code |-> code,    attempt |-> n]

(***************************************************************************)
(* Rows.                                                                   *)
(***************************************************************************)
IdempotencyKey ==
  [hash : Hash, status : {"IN_PROGRESS", "COMPLETED", "FAILED"},
   response : Answer \cup {NoAnswer}, expires_at : Nat]

ASSUME NullsAssumption == NoRow \notin IdempotencyKey /\ NoAnswer \notin Answer

LedgerEntry ==
  [account : Accounts, ledger_version : Nat, amount : Int,
   currency : Currencies, entry_type : EntryType, request_id : Nat]

\* The row constraints of ledger_entries: the sign CHECK and the column width.
Storable(e) ==
  /\ \/ e.entry_type = "DEBIT"  /\ e.amount < 0
     \/ e.entry_type = "CREDIT" /\ e.amount > 0
  /\ e.amount \in -BigIntMax - 1 .. BigIntMax

\* UNIQUE (account_id, ledger_version).
\* A bug to be found: the constraint is missing.
Unique_Missing(e, ledger) == TRUE

Unique(e, ledger) ==
  \A f \in ledger : f.account = e.account => f.ledger_version # e.ledger_version

(***************************************************************************)
(* ledger_repo.get_balance.                                                *)
(***************************************************************************)
SumAmounts(ledger) == MapThenSumSet(LAMBDA e : e.amount, ledger)

\* A bug to be found: the balance is summed over all currencies.
GetBalance_AnyCurrency(ledger, account, currency) ==
  SumAmounts({e \in ledger : e.account = account})

GetBalance(ledger, account, currency) ==
  SumAmounts({e \in ledger : e.account = account /\ e.currency = currency})

(***************************************************************************)
(* The decision on command c when the account holds this balance, and the  *)
(* entry an accepted one appends after version v.                          *)
(***************************************************************************)
AcceptsCommand(c, balance) ==
  Accepts(c.amount, c.direction, balance,
          BalanceTypeOf[c.account], CreditLimitOf[c.account])

RefusalOf(c) ==
  RefusalCode(c.amount, BalanceTypeOf[c.account], CreditLimitOf[c.account])

\* A bug to be found: the entry is numbered below the account's version.
Posting_Below(c, v, n) ==
  [account |-> c.account, ledger_version |-> v - 1,
   amount |-> Signed(c.amount, c.direction), currency |-> c.currency,
   entry_type |-> c.direction, request_id |-> n]

Posting(c, v, n) ==
  [account |-> c.account, ledger_version |-> v + 1,
   amount |-> Signed(c.amount, c.direction), currency |-> c.currency,
   entry_type |-> c.direction, request_id |-> n]

Settled(c, answer, t) ==
  [hash |-> RequestHash(c), status |-> answer.status, response |-> answer,
   expires_at |-> t + TTL]
=============================================================================
