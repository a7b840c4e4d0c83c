----------------------------- MODULE Migrations -----------------------------
(***************************************************************************)
(* The schema's history: the revisions under alembic/versions, run one way *)
(* or the other by an operator, and to the head by the container before it *)
(* starts the service (docker-compose.yaml).                               *)
(*                                                                         *)
(* A database is a record of sets: what it has of tables, enum types,      *)
(* nullable columns, columns of timestamps with a time zone, columns with  *)
(* a default, and constraints.  Of its rows only their faults are kept:    *)
(* the columns in which some row is NULL and the constraints some row does *)
(* not meet, though the head requires them.  Keys and column types that    *)
(* never change are left out.                                              *)
(***************************************************************************)
EXTENDS SequencesExt

VARIABLES
  db,           \* the database
  revision,     \* alembic_version, as the number of revisions applied
  serving       \* the service runs

vars == <<db, revision, serving>>

Tables == {"clients", "accounts", "idempotency_keys", "ledger_entries"}

EnumTypes == {"clientstatus", "balancetype", "idempotencystatus", "entrytype"}

CreatedAt == {"clients.created_at", "accounts.created_at",
              "idempotency_keys.created_at", "ledger_entries.created_at"}

ExpiresAt == "idempotency_keys.expires_at"
Status    == "clients.status"
ApiKey    == "clients.api_key_hash"

\* Columns that may be NULL for good.
Optional == {"clients.name", "accounts.credit_limit",
             "idempotency_keys.response_payload"}

OneApiKey == "unique (api_key_hash)"

FirstKeys == {"unique (account_id, ledger_version)",
              "unique (client_id, idempotency_key)"}

Checks == {"ck_accounts_credit_limit_non_negative",
           "ck_accounts_balance_type_credit_limit",
           "ck_ledger_entries_entry_type_amount_sign"}

Fault == CreatedAt \cup {Status, ApiKey, OneApiKey} \cup Checks

NewDatabase ==
  [tables |-> {}, types |-> {}, nullable |-> {}, zoned |-> {},
   defaults |-> {}, constraints |-> {}, faults |-> {}]

(***************************************************************************)
(* Statements, and a transaction of them, which fails as a whole.          *)
(***************************************************************************)
Adds(part, these)  == [part |-> part, add |-> these, drop |-> {}]
Drops(part, these) == [part |-> part, add |-> {}, drop |-> these]

Broken == [tables |-> "rolled back"]

\* PostgreSQL refuses to create a type that exists, to forbid NULLs a column
\* has, to add a constraint some row does not meet, and to drop one there is
\* not; Alembic refuses to drop one that has no name.
Refused(s, t) ==
  \/ t.part = "types" /\ t.add \cap s.types # {}
  \/ t.part = "nullable" /\ t.drop \cap s.faults # {}
  \/ t.part = "constraints" /\ t.add \cap s.faults # {}
  \/ t.part = "constraints" /\ ~(t.drop \subseteq s.constraints)

Execute(s, t) ==
  IF s = Broken THEN Broken
  ELSE IF Refused(s, t) THEN Broken
  ELSE [s EXCEPT ![t.part] = (@ \cup t.add) \ t.drop]

Run(s, statements) == FoldLeft(Execute, s, statements)

\* A bug to be found: what ran before the refused statement stays.
RolledBack_Never(s, statements) ==
  LET Half(n) == Run(s, SubSeq(statements, 1, n)) IN
  Half(CHOOSE n \in 0 .. Len(statements) :
         Half(n) # Broken /\ Half(n + 1) = Broken)

\* env.py runs all the revisions of one command in one transaction.
RolledBack(s, statements) == s

(***************************************************************************)
(* 585aa4109596 init schema.  With a table go its rows, its columns and    *)
(* its constraints, but not the enum types of its columns.                 *)
(***************************************************************************)
InitSchema ==
  <<Adds("types", EnumTypes),
    Adds("tables", Tables),
    Adds("nullable", Optional \cup CreatedAt \cup {Status}),
    Adds("constraints", FirstKeys)>>

UndoInitSchema ==
  <<Drops("tables", Tables),
    Drops("faults", Fault),
    Drops("nullable", Optional \cup CreatedAt \cup {Status}),
    Drops("constraints", FirstKeys)>>

(***************************************************************************)
(* 4fd8aa168235 update timestamps.  The constraint is created without a    *)
(* name, and dropped without one.                                          *)
(***************************************************************************)
UpdateTimestamps ==
  <<Adds("zoned", CreatedAt \cup {ExpiresAt}),
    Adds("nullable", {ApiKey}),
    Adds("constraints", {OneApiKey})>>

UndoTimestamps ==
  <<Drops("zoned", CreatedAt \cup {ExpiresAt}),
    Drops("constraints", {"None"}),
    Drops("nullable", {ApiKey})>>

(***************************************************************************)
(* 2d2f9f2fa092 align defaults/nullability                                 *)
(***************************************************************************)
\* A bug to be found: the columns are not filled first.
AlignNullability_NotFilled ==
  <<Drops("nullable", CreatedAt \cup {Status, ApiKey})>>

AlignNullability ==
  <<Drops("faults", CreatedAt \cup {Status}),
    Drops("nullable", CreatedAt \cup {Status, ApiKey})>>

UndoNullability == <<Adds("nullable", CreatedAt \cup {Status, ApiKey})>>

(***************************************************************************)
(* 504568161e66 add account and ledger check constraints                   *)
(***************************************************************************)
AddChecks  == <<Adds("constraints", Checks)>>
UndoChecks == <<Drops("constraints", Checks)>>

(***************************************************************************)
(* b69c835c2788 align db defaults with orm                                 *)
(***************************************************************************)
\* A bug to be found: created_at gets no default.
AlignDefaults_NotCreated ==
  <<Adds("defaults", {"accounts.ledger_version", Status})>>

AlignDefaults ==
  <<Adds("defaults", CreatedAt \cup {"accounts.ledger_version", Status})>>

UndoDefaults ==
  <<Drops("defaults", CreatedAt \cup {"accounts.ledger_version", Status})>>

(***************************************************************************)
(* The chain of down_revisions; the first revision, 66bf559af2bf, is empty.*)
(***************************************************************************)
Upgrades == <<<<>>, InitSchema, UpdateTimestamps, AlignNullability, AddChecks,
              AlignDefaults>>

Downgrades == <<<<>>, UndoInitSchema, UndoTimestamps, UndoNullability,
                UndoChecks, UndoDefaults>>

Newest == Len(Upgrades)

Up(from, to)   == FlattenSeq(SubSeq(Upgrades, from + 1, to))
Down(from, to) == FlattenSeq(Reverse(SubSeq(Downgrades, to + 1, from)))

Init ==
  /\ db = NewDatabase
  /\ revision = 0
  /\ serving = FALSE

Migrate(statements, to) ==
  /\ Run(db, statements) # Broken
  /\ db' = Run(db, statements)
  /\ revision' = to

MigrationFails(statements) ==
  /\ Run(db, statements) = Broken
  /\ db' = RolledBack(db, statements)
  /\ UNCHANGED revision

\* The operator moves the schema while the service is down.
Upgrade(to) ==
  /\ ~serving /\ to > revision
  /\ \/ Migrate(Up(revision, to), to)
     \/ MigrationFails(Up(revision, to))
  /\ UNCHANGED serving

Downgrade(to) ==
  /\ ~serving /\ to < revision
  /\ \/ Migrate(Down(revision, to), to)
     \/ MigrationFails(Down(revision, to))
  /\ UNCHANGED serving

\* The container's command: alembic upgrade head && uvicorn ..
Start ==
  /\ ~serving
  /\ Migrate(Up(revision, Newest), Newest)
  /\ serving' = TRUE

StartFails ==
  /\ ~serving
  /\ MigrationFails(Up(revision, Newest))
  /\ UNCHANGED serving

Stop ==
  /\ serving
  /\ serving' = FALSE
  /\ UNCHANGED <<db, revision>>

\* A row is written that the head would not have: whatever the schema of the
\* moment lets in.
Write(fault) ==
  /\ db.tables # {}
  /\ fault \notin db.constraints
  /\ fault \in Checks \cup {OneApiKey} \cup db.nullable
  /\ db' = [db EXCEPT !.faults = @ \cup {fault}]
  /\ UNCHANGED <<revision, serving>>

\* The operator mends the rows that have a fault.
Mend(fault) ==
  /\ fault \in db.faults
  /\ db' = [db EXCEPT !.faults = @ \ {fault}]
  /\ UNCHANGED <<revision, serving>>

Next ==
  \/ \E to \in 0 .. Newest : Upgrade(to) \/ Downgrade(to)
  \/ Start \/ StartFails \/ Stop
  \/ \E fault \in Fault : Write(fault) \/ Mend(fault)

Spec == Init /\ [][Next]_vars

-----------------------------------------------------------------------------
\* The schema db_models.py declares: the one the service's statements are
\* written for.
Orm ==
  [tables |-> Tables, types |-> EnumTypes, nullable |-> Optional,
   zoned |-> CreatedAt \cup {ExpiresAt},
   defaults |-> CreatedAt \cup {"accounts.ledger_version", Status},
   constraints |-> FirstKeys \cup {OneApiKey} \cup Checks, faults |-> {}]

\* README.md: "keeps schema and runtime aligned".  Whatever was upgraded,
\* downgraded, refused and stored before, a service that runs finds the schema
\* it was written for, and no row at odds with it.
ServesItsSchema == serving => db = Orm

\* A downgrade undoes what its upgrade did, and a command that is refused halfway
\* leaves no half of its revisions: the schema is the one its revision has on a
\* new database, whichever way it was reached.  Only enum types are left behind.
SchemaFollowsRevision ==
  LET fresh == Run(NewDatabase, Up(0, revision)) IN
  db = [fresh EXCEPT !.types = db.types, !.faults = db.faults]

\* What keeps the service from being started are rows that no revision mends
\* (a missing or shared API key, an account or an entry that fails a check)
\* and the types a downgrade to the beginning left behind; nothing else does.
OnlyThisStopsStart ==
  Run(db, Up(revision, Newest)) = Broken
    <=> \/ db.faults \cap ({ApiKey, OneApiKey} \cup Checks) # {}
        \/ revision < 2 /\ db.types # {}

\* changelog.md: "Repaired the older Alembic nullability migration to safely
\* handle existing NULL values before applying stricter NOT NULL constraints".
\* NULLs alone do not make 2d2f9f2fa092 fail.
NullsAreHandled ==
  revision = 3 /\ db.faults \subseteq CreatedAt \cup {Status, ApiKey} =>
    Run(db, AlignNullability) # Broken
=============================================================================
