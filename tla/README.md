# payments-ledger-engine in TLA+

Specifications of the service in `src/`, their model-checking configurations
for TLC, and proofs for TLAPS. Every module is translated from the code; line
references are in `PROJECT.json` ("map"), and below only where they help.

    tlc -workers 2 -config PaymentsSafety.cfg MCPayments     # one run
    tlapm PaymentsProofs.tla                                 # one proof module

## 1. The system

A multi-tenant ledger behind a FastAPI application. Several worker processes
share one PostgreSQL database; each has a balance cache of its own.

| component | state | operations | talks to |
|---|---|---|---|
| API (`api/`) | none | `POST /payments`, `GET /balance`, `GET /accounts`, `GET /health` | authentication, services |
| Authentication (`api/auth.py`, `adapters/db/auth_repo.py`) | none of its own; a session open until the response is sent | look a client up by the hash of its API key | pool |
| Payment write path (`services/payments.py`, `process_payment`) | one transaction | reserve, lock, decide, insert, raise version, complete | repositories, domain |
| Domain (`ledger_domain/ledger_engine.py`) | none | `decide_posting` | - |
| Idempotency (`idempotency_repo.py`) | rows of `idempotency_keys` | `reserve`, `_reset_to_in_progress`, `complete` | database |
| Ledger repository (`ledger_repo.py`) | rows of `accounts`, `ledger_entries` | lock or find an account, sum a balance, insert an entry, raise a version | database |
| Unit of work (`uow.py`) | session and transaction | enter; commit or roll back; close | pool |
| Connection pool (`db/session.py`) | 5 + 10 connections | take, return, time out | - |
| Balance read path (`balance_process`) | one transaction | find the account, ask the cache, sum, store | repository, cache |
| Balance caches (`adapters/cache/`) | index, segments, sketch | `get_if_fresh`, `put`, `invalidate` | - |
| Recency list (`structures.py`) | links in the nodes | append, pop, move, remove | caches |
| Frequency sketch (`wtinylfu_cache.py`) | counter rows, operation count | `increment`, `estimate`, halving | W-TinyLFU cache |
| Database schema (`db_models.py`) | the tables | unique keys, checks, column widths | - |
| Migrations (`alembic/`) | the schema and its revision | six revisions, up and down; `upgrade head` before each start | database |
| Account information (`account_info_process`) | none | find the account | repository |
| Configuration, logging | none | read at start | - |

The components meet in four places: the two row locks of the database
(payments against payments), the committed tables (payments against reads, and
workers against each other), the pool of connections (requests of a worker
against each other), and the schema (revisions against the rows older ones let
in, and against the models the service is written for).

What is hard here, and what makes each part correct:

* **Payments** run concurrently, wait for locks, are overtaken while they wait,
  fail between any two statements, lose their reply after the commit, and are
  retried under the same key, perhaps after the record of a failure expired.
  An idempotency key must post at most once; what a client was told must stay
  true; no interleaving may overdraw an account; versions must number the
  entries without gaps; no reservation may outlive its request; and all must
  look as if each payment were decided and recorded in one step.
* **Reads** get version and balance from two statements, store the pair in a
  cache that payments never invalidate, and share that cache with other reads.
  No answer may be older than its request.
* **Caches** cascade: a hit promotes, a promotion demotes, a demotion evicts.
  Index, marks and lists must stay in step, capacities must hold, and a call
  must do no more than its contract says.
* **The pool** serves two connections to each request, one while it holds the
  other, and payments wait for rows with both. Connections and rows must come
  back whatever fails, the two kinds of waiting must not close a cycle, and
  nothing but exhaustion of its own worker's pool may keep a request waiting.
* **Migrations** are refused by rows the older schema let in, or run halfway
  back. Whatever happened before, a service that starts must find the schema
  its models declare, and what can keep it from starting must be known.

## 2. The modules

    LedgerEngine          decide_posting                      (operators)
      LedgerSchema        tables, requests, responses         (operators)
        AtomicLedger      abstract: a payment is one step
        Payments          process_payment, one action per statement
          PaymentsInvariant   its inductive invariant
            PaymentsProofs    theorems; refinement of AtomicLedger
            MCPayments        instances for TLC
        BalanceRead       balance_process against AtomicLedger's payments
          ServedReads     the same on the W-TinyLFU cache -- MCServedReads
            BalanceReadProofs of both
        Service           Payments and ServedReads on the same tables
                          (theorems in PaymentsProofs)
    CacheKeying           what a cache key stands for
      CacheEntries        entries; what calls do to them      (operators)
        BalanceCache      abstract: the contract of an adapter
        VersionedMapCache the baseline adapter
        SegmentedCache    what the next two share             (operators)
          SegmentedCacheProofs  what their steps do           (lemmas)
          SLRUCache       the earlier adapter
            AdaptersCompared  with VersionedMapCache, call by call
              AdaptersProofs
          WTinyLFUCache   the adapter in use  -- MCWTinyLFUCache
            WTinyLFUProofs    of the cache and of its sketch
      FrequencySketch     the counters of the admission
        SketchAccuracy    compared with exact counts
          CountedCache    WTinyLFUCache with exact counts -- MCCountedCache
    RecencyOrder          abstract: lists as sequences
      RecencyList         lists as links in shared nodes
        RecencyListProofs
    CollectionLemmas      numbers, finite sets, sequences, sums (lemmas)
    ConnectionPool        connections and row locks, in several workers
      ConnectionPoolProofs, MCConnectionPool
    Migrations            the revisions, the rows they meet, the start

They compose by refinement: `Payments` implements `AtomicLedger`, so
`BalanceRead` takes a payment to be one step of `AtomicLedger` (`Service` is the
composition, `ServiceServesReads` the theorem); the adapters implement
`BalanceCache`, whose effects (`CacheEntries`) are what `BalanceRead` lets a
cache do (`ServedReads` and `ServedReadsImplement` for the one in use);
`RecencyList` implements `RecencyOrder`, so the adapters take their lists to be
sequences.

### Payments

Each handler is one execution of `process_payment` in some worker; `pc` names
the SQL statement it runs next, and each statement is an action, because
another transaction may commit between any two of them (READ COMMITTED: each
statement sees what is committed at its own moment).

| pc | statement | actions |
|---|---|---|
| `reserve` | `INSERT INTO idempotency_keys .. ON CONFLICT DO NOTHING` | `Reserve`, `ReserveConflicts` |
| `read_reservation` | `SELECT .. FOR UPDATE`, then the branches of `reserve` | `Replay`, `Refuse`, `FindExpired` |
| `reset` | `UPDATE idempotency_keys` (`_reset_to_in_progress`) | `Reset` |
| `lock_account` | `SELECT .. FROM accounts .. FOR UPDATE` | `LockAccount`, `AccountNotFound` |
| `get_balance` | `SELECT sum(amount)`, then `decide_posting` | `Accept`, `Reject` |
| `insert_entry` | `INSERT INTO ledger_entries` | `InsertEntry`, `InsertFails` |
| `update_version` | `UPDATE accounts .. WHERE ledger_version = expected` | `UpdateVersion` |
| `complete` | `UPDATE idempotency_keys .. WHERE status = 'IN_PROGRESS'` | `Complete` |
| `commit` | `COMMIT` | `Commit` |
| `reply` | the HTTP response | `Deliver`, `LoseReply` |

`Fail` ends a transaction before any statement (a dead worker, a lost
connection, a failed statement, a cancelled request).

What a transaction has written is kept apart from the committed tables
(`row`, `posted`, `raised` of its handler; `version`, `entries`, `idem` are
committed) and takes effect in `Commit`. A lock is held until the transaction
ends (`keyLock`, `accountLock`); a statement that must wait for one is
disabled. An INSERT waits for an uncommitted row with its key, in
`idempotency_keys` and in `ledger_entries`.

`reserve` takes `now` before its first statement, so `job.now` may be long past
when the row is read. `FindExpired` reads an ORM row, which also loads the
row's client and that client's accounts (`lazy="selectin"`). Whether such an
object is still in the session when `lock_account` runs depends on who still
refers to it and on the garbage collector (clients and their accounts refer to
each other), so `LockAccount` may return either the version it was loaded with
(`loaded`) or the one locked.

`AtomicLedger` has `Post` and `TurnDown`: the outcome is decided on the balance
of the moment it is recorded. Only `Commit` maps to one of them; every other
step is a stutter (or `Tick`).

### BalanceRead

Two statements (`get_account`, `get_balance`), with the cache before and after
the second. `expected` is the version of the first. `possible` is a history
variable: every balance that was current since the request arrived. A cache is
anything that keeps the contract: it may drop an entry when a new key enters,
and must ignore an entry older than what it has. `Restart` is a worker that
comes back with an empty cache.

### ServedReads, Service

`ServedReads` is the read path as it is deployed: `docker-compose.yaml` starts
one process, and `api/deps.py` makes one `WTinyLFUBalanceCacheL1` in it. Where
`BalanceRead` says what a cache may do, a reader here calls `GetIfFresh` and
`Put` of `WTinyLFUCache`, and goes on with what they return (`ServedHit`,
`ServedMiss`, `ServedStore`). `cache`, which `BalanceRead` is about, becomes a
record of what the adapter holds (`CacheFollows`); no guard reads it. A restart
empties the adapter and its sketch.

`Service` puts `ServedReads` beside `Payments`: one set of tables, `Write` for a
statement of a payment, `Serve` for a step of a reader. A reader's `possible`
grows when a statement changes what is committed. When the process restarts, its
readers and cache go together; its payments end by `Fail`, in any order, since
PostgreSQL ends each of their transactions by itself. `Service` has no run: its
steps are those that the runs of `Payments` and `balance_read` take, and that
they fit together is a theorem.

### Caches, list, sketch

`BalanceCache` states the contract by what each call does to the entries:
`get_if_fresh` returns an entry of exactly the expected version and drops an
older one; `put` never replaces an entry by an older one, and displaces at most
one other; `invalidate` removes. A call runs under the adapter's lock (or
without an await), so it is one step. `hit` is what the last call returned. In
`WTinyLFUCache` and `SLRUCache` the methods are operators on a cache value
(index plus one list of keys per segment) that call one another as in the code;
`InSync` is what the adapters' `RuntimeError`s are about.

`RecencyList` has the fields of the code (`head`, `tail`, `size`, and `prev`,
`next` of the nodes, which all lists share). `Listing` is the sequence of nodes
that the links run through.

`FrequencySketch` saturates and halves as the code does. Python salts the
hashes of strings, so nothing is assumed of `Index`: any key may share any
counter with any other.

`CountedCache` runs the cache beside `SketchAccuracy`'s exact count: a call that
increments the sketch counts its key. This is what connects the sketch to
admission, which sees estimates only.

`AdaptersCompared` makes each call to `SLRUCache` and to `VersionedMapCache`
(an INSTANCE with variables of its own): the dictionary, which evicts nothing,
is the measure of what eviction may change.

### ConnectionPool

This module composes what `Payments` and `BalanceRead` leave apart: a worker's
pool and the rows that payments of all workers lock. `auth` are the requests
whose authentication session has a connection, until the request has its
response; `work` those whose unit of work has one, taken by its first
statement; `held` the rows that unit of work has locked. `pc` follows a request
through `get_client_id_auth`, `SqlAlchemyUnitOfWork` and, for a payment, the two
statements that wait for a row. What is decided in between is left to
`Payments`: `Reserve` goes on to the account or not, as it would for a
reservation, or for a replay or a conflict. A request of `GET /balance` or
`GET /accounts` locks nothing (`BeginRead`).

`EndFails`: `__aexit__` does not reach `session.close()` when COMMIT or ROLLBACK
raises. The request stays in `work`, with its rows, until its session is garbage
collected (`Collect`); PostgreSQL may let go of the rows earlier, which only
makes less wait. The slot is not used again before.

### Migrations

A database is a record of sets (tables, enum types, nullable columns, columns
of timestamps with a time zone, defaults, constraints), a revision a sequence of
statements that add to one of them or drop from it, and `Run` executes all the
revisions of one command in one transaction, as `env.py` does. A command with a
refused statement (`Refused`) is a step too (`MigrationFails`): it ends in the
schema the rollback leaves (`RolledBack`). Of the rows only `faults` are
kept: columns in which some row is NULL, and constraints some row does not meet,
though the newest revision requires them. `Write` makes any the schema of the
moment lets in; `Mend` is an operator's repair. The operator moves the schema
while the service is down, and `Start` is the container's command in
`docker-compose.yaml` (the image's own command, which it overrides, starts the
service without migrating).

Two things show in the model and are facts of the code: the downgrade of
4fd8aa168235 is always refused (it drops a constraint without a name), and the
downgrade of 585aa4109596 leaves its enum types, so the upgrade after it is
refused.

### What is abstracted

* Names (clients, keys, accounts, currencies) are model values. A request hash
  is the record of the fields it covers: SHA-256 collisions are ignored.
* The clock counts ticks and `TTL` is a number of them. `BigIntMax` stands for
  2^63 - 1, so a BIGINT overflow is reachable.
* A response's `payment_id` and `request_id` are the number of the execution
  that produced it (`attempt`). A client may send one `X-Request-Id` twice;
  nothing in the code depends on its being unique, and `attempt` only serves to
  tell the properties which execution an entry or a response is from.
* `updated_at_ts_ms` of a cache entry is left out: nothing reads it.
* A cache key is its account and currency: the currency has a fixed width and
  ends the key's text, so no two pairs share a text.
* A missing account answers like another client's, so there are only the latter.
* Accounts are configured before they are used: no endpoint changes them.
* Workers agree on the time. A clock that is behind is covered all the same:
  `now` may be arbitrarily old when it is compared.
* Of the schema, primary and foreign keys and column types that no revision
  changes are left out, and so is the time zone in which a revision interprets
  the timestamps it converts.

## 3. Runs

| run | instance | shows |
|---|---|---|
| `payments_safety` | 2 executions at once, 3 requests of 8 kinds, 1 tick, stale sessions; 637,000 states | types, exactly-once, no orphaned reservation, credit limit, dense versions, replies that stay true, stored outcomes that stand, snapshots current or refused |
| `payments_race` | 3 executions at once on one account, 3 requests of 4 kinds, 2 ticks, stale sessions; 453,000 states | what two cannot show: waiting handlers are overtaken twice, wait for one another in a chain, and records expire twice. No deadlock; the optimistic guard never fails; credit limit; the inductive invariant, and those behind locks and replies |
| `payments_atomic` | 2 executions, 3 requests of 4 kinds, fairness; 131,000 states | `Payments` implements `AtomicLedger`; every request ends |
| `payments_expiry` | 1 execution, 2 requests | the finding of section 6 |
| `balance_read` | `ServedReads`: 2 readers, 1 payment, 4 queries of 3 keys, window, probation and protected 1 each; 269,000 states up to the names of readers | answers are current, caches agree with the ledger, the inductive invariant; the adapter does what `BalanceRead` lets a cache do |
| `wtinylfu` | 4 keys, window 1, probation 2, protected 1, counters to 2, halving every 3; 39,000 states | index, marks and lists in step; the contract; scans displace only colder entries |
| `adapters` | 4 keys, probation 1, protected 2 (the code's ratio), 2 versions, 2 balances; 15,600 states up to the names of keys | in step; both adapters keep the contract; eviction never puts the bounded one ahead |
| `recency_list` | 4 nodes, 3 lists; 1,100 states | links consistent; no exception of `structures.py` raised; the methods do to links what they do to sequences |
| `counted_cache` | 4 keys, 2 rows of 3 counters to 2, halving every 3, window, probation and protected 1 each; 82,000 states up to an exchange of the rows | estimates are never below the key's own frequency, and exact without collisions; what is displaced was asked for no more often than something kept |
| `connection_pool` | 2 workers with 3 connections each, 4 requests (a payment and its retry in the other worker, another payment of the account, a read), fairness; 18,400 states | no pool overdrawn, no row locked twice; short waits; no gridlock with few requests; nothing else blocks |
| `migrations` | the six revisions, every fault; 1,000 states | the service finds its schema; a schema follows from its revision; what stops a start |
| `migrations_nulls` | the same | the second finding of section 6 |

Why these bounds are enough to meet the interesting cases:

* **Payments.** Two executions are what a race takes: one key twice (insert
  race, waiting for the winner, winner fails), two keys on one account, the
  same key text from two tenants. The third execution in `payments_race`
  overtakes one that waits: its `now` is then older than the row it finds. The
  commands compete for a credit limit of 1 with amounts of 1 and 2, so each
  decision has a boundary; `Zero` and `Huge` are refused by the domain and by
  the column; `Foreign` and `Overdraft` are another tenant; `Dollars2` is money
  that no euro debit may use. Three requests allow reply, loss, and retry. With
  `TTL = 1` a failure expires at the next tick, and two ticks let a renewed one
  expire again. The instances differ because their sizes multiply: the wide
  command set goes with two handlers, the third handler with four commands.
* **BalanceRead, ServedReads.** One payment is enough for an older and a newer
  version with different balances. Two readers of one cache are what a stale
  store takes: one reads, the payment commits, the other stores the newer pair,
  the first stores its older one. Three keys meet a cache in which the third to
  come has to pass admission, so that an entry is stored, refused, displaced or
  promoted while the readers race; the sketch tells two of the keys apart and
  confuses the third with one of them. Each reader can fail at each statement,
  and the process can restart. Expiry plays no part in a read, so the clock
  stands still. More payments, several workers and caches that evict at will
  are covered by the proofs of `BalanceRead`, which hold for any number of them.
* **Caches.** Room for fewer entries than there are keys, in every segment, so
  that promotion, demotion, rejection and eviction all cascade; two versions,
  so that there is an older and a newer one. `b` and `c` of the W-TinyLFU run
  share a counter, which is what makes them interchangeable (the run's symmetry
  set); counters saturate and halve. One balance per version is enough for the
  contract: a call never looks at the balance, it only carries it. `adapters`
  compares what two caches carry, so it has two. In `counted_cache` each row of
  the sketch confuses two keys, one of them (`c`) in both rows: it is the only
  one whose estimate may be too high.
* **RecencyList.** Four nodes: the head, the tail and two inner ones in one
  list, or several lists at once.
* **ConnectionPool.** One worker has as many requests as connections: the
  smallest pool that can gridlock, can run short without a gridlock, and can
  lose connections. A payment of it waits for its idempotency row or for the
  account behind the retry in the other worker, and keeps its own worker short
  of connections meanwhile; or the retry waits behind a request whose session
  was lost, or while that worker is gridlocked. Two payments of one worker that
  wait for each other's rows take a pool of four; the proofs cover it.
* **Migrations.** Nothing is bounded: the revisions and their faults are finite.

`MaxClock`, `MaxRequests` (and for `BalanceRead` the finite `Commands`, each of
which is executed once or turned down for good, as no record expires) are the
only bounds on behaviours. Runs of `Payments` and `BalanceRead` switch
deadlock checking off because they end when the bound on requests is reached;
that nothing waits for ever before is `NoDeadlock` and `RequestsEnd`.

### Fairness

* `Payments` (`RequestsEnd`): strong fairness of what each handler does by
  itself. The event loop runs every task that can run; PostgreSQL queues those
  that wait for a row lock, so one that is free again and again is granted in
  the end. Nothing is assumed of `Fail`, `LoseReply`, `Receive` or `Tick`.
* `ConnectionPool` (`OnlyGridlockBlocks`): strong fairness of `Take`, since
  those that wait for a connection are served in turn, and so are those that
  wait for a row; weak fairness of what a request does once it has what it
  waits for, since statements end, and of `Collect`, since sessions are garbage
  collected. `TimeOut` is *not* fair, on purpose: the property says what holds
  without relying on the pool's timeout. Nothing is assumed of `Arrive` and
  `GiveUp`.

## 4. Properties

Of `Payments`:

* `ExactlyOnce` - an id whose row says COMPLETED has one entry, the one its
  stored response and hash describe; any other id has none.
* `NoOrphanReservation` - no committed row is IN_PROGRESS, so the 409
  `IDEMPOTENCY_IN_PROGRESS` is never given: the INSERT waits for the winner.
* `BalanceWithinLimit`, `VersionsDense`, `OutcomeStands` - what the tables keep.
* `RepliesHold` - what a client was told stays true, of first replies and
  replays, whatever happens later.
* `SnapshotIsCurrentOrRefused` - a handler decides on the committed version. The
  only one that may not is one that renews an expired reservation, whose session
  may have kept an older copy of the account; the version it would give its
  entry is then taken, so that INSERT is refused, and it never comes to raise
  the version.
* `GuardNeverFails` - so the guard of `update_account_version` never fails. This
  matters because `ConcurrentLedgerWrite` is caught *inside* the transaction:
  were it ever raised, a FAILED response would be committed together with the
  entry.
* `Serializable` - `AtomicLedger` is implemented.
* `NoDeadlock` - whoever a payment waits for can go on at once, or after one
  other that can: chains of waiting have at most two links, and no cycles. Every
  execution takes its idempotency row before its account row. `LocksHeld` is
  what that rests on: a lock is held only by a transaction that is past the
  statement that takes it, for its own row.
* `RequestsEnd` - so every request ends, if scheduling is fair.

Of `BalanceRead` and `ServedReads`: `ReadsAreCurrent`, `CachesAgreeWithLedger`,
and `ImplementsReads`, that reads on the W-TinyLFU cache are reads on a cache
that keeps the contract. The second is
what is not obvious: a balance is stored under a version read one statement
earlier, so a pair that never existed in the ledger can get into a cache. It is
harmless because a payment that separated the two also raised the version, and
the pair then carries a version no later reader expects.

Of the caches: `CacheOK`, `ImplementsContract` (call by call: what a method of
the adapter does, the same method of the contract may do),
`ScansDisplaceOnlyColder`, and `NeverAheadOfBaseline`: an eviction forgets a
version, so a put that the dictionary refuses may get in, but each entry is the
dictionary's or older than it. Of the list: `WellLinked`, `ImplementsOrder`,
and `NeverRaises`: the six exceptions with which `structures.py` guards its
links are for states that no calls lead to. Of the sketch:
`NeverUnderestimates`, `ExactWhenAlone`; and of the cache with it,
`DisplacedWereColder`: for whatever an admission displaces it keeps an entry
that was asked for at least as often, unless that one collides in every row.
(The sketch never errs in favour of what leaves; it may err in favour of what
stays.)

Of the pool and the locks:

* `PoolOK` - the order in which connections and rows are asked for, and what is
  held at each step.
* `WaitsAreShort` - a chain of requests waiting for each other's rows has at
  most two links, and who is at its end waits for nothing. PostgreSQL detects
  cycles of row locks only; a cycle through a pool of connections would be
  invisible to it.
* `NoGridlock`, `OnlyGridlockBlocks` - what can stop a request for good, and
  that a gridlock of one worker stops no other.

Of the migrations:

* `ServesItsSchema` - the tests create their tables from the models, so that the
  revisions lead to the same tables is checked nowhere else.
* `SchemaFollowsRevision` - downgrades undo what upgrades did, and a refused
  command leaves no half of its revisions.
* `OnlyThisStopsStart` - the faults that keep the service down are exactly
  these: a client without an API key or sharing one, a row that fails a check,
  and enum types left behind.

## 5. Theorems

All constants are arbitrary; the assumptions are those named in the modules:
`NoLimitAssumption`, `CommandsAssumption`, `AccountsAssumption` (the CHECK
constraints of `accounts`), `BoundsAssumption`, `NullsAssumption`,
`HandlersAssumption`, `ReadersAssumption`, `SketchAssumption`,
`PoolAssumption`, `VersionsAssumption`, `NothingAssumption`,
`CapacitiesAssumption` and `WindowAssumption` (the constructors refuse
capacities below one), `NodesAssumption` (finitely many nodes),
`NobodyAssumption`, `ClockAssumption`; of `ServedReads`, `WorkerAssumption` (one
process) and `AdapterAssumption` (those of `WTinyLFUCache`, for the balances and
versions of a ledger).

The property each theorem states is named in `PROJECT.json` ("theorems").

**`PaymentsProofs`.** `IInv` (`PaymentsInvariant`) is inductive
(`Invariance`). None of the properties is inductive by itself: that a commit
keeps `ExactlyOnce` depends on what its handler has written, which depends on
what it read several statements ago, which must still be true. So `HandlerOK`
says, for each statement, what a handler has written, which locks it holds, and
what it may rely on:

* from the reservation on it holds its idempotency row, and the committed row
  is one that may be overwritten (`Overwritable`);
* from `get_balance` on it holds the account, so the balance it decided on is
  still the balance, and the decision stands (`Approved`);
* before `update_version` its entry is `Drafted` and, since the unique
  constraint let it in while versions are dense, its snapshot *is* the committed
  version. This is the step that makes the optimistic guard redundant even for
  stale sessions;
* before the commit it `Posts`, `TurnsDown` or `Replays`.

Two handlers do not disturb each other because what each relies on is under a
lock only it holds. From `IInv` follow `TypeCorrect`, `PostsExactlyOnce`,
`NoOrphans`, `DenseVersions`, `GuardIsRedundant`, and
`StaleSnapshotsAreRefused`, which is about every session, whatever it has kept:
a snapshot that is not the committed version is an earlier one (`SnapshotOK`),
the versions up to the committed one are all taken (`VersionsDense`), so the
version after the snapshot is. `OutcomesStand` and
`PaymentsSerialize` are about steps: only a commit changes the tables, and a
commit that `Posts` or `TurnsDown` is a `Post` or a `TurnDown` of
`AtomicLedger`, on the tables of that very moment.

`NoOverdraft`: a commit adds an entry that was `Approved` on the balance of that
moment, so all that is left is that the sum of a set of entries and one more is
the sum and its amount, in whatever order the fold of the library takes them.
That is an induction over finite sets (`CollectionLemmas`); it is proved with
minimal counterexamples (`MinimalSubset`: the strict subset order on a finite
set is well-founded), because the induction theorems of the library cannot be
instantiated here. First that the fold's function exists for every finite set
(`SumExists`), then that any entry may be taken out first (`SumRemoves`).

`RepliesStayTrue`: a reply outlives the execution that produced it, so `IInv`,
which is about executions under way, is not enough. `RepliesInv` (in
`PaymentsInvariant`, checked by `payments_race`, `RepliesInvariant`) adds: two
executions never have the same number; an execution that has not committed has
posted nothing; the responses in committed rows, in transactions, in replies on
their way and in replies given all say of the attempt they name what the entries
say (`Answers`). What is posted under a number can change only while that
execution is under way (`History`), and an answer that names an attempt is
first written when the attempt ends, so no later step can make it false.

`PaymentsNeverDeadlock`: `LocksBelong` proves `LocksHeld` by going through the
ways a lock changes hands (taken by a statement its holder is past, released
with the transaction). From it: who waits for its account
holds just its idempotency row, and who holds an account waits for nothing. So
the one an execution waits for either can go on (it holds the account, or has
both), or waits for its account, and then whoever holds that can. An INSERT of
an entry waits for nobody, since only the holder of the account inserts there.
That `WaitsFor` is all that can keep a statement from running would take
ENABLED; it is what `payments_atomic` adds, in which every request ends.

**`PaymentsProofs`, the service.** `ServiceServesReads`: to the readers of
`Service`, of all the statements of `process_payment` only commits exist, and
each is one step of the ledger; by `PaymentsSerialize`, since what `BalanceRead`
calls a ledger is `AtomicLedger` (`SameLedger`). So all that is proved of
`ServedReads` holds while payments run, wait, fail and are retried, statement by
statement: `ServiceReadsAreCurrent`.

**`BalanceReadProofs`.** `ReadInv` is inductive (`ReadInvariant`). Its heart is
`Carried`: whatever balance is held under the version a reader expects, by any
cache or by any reader about to store it, was read after that version was, so
it is in the reader's `possible`. It is preserved because a payment raises the
version of its account (the reader then expects an older one, or adds the new
balance to `possible`), and because entries only move under the version they
have. `ReadsCurrent` and `CachesAgree` follow, for any numbers of readers and
workers.

`ServedReadsImplement` composes this with the adapter. `Facts` is
`WTinyLFUProofs` for the adapter of `ServedReads`; `SameCalls` and its like say
that the two instances of `WTinyLFUCache` are one. `ServedInv` is inductive: the
adapter is sound, `cache` is what it holds, balances and versions are of the
types the adapter's proofs assume (which takes that sums of entries are
integers, and that `ReadInv` bounds what a reader stores). Then
`WTinyLFUKeepsContract`, call by call, makes a `ServedHit` a `Hit`, a
`ServedMiss` a `Miss`, a `ServedStore` a `Store`. `ServedReadsAreCurrent` and
`ServedCacheSound` follow.

**`ConnectionPoolProofs`.** `PoolInvariant`, for any workers, pools, requests
and rows; its only arithmetic is counting (`HandedOut`, `TakenBack`).
`LocksNeverDeadlock` follows from it: who waits for its account holds just its
idempotency row, so it cannot be waited for by another of those, and who waits
for anything else holds no row. `FewerRequestsNoGridlock` is a pigeonhole: in a
gridlock every connection is the `auth` of another request in progress.

**`SegmentedCacheProofs`, `WTinyLFUProofs`, `AdaptersProofs`.** A method is a
chain of steps on a cache value, and between two of them index, marks and lists
do not agree: a node that moves is in no list. `Kept(c, out)` says which nodes
these are: every list enumerates, each once, the nodes marked for it that are
not in `out`. Each step of `SegmentedCache` is described by what it does to
`out` (`Taken` puts a node in, `Pushed` takes it out, `Forgotten` drops it from
index and `out`), and a method composes them until `out` is empty again. That
the lists *enumerate* their nodes is what makes the counts right: the length of
a list is the number of nodes marked for it, so a full segment is found full,
and the node that leaves it makes room for exactly one. `Sound` adds the
capacities; it is inductive for both adapters (`SLRUSound`, `WTinyLFUSound`).

That each call keeps the contract follows from what the composed steps do to
the entries: a promotion and the demotions it sets off only move nodes; only
the last victim of a put leaves the index (`GetKeepsContract`,
`PutKeepsContract`, `InvalidateKeepsContract`, and from them
`SLRUKeepsContract`, `WTinyLFUKeepsContract`; `DictionaryKeepsContract` needs no
invariant but types). `ScanResistance` reads the branches of the admission.
`BoundedNeverAhead` needs nothing of segments: it compares what `GetDone` and
`PutDone` allow with what the dictionary does, and holds because the dictionary
never forgets a version, so an older item that an eviction lets in is refused
by the dictionary, which keeps the later one.

**`WTinyLFUProofs`, the sketch.** Counter by counter, a key's own frequency is a
lower bound and, for a counter that no other key shares, its value (`RowsOK`);
counting up, saturating and halving are monotone. The estimate is a minimum of
such counters: `NeverBelow`, `ExactAlone`. The hashes are arbitrary.
`ColdestAreDisplaced` combines them with `ScanResistance`: an estimate of what
leaves is at least its frequency, one of what stays is at most its frequency if
it collides with nothing, and the former is not above the latter.

**`RecencyListProofs`.** `Linked(x, o)` says of links `x` and sequences `o` that
the former are those of the latter: the ends, the sizes, the neighbour of every
place in both directions, no node twice or in two lists, no links left in a node
that is in none. `WellLinked` says so of the walk along `next`; `Linked` names
the sequences, and so can be carried through a method. A method makes one
sequence of another (`Rechained`) and the other lists do not notice, since they
share no node with it (`RechainedLinked`). `Spliced` is the four cases of
`remove` in one formula, and `UnlinkedRechained` goes through the places left
and right of the one that is taken out. A walk determines its sequence
(`FollowsOnce`), so the sequences are the `Listing`s again, which gives
`LinksImplementOrder` step by step, `ListsWellLinked`, and `CallsNeverRaise`.

### Model-checked only

* Liveness (`RequestsEnd`, `OnlyGridlockBlocks`): outside the prover's reach.
  The safety cores of both (`NoDeadlock`; `WaitsAreShort`, `NoGridlock`) are
  proved.
* `MismatchedHashConflicts` and `NullsAreHandled`, which do not hold.
* `Migrations`: it has no constants and no bounds, so its runs are exhaustive
  and a proof could say no more than they do.

## 6. Findings

`docs/db_schema.md:111`: "A mismatched `request_hash` returns a conflict
response". `reserve` (`idempotency_repo.py:75`) looks at the expiry of a row
that is not COMPLETED before it compares the hashes, and resets the row: after
a failed payment has expired, its key can be used for another payload, which is
executed. `payments_expiry` shows it. It may well be what is wanted; the
document does not say so.

`changelog.md:28`: "Repaired the older Alembic nullability migration to safely
handle existing `NULL` values before applying stricter `NOT NULL` constraints".
`2d2f9f2fa092` fills five of the six columns it makes NOT NULL; the sixth,
`clients.api_key_hash`, was nullable in the revision before, and a client stored
without a key at that revision stops the upgrade, and with it every start.
`migrations_nulls` shows it.

Two things that are *not* violated but hang on one line each:
`GuardNeverFails` (the unique constraint is the only thing between a stale
session and a committed entry that is reported as failed), and
`OnlyGridlockBlocks` (a worker with 15 requests in progress, each holding the
connection of its authentication, can have none left for their units of work,
and then waits for the pool's timeout).

## 7. Not modelled

* What `account_info_process` and the lookup of an API key return: each reads
  one row that no endpoint changes. Their sessions are in `ConnectionPool`, the
  lookup of an account is `FindAccount` of `BalanceRead`.
* Validation of headers and bodies, the health check, error mapping: stateless.
  `amount` reaches the domain unchecked, and does so in the models.
* Configuration and logging. Of the container files only the start command.
* Migrations while the service runs, and `env.py`'s offline mode, which prints
  SQL.
* The second-level cache (`BalanceCacheL2` in `services/ports.py`): a port
  without an implementation.

## 8. Plan

Done: the write path with its abstract specification; the read path; all three
cache adapters, alone and compared, the list and the sketch; the pool with the
row locks; the migrations. Every safety invariant, action property and
refinement that a passing run checks is proved for all values of the constants,
but for those of `Migrations`, which has none. The parts are composed by
theorems: payments with reads, reads with the cache in use, the cache with its
sketch.

Left open:

* That the adapters call their lists only as `RecencyOrder` allows is said by
  the hypotheses of the lemmas on `Taken` and `Pushed` (`SegmentedCacheProofs`),
  not by a refinement of one state machine by another.
* The pool is composed with payments by hand: `ConnectionPool` has the locks of
  `Payments`, but no theorem says that its steps are theirs.
