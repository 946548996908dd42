# djangors: a TLA+ verification project

djangors is a Django-like web framework in Rust: an HTTP kernel, an ORM with a
derive macro, migrations, authentication, an admin site, a REST layer, a
database-backed task queue and a set of contributed applications, on
PostgreSQL or SQLite. This directory holds TLA+ models of the parts whose
correctness depends on the order of concurrent steps, the TLC configurations
that check them, and theorems about them that TLAPS checks.

`PROJECT.json` is the index: components, runs, the lines of source each
definition stands for, findings, hazards and theorems.

## 1. Inventory

Everything below lives in `src/crates/`. Most of the framework is per-request
computation with no shared state. State that several actors share is in the
database, or in a few process-wide structures.

| Component | State | Operations | What is hard | What makes it correct |
|---|---|---|---|---|
| Task queue (`djangors-tasks`) | rows of `djangors_task_queue` | `enqueue`, `claim_next_task`, `Worker::run_once`, `mark_task_completed`, `mark_task_failed` | many worker processes, two engines with different locking, crashes between claim and mark, lost answers, marks that use a stale copy | one executor per claimed row, at most `max_attempts` executions, no rerun after success, no row forgotten, every task settles |
| Recurring schedules (`djangors-tasks`) | rows of `djangors_recurring_task` | `register_recurring`, `tick_recurring_tasks` | concurrent ticks, a tick that fails half way, missed ticks, rows an operator edits | each occurrence enqueued exactly once, never early, never lost |
| Queryset cache (`djangors-orm`) | the process-wide `STORE` | `cached_all`, `invalidate_table` from every write, `set_max_cache_entries` | a fill and a write overlap, writes in transactions, writes that do not invalidate, a full store | stale rows only in known cases, limit respected, fresh in the end |
| Query compilation, relations (`djangors-orm`, `djangors-macros`) | rows; a queryset under construction | Q objects and their compilation, terminal calls, `select_related`, `prefetch_related`, many-to-many calls, `get_or_create`, `update_or_create`, `save`/`update`/`delete`, `F` updates | placeholder numbering in nested trees, NULL logic, related rows read in a second statement, check-then-act, full-row writes | a statement selects what its filters mean; related rows belong to their rows; no duplicate, no lost increment |
| Database access (`djangors-db`) | pools, open transactions | `transaction`, `transaction_conn`, savepoints | nesting, error paths | atomicity of the closure |
| REST framework (`djangors-rest`) | rows; a client's cursor | the five actions of `ViewSet` and `ScopedViewSet`, serializers, filters, paginations | a row checked before it is written, defaults of partial writes, pages while others write | only named columns and scoped rows are written; 4xx means nothing happened; a walk returns every row once |
| Rate limiter, throttles (`djangors-core`, `djangors-rest`), cache backends (`djangors-cache`) | a counter per key in a cache | `RateLimiter::check`, `get`, `set`, `delete` | read, then purge, then write | how many requests a window may pass |
| Admin site (`djangors-admin`) | rows of any model, the log | list, change, add, delete, list editing, bulk actions, links | a form opened before a write, a write and its log entry, date arithmetic of links | a form changes what its user changed; every deletion logged once; links lead where they say |
| Migrations (`djangors-migrations`, `djangors-cli`) | files, the snapshot, `djangors_migrations`, the schema | make, migrate, plan, fake, roll back, show; plans from models | two processes at once, killed between file and snapshot, partial rollbacks, engines | the schema is what the record says; a plan leads to the models |
| Authentication and lockout (`djangors-auth`, `djangors-rest`) | users, `auth_login_lockout`, a limiter in memory, permissions | login, logout, session, token and JWT users, reset links, permission checks | counters read before a slow hash, rows written whole, crossing responses, restarts | a locked name stays locked; a page is for who logged in; the password set last holds |
| Sessions, CSRF (`djangors-sessions`, `djangors-core`) | the browser's cookies | load, change, set cookie; token check | several tabs of one browser | changes are lost only when responses cross |
| Object permissions (`djangors-contrib-guardian`) | permission rows | grant, revoke, check | two grants at once | a revoke is final |
| Payments (`djangors-contrib-payments`) | a row per reference | initiation, verify, refund, webhooks of two providers | redelivery, late answers, death between statements, amounts with decimals | a paid charge is recorded, at its amount, and stays so |
| Serving and shutdown (`djangors-core/app.rs`) | accepted connections | accept loop, drain | signal during requests, 30 s limit | accepted requests finish or are aborted, the process ends |
| Signals and groups (`djangors-core`) | subscribers, broadcast channels | `connect`, `send`, `subscribe` | slow receivers, panicking callbacks | order of what a receiver gets |

The tick INSERTs into the queue that workers claim from; the ORM's writes
(`task.save` in `enqueue_scheduled`, say) invalidate the queryset cache; every
transaction goes through `djangors-db`; the admin, the REST layer, accounts and
payments are programs over the ORM; throttles wrap the REST actions, lockout
and limiter wrap the password check. Components meet in the database and each
writes rows the others may have read, so every module lets somebody else write
the same rows between two statements.

## 2. What is modelled

### TaskLifecycle, TaskQueue

`TaskLifecycle` is the promise: the life of one row as a state machine
(submitted, claimed at most `MaxAttempts` times, completed, retried only with
attempts left, given up only without any).

`TaskQueue` is the code. Its variables are the columns `status`, `attempts` and
`scheduled_at`, and for each worker where it is in `run_once`, the row it has
selected, the `attempts` field of its copy of the row (`tried`), and whether
its SQLite snapshot has been overtaken (`stale`). `runs`, `succeeded` and
`parked` are history. The statements of a claim are two steps: BEGIN with the
SELECT (`SelectDue`), and the UPDATE with the COMMIT (`CommitClaim`), because
other processes see the database between them and not between UPDATE and
COMMIT. The handler runs between `StartHandler` and `HandlerOk`/`HandlerErr`
(an `Err` or a panic), and the outcome is one UPDATE by id (`MarkCompleted`,
`MarkFailed`). A claim of a task this binary has no handler for, or whose
payload does not parse, is `RejectClaim`.

The engine is chosen in `Init`:

- Postgres: the SELECT locks its row and skips locked ones. An open
  claim's row cannot be selected by another (`LockedRow`).
- SQLite: `pool.begin()` is a deferred BEGIN, the SELECT takes no write lock,
  and the UPDATE is refused if another connection committed after the SELECT
  (`stale`, `ClaimBusy`). This is SQLite's rule in WAL mode. In
  rollback-journal mode the reader's shared lock makes the other connection's
  COMMIT fail instead, so a claim is overtaken even less often; the model's
  behaviours include an error at any statement (`ClaimError`, `MarkError`).

Faults are: a statement of the claim fails; the COMMIT is applied and its answer
lost; the mark fails (`Worker::run` drops the error); the process dies in any
step and is started again. Restart is immediate, which only adds behaviours to
those of a slow restart, because an idle worker may do nothing.

Abstracted: task names, payloads, error messages and `created_at`;
`max_attempts` is the constant 3 every INSERT of the crate writes. Staff who
edit the queue's rows use the forms of the module Admin below.

### RecurringSchedule, RecurringTick

`RecurringSchedule` is the promise: the due schedules a tick takes are enqueued
together, each for the occurrence whose turn it is, and the turn passes to the
occurrence that follows.

`register_recurring` and `tick_recurring_tasks`. A cron expression is the set
of times it names (`Fires`). A tick is BEGIN with the Postgres advisory lock,
the SELECT of the due rows, and the loop with its COMMIT: the loop's INSERTs
and UPDATEs are invisible before the COMMIT, so they are one step
(`CommitTick`). An expression that no longer parses, SQLite's refusal of the
first write, and any fault roll all of it back. `inserted` counts the tasks
made for each occurrence of each schedule. Nothing in the crate edits a
schedule after registering it; operators do, in SQL, and `OperatorEdit`
switches a schedule on or off or breaks its expression.

### QueryCache

The process-wide store of `query_cache.rs`, the look-up, fetch and store of
`cached_all` with nothing held between them, and the writers: those that
execute SQL and then invalidate (`save`, `update` and `delete` of the derive,
`insert_raw`, `bulk_create`, `QuerySet::delete`, `delete_by_pk`), the one that
does not invalidate (`QuerySet::update`, and `update_or_create` through it),
and the QuerySet writes executed on a transaction's connection, whose
invalidation comes before the COMMIT. A table's contents are a version number;
`rows` is the version a request fetched. `Evict` keeps any subset of the right
size, because it follows the order of a HashMap. A transaction writes one
table, and two open transactions never write the same table (they would wait
for each other's rows). The limit may be 0, which `set_max_cache_entries`
accepts: `put` makes room, finds none, and inserts all the same, so one entry
stays.

### Serializers, Listing, RestApi

`Serializers` is what becomes of a JSON body: whole and partial parsing, field
sets, the column values written. `Listing` is the query string's filters, page
arithmetic and the keyset cursor. `RestApi` composes them: concurrent requests
go through permission and throttle (`RateLimiter::check` over a
`DatabaseCache`: the clock, the entry, the purge and the record are steps, as the
code reads the clock before it awaits the entry) to the actions of one mounted endpoint, and a client walks over
the pages of its list. Endpoint `plain` is a
`ViewSet` with a serializer and throttle, `scoped` a `ScopedViewSet`, `feed`
the paged one. `rank` stands for a nullable DateTime in half seconds, so that
the cursor's whole seconds and the place of NULL, first or last by engine and
direction, can be seen.

### Expressions, Instances, Queries

`Expressions` has Q trees, their resolution against a model, compilation to
SQL, and three-valued evaluation; SQL is the tree it parses to, with numbered
placeholders. `Instances` has the operations that take two statements while
others write: it loads related rows in a second statement, and races
`get_or_create`, `update_or_create`, saves, updates inside a locking transaction
and in-database increments. An instance is saved over the pool only (`update`
takes `&Database`), on a connection of its own, so a save made inside the
transaction that holds `select_for_update` on the row would wait for its own
caller; what is written under the lock is an UPDATE of the querysets on the
transaction's connection. The lock is held from the SELECT to the end of the
transaction.
`Queries` adds to it the queryset, built call by call and run. The scene says
which of them a behaviour is about, so a behaviour of `Queries` whose scene is
not `query` is one of `Instances`.

### Changelist, Admin

`Changelist` is the list page as a function of its query string: what it
selects, the links it shows. Without `?o=` a page has no ORDER BY, and with it
no tie-break, so a page is any rows the database may return (`PagesOf`). A
filter is on a boolean or on a field with choices; its links ask for "true" and
"false" all the same. `Admin` is the site over one model. Staff open a
form, the row changes, the form is submitted; the write and the log entry are
two statements; the program itself writes the same rows. A form shows an
instant by `to_string` and parses whole seconds, so the model's dates keep the
fraction of a second, for the form to lose. One of the two staff
is bound to a tenant.

### Schemas, Migrations

`Schemas` turns models into operations and operations into a database, on both
engines, DDL errors included. The plan of `migrate()` types the columns of a
join table by the keys themselves, automatic ones included; the plan of a
snapshot does not. `Migrations` runs the commands: files and
snapshot, the table of applied migrations read before the transaction of each
migration, several processes at once, any of which may be killed.

### Credentials, Accounts

`Credentials` says what a request presents and how it is checked: hashes, reset
links, signed session cookies, tokens and JWTs, CSRF tokens, permissions.
`Accounts` has browsers with tabs: a request takes its session from the cookie
it was sent with, its steps are the statements of the code (the lockout row
read, with a clock read some time before it; the account read and verified; the
attempt recorded), and its response sets the cookie. Staff edit and delete
accounts, time passes, the process restarts. `result` is the last answer, with
history fields: whom it may be for (`due`, a set: one, unless responses or rows
written whole crossed), whether attempts on the name overlapped (`sure`), what
a lockout would need (`earned`) and, if none overlapped, whether it is due
(`held`).

### Providers, Payments

`Providers` is what Paystack and Bachs are sent and answer, decimal strings
and minor units of the currencies, status names, webhook signatures.
`Payments` has every statement on the transaction table (`Find`, `Insert`,
`FindExisting`, `Mark`, `Update`), run by initiations, polls, refunds and
webhooks, of which the provider repeats those not accepted. A request may die
between statements and staff may delete rows. Signatures are pairs of a key
and what was signed; HTTP and JSON are left out, and so are the columns
`provider` and `metadata` and the timestamps.

In these modules a behaviour is about one scene, chosen in `Init`: which calls
the actors make, which data and settings there are, and the bounds. The MC
module lists the scenes, each for one kind of interaction.

## 3. What the runs check

| Run | Instance | Result |
|---|---|---|
| `TaskQueue` | 2 workers, 2 tasks, both engines, 3 attempts, clock to 1, 1 fault | 300 246 states, passes |
| `RecurringTick` | 2 workers, 2 schedules (every tick of the clock; every other one), both engines, clock to 2, 1 fault, 2 edits | 38 244 states, passes |
| `RecurringTickSqlite` | the same on SQLite, no faults or edits | violated: finding 1 |
| `QueryCache` | 2 requests, 2 tables, 1 query each, limits 0, 1 and 2, 2 writes of any kind, 1 lost answer | 864 k states, passes |
| `RestApi` | 2 clients and a walker; 2 users, 4 keys; per endpoint at most 3 requests, 1 fault; one attempt per window of 2, clock to 3, pages of 2, ranks with NULLs on both engines | 988 k states, passes |
| `Queries` | 2 clients, 3 models, two databases of 2-3 rows per model with NULLs, up to 2 filters out of 10 trees, 6 windows, 4 writes | 200 k states, passes |
| `Admin` | 2 staff, 5 rows, pages of 2, dates over month and year ends and inside a second; 11 scenes of at most 3 POSTs, 2 writes by the program, 1 fault | 204 k states, passes |
| `Migrations` | 2 clients, 15 scenes of up to 3 versions of the models, both engines, up to 6 commands, 1 kill | 102 k states, passes |
| `Accounts` | 3 tabs, 5 accounts, 10 scenes of up to 6 requests, clock from 1 to 5, 1 restart | 3.34 M states, passes |
| `Payments` | 2 requests at a time, 2 charges, 11 scenes of up to 3 requests, 1 death, 1 deletion, 1 repeated delivery | 458 k states, passes |
| `QueryCacheRace` | 2 requests, invalidating writes only | violated: finding 2 |
| `QueryCacheBulk` | 1 request, `QuerySet::update` only | violated: finding 3 |

`TaskQueue`: `SingleExecutor`, `MarkHitsOwnAttempt`, `SuccessIsFinal`,
`AttemptsAccountForRuns` and `RunningIsAccountedFor` are the safety of the
queue; `ParkedStaysParked` states the documented price of a crash, that the row
stays in `running` for good; `ImplementsLifecycle` is the refinement;
`EveryTaskSettles` says that retries, which keep their old `scheduled_at` and
so go to the head of the queue, starve nobody. `IInv` is the inductive
invariant of the proofs, checked here before it was proved.

`RecurringTick`: `EachOccurrenceOnce` counts tasks for every occurrence, through
failed ticks, missed ticks and concurrent ticks. `FiresOnlyWhenDue` says that a
schedule switched off between a tick's SELECT and its COMMIT does not fire.
`BrokenRowStopsTick` and `DueIsEnqueued` together say when schedules do fire:
always, unless an enabled due row does not parse, and then none does.
`ImplementsSchedule` is the refinement of `RecurringSchedule`: ticks that read the
same rows, fail or are refused look from outside like ticks one after another.

`QueryCache`: `FreshUnlessRaced` is the exact extent of the guarantee: an entry
is current unless its fill overlapped an invalidation, was made inside a
transaction, or the table was changed by a write that has not invalidated it.
`WithinCapacity` is the limit, whatever it is set to meanwhile, with its one
exception: a limit of 0 leaves one entry, where `query_cache.rs:37` says
"maximum number of cached queryset entries". `EventuallyFresh` says that the
TTL repairs all of the staleness once writes stop.

`RestApi`: `RefusedMeansUntouched` and `NamedColumnsOnly` say what a client may
conclude from an answer and what a request may change, `ScopedWritesStayInScope`
whose rows it may change, `WalkIsComplete` which rows the pages return while
others write. `WindowBudget` says how many requests concurrency lets past the
throttle: a budget for every window; one more for every window opened late, by a
check that read the clock before a window turned and the entry after; and two
more for every record of a request that another one overwrote or purged unseen,
one for the requests it forgets and one for the window it may bring back. Each
names the exact exceptions the code has. `IInv` is the inductive invariant of
the proofs.

`Queries`: `StatementsMeanFilters` compares every statement with a direct
reading of its expression tree; `RelatedRowsMatch`, `CreatedOnce` and
`IncrementsSurvive` are about two statements with writes between. The last one
does not deny that a save loses what others wrote since the copy was read, as it
does (`model.rs:1152`): it says that it loses no more than that, and that an
update under the lock and one inside the database lose nothing.

`Admin`: `FormsKeepTheRest` (a form writes every column: an untouched one gets
the value of when the form was opened, but for named exceptions, so what others
wrote since is undone and nothing else changes),
`AuditTrail` (one log entry per deletion; diffs that are true), and
`LinksKeepTheList` (date links partition the dated rows of the list, a boolean
filter's links those that have a value; there is a next page exactly if rows
are left, and a page has the rows of its rank if the order tells all of them
apart, which is the only case where the pager reaches every row).

`Migrations`: `SchemaMatchesRecord` replays the recorded migrations and
compares the result with the database after any interleaving and kill;
`PlanReachesTarget` compares the database with the models the snapshot
records: tables, columns, and the type of what refers to a key. It holds after a
kill between file and snapshot too, as long as no two files create one table
with different columns. `TypeOK` includes that no migration is recorded twice.

`Accounts`: `LockoutStands` (however attempts overlap, nobody is locked out
without so many failures; if none overlapped, a locked name is told so by any
attempt, across restarts), `AnswersFor` (who a page and a login
are for, one of two if responses or rows crossed; which forms are refused),
`RevokeIsFinal`.

`Payments`: `RowsFollowCharges` (a row says success only for a paid charge of
its amount, and keeps saying so, but for an answer that verify gave before the
payment and the application writes after it), `RepeatsAreAccepted` (what is accepted is
what is genuine, however often and however interleaved), `PaidIsRecorded`
(a paid charge gets its row whatever died on the way).

Bounds. Two workers are enough for every race of the queue because every guard
concerns a worker and the row it holds, or two workers; three attempts are the
code's. A clock of 0..1 gives both a task that is due and one that is not yet;
0..2 gives a schedule two missed occurrences to catch up. Two tables and a limit of 1 make
eviction happen across tables. In the scene modules two actors suffice for
every hazard that is a step of one between two steps of another; a third tab is
there where a revoke overlaps two grants, or three responses cross. Each scene
allows the writes, deaths and clock its hazard needs plus one, and the mutant of
every property shows that the case is reached. The cursor walk has three rows
and pages of two, so a boundary lies between equal and different ranks. In `Providers` integers
end at 99 999, so that amounts of currencies with none, two and three decimals
stay below it and one overflows. The theorems of section 5 lift these bounds for
eight of the modules. Deadlock is not checked in `TaskQueue`: the system
stops when every task is settled and the clock is at its bound.

Fairness. Weak fairness of each worker's `RunOnce` (the loop of `Worker::run`
never ends, and the handlers are assumed to return), of the clock, of each
worker's `Tick`, of each request's next step, and of the expiry of each entry.
In `Payments` a request that is being served goes on (`Proceed`), and the
provider delivers a report until it is accepted, which is what the comment at
`bachs.rs:516-518` ("letting Bachs retry it") relies on. Faults, enqueues,
edits, writes, payments and polls are not fair. No strong fairness is used.

## 4. Findings

1. `RecurringTickSqlite`. The comment at `djangors-tasks/src/lib.rs:229-230`
   says that on SQLite the interleaving the advisory lock defends against
   cannot occur. It can: the transaction starts as a reader. The outcome is
   still right (`EachOccurrenceOnce`), because the second tick's write is
   refused and the tick rolls back.
2. `QueryCacheRace`. `query_cache.rs:68-69` promises that stale rows are never
   served after a mutation. A fill that fetched before the write and stores
   after the invalidation breaks it, until the TTL ends.
3. `QueryCacheBulk`. `QuerySet::update` does not call `invalidate_table` at all.

The other modules model what the code does, and their properties name it as an
exception where it is less than one may expect. These are not runs; they were
seen while modelling.

- Cache: a limit of 0 keeps one entry.
- REST: a `ScopedViewSet` parses PATCH as a whole object and resets what it
  omits; its `destroy` is not throttled and checks the scope in one statement
  and deletes in another; a create or update that ends out of scope is kept and
  answered 500; an empty PATCH makes invalid SQL. Cursors cut timestamps to
  seconds and skip or repeat rows of the same second; two ordering fields skip
  rows at ties; rows whose ordering column is NULL are dropped after the first
  page where NULL sorts last, and a page that ends in one has a cursor that is
  refused where it sorts first. A read-only NOT NULL column makes POST and PUT 422.
- Queries: an `OuterRef` below two subqueries or over its own table names the
  wrong row; `update`, `delete` ignore search, limit and offset, `count` with an
  offset fails; a filter inside EXISTS names a renamed field, not its column
  (`queryset.rs:2189`; the model's fields and columns have one name, so no run
  shows it); LIKE wildcards are not escaped; `update_or_create` returns the
  copy it read; `q!(x = None)` never matches.
- Admin: NULL is shown as "-" in the change form and saved as that text (a NULL
  datetime cannot be saved at all); read-only fields are not submitted, so
  saving sets nullable ones to NULL and fails for required ones; a nullable
  boolean that is false and an empty text are saved as NULL; an instant loses
  its fraction of a second; a list without `?o=` or with ties in it may repeat
  or miss rows from page to page; the links of a filter on choices ask for
  "true" and "false", which are none of the choices; a required relation
  left empty is no error of the form, the database answers 500; "Changed." is
  logged when no row matched; bulk deletion ignores Protect and tenants.
- Migrations: makemigrations plans no changes of type, null, unique or index and
  no removed fields, yet writes the snapshot; a new model with a foreign key to
  an existing one fails (`commands.rs:963`); downs run in the order of ups; a
  command killed between file and snapshot writes a file that can never apply;
  `migrate()` makes join columns BIGSERIAL on Postgres, and on SQLite a second
  automatic key or the only one, against `docs/src/guides/migrations.md:285-294`
  (BIGINT), so two automatic keys make it fail there; rolling back a
  CREATE TABLE IF NOT EXISTS that did nothing drops the older table; `sqlmigrate`
  prints the plan of the snapshot; `detect_changes` omits relation columns.
- Accounts: overlapping failed attempts count once and may write a locked row
  back unlocked; of two overlapping right logins one fails; a reset link is bound
  to the first 30 characters of the hash, which are Argon2's parameters, so it
  stays valid after the password changed (`lib.rs:714-715` says otherwise); a
  reset writes the whole row and may re-activate an account; `username` is not
  unique and two users of one name can neither log in; logout and reset leave
  other sessions valid.
- Payments: a webhook redelivered after a refund sets the row back to success,
  and a verify answer written late sets a paid row back for good; a webhook's
  amount is not compared with the row's; a Paystack webhook records "NGN" for
  any currency; a partial refund marks the row refunded.

## 5. What is proved

A theorem holds for every value of the constants that satisfies the named
assumptions of its module, where a run checks one instance. Each proof module
starts from an inductive invariant `IInv`, with one lemma per action and one step
per conjunct the action can disturb. Every `IInv` was model-checked on the
instance of its run before it was proved; those of `TaskQueue` and `RestApi`
stay among the invariants of the runs. `EndedStaysEnded`,
`CommitsSeeCurrentRows`, `OnlyStatusChanges` and `LockedRowStands` were
model-checked on those instances too; no run keeps them, as they follow from
the invariants.

### TaskQueueProofs

For any set of workers, any set of tasks, any attempt limit and any bounds on
time and faults, on either engine:

- `InductiveInvariant`: `Spec => []IInv`;
- `TypeCorrect`, `OneExecutor`, `MarksAreSound`, `NoRerunAfterSuccess`,
  `AttemptsBoundRuns`, `NoForgottenRow`: each invariant of the run;
- `ParkedForEver`: the action property;
- `EndsAreFinal` (`EndedStaysEnded`): a completed or failed task is never claimed,
  run or written again;
- `Refinement`: `TaskQueue` implements `TaskLifecycle`.

Assumptions: the four named ones of `TaskQueue` (task ids are positive numbers,
the attempt limit is positive, the engines are the two known ones, the bounds
are numbers).

The argument. None of the properties is inductive by itself. What closes the
induction is `ClaimInv`, a claim between SELECT and UPDATE either still sees
its row pending at the attempt count it copied, or is stale and will be
refused, and the second half of `Exclusive`, on Postgres no two claims have the
same row selected. A commit keeps `ClaimInv` for the others because on SQLite
it makes them stale and on Postgres they hold other rows. `OwnerInv` then says
what a claimed row looks like to its worker, `RowInv` relates the row's status
to its counters, and `Accounted` is one half of `RunningIsAccountedFor`.
`ClaimedRow` and `OwnedRow` restate what a worker knows before it writes, for
the last two theorems.

### RecurringTickProofs

For any workers, schedules and sets of occurrences, and any bounds on the clock,
failed ticks and edits: `OncePerOccurrence` (`EachOccurrenceOnce`),
`FiresWhenDue` (`FiresOnlyWhenDue`), `BrokenRowBlocks` (`BrokenRowStopsTick`),
and `Refinement` (`ImplementsSchedule`): `RecurringTick` implements
`RecurringSchedule`, where `next_run_at` of the registered rows is the turn and
`inserted` the tasks. `CommitsAreCurrent` (`CommitsSeeCurrentRows`) is what remains of
the sentence finding 1 refutes: on Postgres two ticks never have the same due
row, and on either engine a tick that may still commit has its rows as they are.

Assumptions: a schedule's occurrences are times and it never runs out of them
(`FiresAssumption`; `schedule.after(x).next()` is `None` only for an expression
whose years are over), the engines are known, the bounds are numbers.

The argument. `TickInv`: the rows a tick has read are as it read them, unless it
is stale, and a stale tick cannot commit. `Serial`: on Postgres nothing is ever
stale, because the advisory lock admits one tick and its row locks keep
operators away. A commit then enqueues the occurrences between the old and the
new `next_run_at`, no others, and `RowInv` counts them. `CommitEnqueues` maps that
commit to the abstract step; every other step of a tick is a stutter.

### QueryCacheProofs

For any requests, tables and queries, infinitely many too, any limits and any
kinds of writes: `FreshEntries` (`FreshUnlessRaced`), `BoundedStore`
(`WithinCapacity`), and `StaleAfterMutationOnlyIfRaced`, which is what remains of
the sentence finding 2 refutes: where every write invalidates, once the writes
have returned an entry is stale only if a fetch raced one of them.

Assumptions: there is a limit to choose and limits are numbers, 0 included, there
is at least one table and one query, write kinds and bounds are those of the module. The last theorem has the
hypothesis `TrackedOnly`, which the run `QueryCacheRace` satisfies.

The argument. An entry is as current as the fetch it came from, so the guarantee
must hold of rows fetched and not stored yet (`FillInv`); a commit installs a
version because the transaction has its table to itself (`TxInv`); an insertion
finds room or makes it (`StoreInv`, which also says the store is finite).

### RestApiProofs

For any clients, users, rows, columns, bodies and field sets, any limit and
window of the throttle: `RefusalsAreClean` (`RefusedMeansUntouched`),
`WritesAreAsked` (`NamedColumnsOnly`), `BudgetPerWindow` (`WindowBudget`),
`ScopeIsKept` (`ScopedWritesStayInScope`), and for any walks over any list
`WalksAreComplete` (`WalkIsComplete`).

Assumptions: rows have the model's columns and ids come from `Pks`
(`TableAssumption`), "no entry" is no entry of a counter (`CounterAssumption`),
the window and page size are positive (`BoundAssumption`); primary keys are
integers, finitely many, and `rank` is a column whose values are times or NULL
and whose parsed values are times (`ListAssumption`).

The argument. `CounterInv`: an entry that began in the present window accounts
for all that was admitted, by its count and a budget for each window before; one
that began earlier leaves a part of its own window's budget unused (`Credit`).
`HitsInv`: so does what a request has read of it until another request records.
A window opened late pays for the window it does not keep closed. `WroteInv`
and `ScopeInv` say what a request between two statements knows; `AskedIsWritten`
is the lemma about serializers, that a parsed body gives the columns it names.

The walks have an invariant of their own, `WalkSound`, over `RanksOK` (a row has
a time or NULL). `CursorWalk`: a row that has stayed as it was has been shown
exactly if it is not after the cursor, whoever writes meanwhile, and one whose
rank is NULL never if NULL comes last and the first page was full; `CursorMoves` is why a
cursor truncated to whole seconds keeps that for all rows but those of its
second. `SliceWalk`: while nothing is written, a row without a twin has been
shown exactly if its position is on a page fetched; `PositionCounts` is why its
position is the number of rows before it in every order the database may choose.

### AccountsProofs

For any tabs, browsers, accounts, calls and settings, any number of requests and
restarts: `LockoutHolds` (`LockoutStands`), `AnswersAreDue` (`AnswersFor`),
`GrantsEndWithRevoke` (`RevokeIsFinal`).

Assumptions: settings and bounds are numbers and rows have their columns
(`SceneAssumption`), a form or a script posts and a page is a GET
(`CallAssumption`), no account has the id that stands for nobody
(`IdAssumption`).

The argument. `AttemptInv`: an attempt that overlaps no other still holds the
lockout row as it is, and one that does is known to (`muddled`), so the row of
a name tells its failures in a row (`LockoutInv`). `Counted`: no row, in the
table or read by an attempt, counts more failures than there were since the last
login that overlapped none (`tally`, `latest`), however attempts overlap; what
an attempt writes back is one more than what it read and it is one more failure.
`SessionInv`: a cookie that is still good names the owner of its browser, or one
of those whose responses crossed, and expires with that ownership,
and no cookie is of a key to come. `CsrfInv`: unless first pages crossed, a
browser has one token. `StandingInv`: an account is as last set, or as a row
written whole put it back. `GrantInv`: who has a permission for an object has a row
for it. With these every reply is right when it is made, and stays so on its
way (`ReplyInv`); a name that no account has is locked out like any other.

### PaymentsProofs

For any clients, orders, currencies, amounts of an i64 but the smallest, charges
made elsewhere, and bounds: `RowsFollow` (`RowsFollowCharges`), `RepeatsHold`
(`RepeatsAreAccepted`), `WriteBacksKeep` (`OnlyStatusChanges`: writing a whole row
back changes nothing of it but its status), and `AmountsRoundTrip`: `minor_to_decimal_string` and
`decimal_string_to_minor` undo each other, whether or not trailing zeros are
left out.

Assumptions: orders have an amount whose absolute value fits and a currency,
charges made elsewhere have a precise amount and references of their own
(`SceneAssumption`), each id of the provider names one checkout and is no
reference (`IdAssumption`), the largest integer is a number.

The argument. The provider only adds to what it knows (`Grown`), so what was
right about a row or a request stays right (`Persists`). `ReportInv`: a report
is what the provider knew when the charge was settled. `RowInv`: a row is
priced by the charge of its name and says success or refunded only if that was
paid. `WorkInv`: the same of what a request carries between its statements, and
that the row it has seen is there unless it was deleted. `ConfirmedInv` is the
second half of `RowsFollowCharges`: what writes pending or failed carries an
answer of verify from before the payment (`early`), so no other write undoes a
webhook. `CopyInv`, for `WriteBacksKeep`: ids are given
once, so a copy of a row is of the row that is there or has an id that no
longer matches any.

### AdminProofs

For any staff, tenants, registered model, rows, edits and selections, and any
bounds: `TypeCorrect` (`TypeOK`), `FormsKeep` (`FormsKeepTheRest`), `Audit`
(`AuditTrail`), `LinksKeep` (`LinksKeepTheList`), the last for any page size,
any filters, any table of months and any order in which the database returns
rows that `?o=` does not tell apart.

Assumptions: staff and keys are finitely many, keys are positive and so is the
size of a page (`AdminBounds`), there are twelve months of at most 31 days
(`CalendarAssumption`), the model is one `register_with` accepts with a NOT NULL counter the program writes
(`RegisteredAssumption`), the special inputs are no numbers, booleans or
dates and a row without a date holds NULL (`TextAssumption`), rows fit their columns when the site opens, browsers submit
what their inputs hold, in whole seconds, selections are sequences of keys, the
parts of a view are integers (`SceneAssumption`).

The argument. `FormOK`: an open form shows its row as it was when the form was
opened, and that is the row unless somebody has written it since; `Keeps` says how a control shows a value, and
`SubmittedKeeps` and `ParsedKeeps` follow it through the browser to the column,
which is where the exceptions of `FormsKeepTheRest` come from. `ChangeOK`: a
posted form says no more than the open one, and the row read for the log's diff
is the row unless the request was overtaken. `EntriesOK`: a deletion's entry is
alone in its request, so a step logs one, or loses one, or adds one, and the
counts of `AuditTrail` balance (`LogTrail`, `FaultTrail`, `EraseTrail`).
`Written` is the frame: what a write to one row does to everybody's form and
request.

The list has an invariant of its own, `ListInv`: what a request has counted, and
the page that is shown, are those of the rows unless somebody wrote since.
`RangeIs`: the half-open range that year, month and day select holds the dates
that have these parts, December and short months included, so two date links of
a page share no row and together miss none (`DatesSplit`), and a breadcrumb asks
for fewer parts (`CrumbsHold`). `FiltersSplit`: the two links of a boolean filter
differ in that filter alone. A page has as many rows as are left for it, so
`page * PerPage < total` says whether more are; which rows they are follows only
where the order has no ties, from how many rows come before each.

### InstancesProofs

For any clients, any finite set of keys, any rows to begin with and any number
of writes: `RelatedRows` (`RelatedRowsMatch`), `CreatedAtMostOnce`
(`CreatedOnce`), `IncrementsKept` (`IncrementsSurvive`), `LocksHold`
(`LockedRowStands`: on Postgres a row locked by `select_for_update` has one holder
and stands as it was read), and `TypeCorrect`. They
are theorems of `Instances`, without the querysets of `Queries`.

Assumptions: keys are finitely many integers (`KeyAssumption`), the models have
the columns the operations name (`ModelAssumption`), and a scene begins with
foreign keys that name rows, at most one book of the title, and a row not
incremented yet (`SceneAssumption`, `Begins`).

The argument. `ClientOK`: unless another client has written since, what a
client read still holds, so the rows its foreign keys name are there, no row has
the title it did not find, the row it created is there, and its copy is the row;
and a copy lacks no more increments than there were since it was read (`since`).
On Postgres the holder of a lock is never overtaken: everybody who writes the
row waits for it, and there is one holder (`NobodyElseLocked`). On SQLite a
locked copy may be overtaken and its update is refused. `References`: a book's
author is there, or NULL. `ReadInv` and `WriteInv` are the frame: what a step
does to the clients that do not take it.

### Only model-checked

- Liveness: `EveryTaskSettles`, `DueIsEnqueued`, `EventuallyFresh`,
  `PaidIsRecorded`. Temporal reasoning from fairness needs ENABLED, which the
  prover does not support.
- `StatementsMeanFilters` and `Migrations`: the compilation of expression trees
  and the replay of migrations are recursive over data, which needs an
  induction the installed provers cannot use.

## 6. Not modelled

- Serving and shutdown, signals and groups: tasks, timers and channels of the
  runtime; the code adds no state of its own. Noted: the `JoinSet` of
  connections is joined only at shutdown (`app.rs:219`), and a receiver that
  lags skips messages silently (`groups.rs:60`).
- Routing, extractors, the layers other than CSRF, throttling and sessions,
  forms, templates, views, i18n, PDF, static files, mail, OpenAPI, nested
  serializers, admin inlines: computation within a request, formatting, I/O.
- Tenancy: finding the tenant is a look-up; `Admin` takes the tenant as given.
- The in-memory and Redis caches, `get_or_set` and the response cache: nothing
  in the repository calls `get_or_set`; the rest is a library's map.
- `djangors-db` pools, savepoints, isolation levels: transactions appear
  inlined where they are opened.
- The derive's parsing of attributes, the command line's other commands,
  deployment and test support; the contrib applications other than payments
  and guardian.
- In the modules: a permission check's several queries are one step
  (`current_user`); the leeway of JWTs; `i64::MIN`; charges of one reference
  have one amount.

## 7. Plan

1. Action properties of `QueryCache`, `Accounts` and `Admin`.
2. A type invariant of `Migrations`, proved for a `Schemas` whose plans are a
   module of their own and whose transactions are no fold.
