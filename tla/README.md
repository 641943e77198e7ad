# Verification of snake-orm

TLA+ models of the parts of snake-orm that run concurrently, that fail half-way,
that must survive a crash, or whose answer depends on the order of what came
before: the background exporter of debug reports, the migration runner, the
generation of migrations, the connection pools, the unit of work of a session
with its writes and its eager loading, the linker, the debug reports, and the
order desk of the demo applications. TLC checks them on small instances and
TLAPS proves the most important invariants for every size. Paths below are
relative to `src/src/snakeorm/` unless they start with `docs/` or `frameworks/`
(both under `src/`) or name a file without a directory.

## 1. The system

| Component | State it keeps | Operations | Talks to | What is hard | What makes it correct |
|---|---|---|---|---|---|
| OpenTelemetry exporter (`debug/otel/exporter.py`) | a bounded queue, `_pending`, `_worker`, `_dropped`, `_failures`, a Condition | `submit`, `flush`, `shutdown`, the worker's `_drain` | request threads, `atexit`, an HTTP transport | several clients and workers, a queue at its limit, a transport that fails or never ends | nothing accepted is lost or sent twice; `flush()` tells the truth; `shutdown()` returns, but for one case that is named |
| Migration runner (`migration/runner.py`, `cli/app.py`) | the tracking table and the schema of a database; the files | `apply`, `rollback`, `squash` | the engine; other deploys at the same time | crashes, two deploys at once, engines without transactional DDL, squashes | each migration is whole and recorded, or absent; the tracking table says what the schema is |
| Migration history (`migration/operations.py`, `state.py`, `autodetect.py`, `squash.py`) | none | `up_sql`, `down_sql`, `apply_to_state`, `replay`, `squash` | the runner | replaying originals and squashes together | the replayed state is the schema of an up-to-date database |
| Migration generation (`migration/diff.py`, `realize.py`, `ddl.py`, `render.py`, `renames.py`, `loader.py`) | none | diff of two states, SQL, files | the registry, the engine | the order of operations; what each engine can and cannot alter; the way back | every plan is accepted, builds what the models say, and undoes; a replay of the files agrees |
| Synchronous pool (`drivers/pool.py`) | ages by `id()`, the adopted wrappers | `acquire`, `close` of a loan, `discard`, `close_all` | psycopg2's pool, sessions | dead connections, double close, an address that is used again | one borrower per connection, clean connections, no leak, `acquire` ends |
| Asynchronous pool (`drivers/asyncpool.py`, store in `frameworks/shared/config.py`) | the free list, `live`, ages | the same, with awaits | the event loop | cancellation at each await | the same, and the store's count is exact |
| Session, unit of work (`session/session.py`, `session/retry.py`) | the savepoint depth | `with`, `commit`, `rollback`, `savepoint`, `with_retry` | a driver | errors of the engine inside nested blocks, retries | what is committed is what the program wrote and did not undo |
| Session, writes (`session/session.py`, `shared.py`, `guards.py`, `core/signals.py`) | none of its own: the objects it is given | `add`, `add_all`, `upsert`, `update`, `delete`, `refresh`, `get_or_create`, `update_where`, `delete_where` | the program's objects, handlers, the engine, other transactions | batches cut by a limit, engines without RETURNING, handlers that change or refuse, rows that went away | a write reaches its own row; an object says what its row says; no row breaks a declared limit |
| Session planning (`session/planning.py`) | none | which selects load which relations, in batches | the session | batch limits, other writers between two batches | every parent gets its children, once; no statement over the engine's limit |
| Asynchronous session (`session/asyncsession.py`) over `drivers/threaded.py` | the savepoint depth; one worker thread | as the session | an asynchronous driver | a cancelled call that goes on in its thread | a unit of work is whole or absent |
| Drivers (`drivers/sqlite.py`, `psycopg.py`, `pymysql.py`) | `_in_tx` on SQLite | statements, transactions, savepoints | the engine | a flag that says what the engine should be in | a rollback undoes; a commit commits |
| Registry and linker (`registry/`, `linker/`, `decorators/`) | models and tables by class, by name and by physical table; what descriptors remember | `@snake_model`, `snake_link`, imports it causes | the files of the application | order of imports, circular imports, homonyms, inheritance, linking again | each relation ends as its file declares it, whatever the order |
| Debug collector, channels, adapters, sidecar (`debug/`, `contrib/`) | a scope per task (a ContextVar), records, a bounded store | capture, deliver, view | the frameworks, tasks and threads of the application | tasks that outlive a request, streams left open, eviction during a view | a report has the statements of its own scope; a token leads to its own report |
| Order desk (`frameworks/shared/usecases/`, `services/`, `selectors/`) | orders, lines, stock, invoices, movements | fourteen use cases | the session, a payment processor | two requests on one order or one product, locks, a crash between a charge and its record | orders that compete for a product are promised no more than there is; a settled order was paid; no deadlock |
| Queries, expressions, compiler, dialects, introspection, DTOs, scaffolding | none or immutable | text in, text out | everything | the text | the SQL means the query |

The parts interact like this. An application imports its models, which register
themselves, and links them. A web request opens a session on a connection it
borrowed from a pool; the session writes objects and loads relations over what
the linker resolved, and drives the connection's transactions through a driver.
What the debug collector saw of the request is delivered to the client by an
adapter, or goes to the exporter, whose worker threads post it. Migrations are
generated from what the registry holds and run outside requests, from the command
line, one process or several per deploy.

`PROJECT.json` lists every component with its status and every hazard at its line.

## 2. Modules

| Module | Models | Extends or instances |
|---|---|---|
| `OtelExporter` | the exporter | |
| `MigrationHistory` | files, operations, replay, squash as the runner needs them, and the reference they are judged by | |
| `MigrationLog` | abstract: a database that moves by whole migrations | `MigrationHistory` |
| `MigrationRunner` | migrate, rollback and squash by several processes | `MigrationHistory`, instance of `MigrationLog` |
| `SchemaState` | every schema operation and what it does to the replayed state | |
| `SchemaDiff` | diff, its order, autodetect, squash | `SchemaState` |
| `SchemaDdl` | realize, and the statements of each operation on each engine | `SchemaDiff` |
| `SchemaEngine` | the three engines' catalogues, as those statements need them (external) | `SchemaDdl` |
| `SchemaChange` | models that are edited, made into migrations, applied, rolled back, squashed | `SchemaEngine` |
| `PoolLender` | abstract: connections lent to one borrower at a time, clean | |
| `Pool` | the synchronous pool | instance of `PoolLender` |
| `AsyncPool` | the asynchronous pool over the demo store | instance of `PoolLender` |
| `Session` | the unit of work over one connection | |
| `AsyncSession` | the unit of work over a threaded driver, with cancellation | |
| `Linking` | registration, imports, the linker | |
| `EagerLoad` | the levels and batches of a query with prefetched relations | |
| `Writes` | the write calls of a session | |
| `Application` | import and link, then a query or a program of writes | `Linking`, `EagerLoad`, `Writes` |
| `Reports` | scopes, capture, channels, the adapters, the sidecar | |
| `Orders` | the order desk | |
| `OtelExporterProofs`, `MigrationRunnerProofs`, `PoolProofs`, `AsyncPoolProofs`, `SessionProofs`, `AsyncSessionProofs`, `OrdersProofs` | theorems | the module they are named for |
| `RequestProofs` | theorems | `EagerLoad`, `Writes`, `Reports` |
| `MC...` | instances for TLC | the module they are named for |

Definitions marked `Mutant:` are wrong versions of the definition below them.
They take no part in the specification; each one stands for a plausible bug and
breaks the property `PROJECT.json` pairs it with.

### Exporter

An action is one atomic section of the code. The Condition protects `_pending`,
`_worker` and `_failures`, and is a variable `lock` because a submit holds it
across the start of a thread, the `put_nowait` and the increment. The queue has
a lock of its own, so a worker takes and even sends a report while its submitter
is still inside. `_warned` is `failures > 0`. A flush is two actions, since the
Condition is free while it waits; it answers with what it last saw under the lock.
`fate` is a history variable: what became of each report.

### Migrations that run

A schema is a function from tables to columns. The database is `db` (committed)
and, per runner, `tx`: what its open transaction sees. The first write of a
transaction waits until no other runner has one open. One action is one
statement; `EngineFails` and `Crash` may come before any of them. On an engine
without transactional DDL a schema statement commits as it runs, with whatever
data was pending; a data operation (`RunPython`) waits for the next commit.
`done` is a history variable: how often the operations of a version are in effect.
`already` is the set `apply()` reads once and decides by from then on.
What the model abstracts: one operation is one statement; the refusal of a
statement (a table that exists, a column that does not, the only column of a
table) stands for every engine error that depends on the schema.

### Migrations that are written

The `Schema...` modules have every operation of `migration/operations.py` on
tables, columns, indexes, CHECKs, keys, views, routines, triggers, comments and
schemas: what it does to the replayed state, the statements it emits forwards and
backwards on PostgreSQL, MariaDB and SQLite, and what `realize` refuses or turns
into the rebuild of a table. The engine is `SchemaEngine`, which is not code of
this repository: its rules are the ones the comments and the integration tests
of the repository say were measured. A name is made of what it is made of, so
that a rename that leaves an index under its old name shows. `since`, in a column
of the database, is the migration its contents go back to: a column dropped and
made again has lost them. `Avoids` names the kinds of edit after which a property
does not hold; each is in section 4. A migration is applied in one step here,
because its steps are `MigrationRunner`'s.

### Pools

`Pool` has psycopg2's pool or a plain queue under it (`Psycopg2`). Its own rules
(keep up to `minconn`, close the rest, roll back in `putconn`) are external
definitions. `born` is the stamp the code keeps by `id()`; `overdue` is the truth
about the connection. A server may drop any connection at any time (`Break`), and
a client knows only when a statement fails. `AsyncPool` runs from one await to the
next; a place in `at` is an await. `Cancels` is the set of awaits where
a `CancelledError` may arrive. A connection is its address, because the code
keys ages by `id()`: once the object is gone another one may have its address.

### Units of work

In `Session`, `tx` is the engine's transaction, with its savepoints in order. What
differs between engines is in `Left`, `Kept`, `Begun` and `Unsettled`: what a
refused statement, a repeated savepoint name and a refused COMMIT leave behind.
`believed` is a history variable: what a reader of the program would say is
uncommitted. The program catches what the guide tells it to catch, a SnakeError
that comes out of a savepoint block; `drivers/failures.py` makes one of a broken
constraint and leaves every other error as the driver raised it.

In `AsyncSession` the driver is a synchronous SQLite connection in an executor of
one thread. A call is queued, taken, run and answered; a cancellation takes the
await and not the call, which lands when the thread gets to it. `sure` and
`maybe` bound what the program can know: the rows of the writes it was answered,
and those of the writes whose end it never saw.

### Writes

`Writes` has one session and a table of four columns: an id the engine counts, a
unique key, a text with a declared length and a column with a server default. A
call is one action, except where somebody can come in between: the chunks of an
`add_all`, and the SELECT and INSERT of `get_or_create`. The order of each call is
the code's: the handlers before, the guards, the statement, what came back into
the object, the handlers after. `Handlers` are handlers that change the object,
refuse or fail. An exception leaves the `with` by a rollback. `born` is the history
of a row and of an object: which insertion each stands for. SQLite gives the id of
a row that is gone to another, MySQL has no RETURNING, and a MySQL upsert fires
on any unique key: these are in `NextId`, `supports_returning` and `Conflicts`.

### Eager loading

`EagerLoad` reads the roots and then each chain of hops level by level; a level
takes `parents_per_batch` parents in a statement. A hop is a foreign key followed
either way or a bridge, with a key of one or two columns and a filter that binds
placeholders of its own. Between two statements another transaction moves a row
or a bridge. An instance is a place in `heap`: the same row read twice is two
instances, as in the code. `has` is what `attach_relationship` left on it, the
instances of each relationship it was given; the order of a list is the engine's and
is left out.

### Linking

A design is what the files of an application say. `Import` runs a module, with
what it imports at the top first; `Link` is `snake_link`, which imports what is
under `TYPE_CHECKING` when it needs a name, merges polymorphic columns and makes
its two passes over a snapshot of the models. The registry is a record, and the
helpers take and give it, as a fold. `frozen` is what a relation's descriptor
remembers of its target's table. `Imported` is RECURSIVE, because an import is;
no module with a theorem reaches it.

### Application

The composition of the three: modules are imported and linked, in any order and
as often as `MaxLinks`; then the served application runs one query with two
prefetch chains, whose hops have to be what the link resolved (`Prefetches`), or
one program of writes, which only needs the class registered. Neither changes
the registry, so one variable, `phase`, says which part runs, and the states of
the parts add up instead of multiplying.

### Reports

A scope is what the ContextVar `_active` holds in a task. `Serve` opens one, an
application's own block hides it and gives it back, a helper task starts with a
copy of its parent's context and may outlive the request. A record is numbered and
appended in two steps. The adapters differ in when they take the report and
whether the response has gone. `SidecarBuffer` is `StoreLast`, `TooMany`, `Pop` under a
lock. `Deployments` are combinations of adapter, environment and channels.

### Order desk

One action is one statement; a request that has locked a row and writes it as its
last act commits in the same action. `lock` has a holder per row until the end of
its transaction, which is what `FOR UPDATE` and an UPDATE take. A lock is
waited for, in the order the code asks for it. `Crash` takes a request at any
statement. `LockStock` takes the rows of a statement one after another, in the
order of its ORDER BY (`Before`): a row that appears behind the last one taken is
not in the answer. `reserve_units` is a bulk UPDATE, which may carry no ORDER BY,
so it takes its rows in any order. `WaitsFor` says who waits for whom. The locks are
those of row writes; an engine's shared locks on the row a foreign key points at are
not modelled. `taken` is outside the database: what the payment processor charged.
`receive` is up to four actions in two transactions: it reads the row without a lock
(`GetStock`), upserts a row of zero units and commits if there was none (`MakeStock`),
reads again (`GetStock` at `again`) and writes the units (`MoveStock`). Another
reception may make and fill the row before the upsert comes, which then sets its
units back to zero.

`byHand` and `raced` are histories that say which properties still apply. A SKU is
in `byHand` once a stock form sets its levels, or such an upsert resets them.
`raced` is true once two requests have worked on one order at once, a stock form or
a reception has run beside another request, or a form has edited an order that was
holding units. What is reserved being on the shelf (`NoOversell`) does not depend on
`raced`; that what the orders ask is on the shelf too, `HeldIsPromised` and
`BookExplainsShelf` do, and section 4 says what happens otherwise. The
engine is one with row locks; SQLite locks the whole file, which allows fewer
interleavings, and the asynchronous twins issue the same statements.

## 3. Runs

All passing runs finish with the full state space. "States" are distinct states.

| Run | Instance | States | Shows |
|---|---|---|---|
| `exporter` | 2 clients, 3 reports, 2 threads, queue of 2, sends that may never end | 318 thousand | `ReportHasReader`, `FlushMeansSettled`, and under fairness `AcceptedIsSettled`, `ShutdownReturns` |
| `migration_atomic` | 2 runners, 3 files with data, rollback, crash, failure | 312 thousand | `AllOrNothing`, refinement of `MigrationLog`, `EventuallyUpToDate` |
| `migration_squash` | 2 runners, 3 files, a squash of all of them and one of those and the first squash, each at any moment, crash, failure | 432 thousand | `SchemaMatchesRecords`, `ReplayMatchesDatabase` |
| `pool` | 2 threads, 2 connections, psycopg2, every option on | 373 thousand | `Exclusive`, `NothingLeaks`, `RecycledOnTime`, `AcquireEnds`, refinement of `PoolLender` |
| `asyncpool` | 2 tasks, 3 addresses, a store of 1, cancellation while asking, connecting or throwing away | 229 thousand | `LiveCountsTheOpen`, `AgeIsItsOwn`, refinement of `PoolLender` |
| `session` | 3 engines, 2 attempts, 2 nested blocks, 5 writes or exceptions | 343 thousand | `TransactionIsBelieved`, `ReturnIsWhole` |
| `asyncsession` | 2 units of work, 4 writes or blocks, 2 nested blocks, 2 cancellations | 46 thousand | `UnitsAreWhole`, `TransactionIsBelieved` |
| `application` | 18 applications linked up to twice; 2 prefetch chains; 3 calls of writes on 3 engines with 5 handlers | 492 thousand | `LinksAreDeclared`, `EveryParentIsAnswered`, `WithinTheCeiling`, `OwnRow`, `ObjectsAreTheirRows`, `LimitsHold` |
| `schema` | 3 engines, 2 models, 2 views, a routine, a trigger, 2 generated migrations and 1 written by hand | 168 thousand | `PlanIsAccepted`, `MigratesToTheModels`, `ReplayIsTheModels`, `SquashBuildsTheRest`, `UndoRestores`, `DataSurvives` |
| `reports` | 2 workers, 1 helper, 3 requests, 2 statements, a sidecar of 1 | 734 thousand | `TokenShowsItsReport`, `ReportIsItsOwn` |
| `orders` | 2 requests, 2 orders, 2 products each with a row or without, 14 use cases, 2 calls, crashes | 1.3 million | `NoOversell`, `HeldIsPromised`, `BookExplainsShelf`, `SettledIsPaid`, `NoDeadlock` |
| `linking_paths` | the applications of `MCLinking` | violation | `PathsGoOn` fails |

Why the bounds are enough. Two clients are one submit racing one shutdown, or two
shutdowns; three reports are one in a send and a full queue of two behind it, and
a queue of two also gets full with a sentinel in it; the second thread is the one
a submit inside a shutdown starts. Two deploys are what
a race needs, since a third waits for the same writer; three files give one
before, one at and one after the point where a deploy stops. Two threads on two
connections of which one is kept idle reach the exhausted pool, the connection
closed on return and the reused one; three discards are the code's own `_MAX_DISCARDS`.
The asynchronous store of one is exhausted by one of two tasks, and three
addresses allow one to be reused while another is held. Two nested blocks are
enough for a name to hide another; two attempts for a retry and a last attempt;
two units of work for a statement of the first to land in the second. Two
requests with one call each are every pair of use cases, on the same order or
product and on different ones, two receptions of a product with no row among them. A statement numbered before another and appended
after it needs two tasks; a token pushed out of the sidecar needs two requests and
a capacity of one.

In `schema`, two generated migrations go from every design to every other, with a
rename before, between or after; a third would repeat a step from a state that
one already reaches.

In `application`, the linker is given a design for each situation its code tells
apart: models in one file in every order of three classes, in two files that
import each other under `TYPE_CHECKING`, two classes of one name, a polymorphic
family over files, and eight with one declaration the linker has to refuse. With
`MaxLinks = 3` nothing new happens (788 states, checked apart). The query has two
posts, two comments, two tags and two notes, a key of two columns and a ceiling of
three placeholders, so that a level takes two statements and a filter leaves room
for one parent. The databases are reduced by symmetry by hand: the first comment
is of the first post and the first note not of the second tag. A program of writes has
two objects and two keys, and chunks of one and of two rows; making an object,
`commit` and `rollback` are not counted as calls. Three objects (1.33 million
states) and five calls (1.14 million, two handlers) were checked apart. The
symmetry of `Objects` and `Keys` is sound: they are only compared.

Bounds that are not of the code: `Threads` in `OtelExporter` (no thread id is
used twice), `MaxFiles`, `Conns`, `Addresses`, `MaxDepth`, `MaxWrites`, `MaxUnits`,
`MaxCancels`, `MaxCalls`, `MaxOthers`, `MaxLinks`, `MaxMigrations`, `MaxGenerated`,
`MaxStatements`, `Units`, `Baskets`, `OnHand`.

`Session.cfg`, `AsyncSession.cfg`, `Orders.cfg`, `Schema.cfg`, `Reports.cfg`,
`Application.cfg` and `Linking_paths.cfg` say `CHECK_DEADLOCK FALSE` because a
behaviour has a bounded number of calls and ends. In `Orders` waiting for each
other is `NoDeadlock`, an invariant that looks for circles of `WaitsFor`, in part of
the requests too. `GoesOnOrWaits`, which holds of the same instance, says that
`WaitsFor` misses nothing: a request at work has an enabled step or waits for a
row of another. Every other run checks for deadlock.

### Fairness

* Exporter: a call that began goes on, worker threads are scheduled, and `flush`
  and `join` time out (`CallsProgress`, `WorkersProgress`). Nothing is assumed of
  the transport: `post_json` gives `urlopen` a timeout, an injected transport need
  not have one, and a send may never end. `AcceptedIsSettled` has the premise
  that sends end (`SendsEnd`), and `ShutdownReturns` has none: it names the one
  case in which `shutdown()` stays, with a full queue and every worker in a send
  that never ends (`HeldUp`).
* Runner: a command that runs goes on, and a failed deploy is run again, which is
  what orchestrators do. Nothing is assumed of crashes and engine failures:
  `EventuallyUpToDate` says that either they never end, or somebody rolls back,
  or everything is applied and stays so.
* Pools: the loop of `acquire` runs and the clock advances. Nothing is assumed
  of the borrower: it may keep its connection for ever.

The other specifications state safety only.

## 4. What does not hold

`linking_paths` is the run that must find a violation. A relation's descriptor
remembers the table its target had when the relation was linked
(`linker/linker.py:230`). Where a class is registered before its target (a
`User` before the `Car` it points at, and `Car` before `Brand`), the target has no
relations yet, so `User.car.brand` raises AttributeError after the first
`snake_link()` and works after a second. With the classes the other way round it
works at once; `docs/users/guide/relationships.md:94` says the result is the same
whatever the order. A program that does this with the library raises.

The following do not hold either. Each is reproduced by the change named, or by
the cfg kept for it, and no run is spent on it.

### Exporter, migrations, pools

| Property | Change | Why |
|---|---|---|
| `StuckSendKeepsNobody`: every shutdown returns | `OtelExporter_stuck.cfg` | "a stuck send never keeps the process alive" (`debug/otel/exporter.py:213`), but `shutdown()` is registered at exit and waits in `put(None)` for room in a full queue, before the `join` that has a timeout (`debug/otel/exporter.py:209`) |
| `ReportHasReader` | `OtelExporter.cfg`, `WarningsRaise = TRUE` | the first failure's warning is raised in the worker, which ends while `_worker` still names it (`debug/otel/exporter.py:242`) |
| `HistoryRuns` | `Migration_prefix_fresh.cfg` | `squash --until` numbers the squash after every file; on a fresh database the files it does not replace run before it, on tables that do not exist (`migration/runner.py:218`) |
| `ReplayMatchesDatabase` | `Migration_squash.cfg`, `SquashPoints = {1}` | `replay` runs the squash last, over what later files built (`migration/autodetect.py:61`) |
| `SchemaMatchesRecords` | `Migration_squash.cfg`, two files that create `A` and drop it, `SquashPoints = {2}`, `MaxFiles = 3` | a deploy that read that nothing was applied runs the squash of both, which has no statement to fail, though another has applied the first meanwhile; the record then stands for both and `A` is there (`migration/runner.py:209`) |
| `HalfWayMeansMissing` | `Migration_squash.cfg` with that invariant, `SquashPoints = {2, 3}` and `MaxFiles = 5` | originals that an earlier squash replaced have no record of their own (`migration/runner.py:57`) |
| `MarksWhatIsThere` | `Migration_squash.cfg` with that property, `Files <- ShortFiles`, `SquashPoints = {2}`, `MaxFiles = 3`, `Allowed = {"rollback"}` | a rollback undoes the squash and leaves the records of its originals (`migration/runner.py:265`) |
| `UndoesWhatIsRecorded` | `Migration_atomic.cfg`, that property, and `RunPython(A)` after the operation of the third of `DataFiles` | two rollbacks read the same last migration, and its data operation is undone twice (`cli/app.py:601`); where it is the only operation of the third, both commit and `AllOrNothing` fails too |
| `EventuallyUpToDate` without its first disjunct | `Migration_atomic.cfg` | a rollback that raced a deploy undoes a migration that is no longer the last; the later one stays recorded, and the undone one cannot run again |
| `SchemaMatchesRecords`, `ReplayMatchesDatabase` | `Migration_atomic.cfg`, either invariant | the same race, where the undone one can run again: the second stays recorded though the column it added went with the first's table |
| the same two | `Migration_squash.cfg`, `Runners = {r1}`, `Allowed = {"rollback"}`, no SYMMETRY | a rollback undoes a squash that was only marked: the tables go and the records of its originals stay (`migration/runner.py:265`), and the next deploy marks the squash again |
| `FirstStatementIsTheBorrowers` | `Pool.cfg` with that property alone and `SPECIFICATION Spec` | the ping of `pre_ping` opens the transaction the borrower gets, so `set_isolation()` is not its first statement (`drivers/pool.py:237`) |
| `KeepsNoClosedConnection` | `Pool.cfg`, that invariant | `adopted` keeps what `putconn` closed (`drivers/pool.py:333`) |
| `LendsCleanConnections` | `AsyncPool.cfg`, `"rolling"` added to `Cancels` | a cancellation during the cleaning rollback returns the connection with the work on it (`drivers/asyncpool.py:117`) |
| `AsyncPool!CeilingHolds` | `AsyncPool.cfg`, that invariant | the ceiling is checked before an await and counted after it (`frameworks/shared/config.py:447`) |
| `LiveCountsTheOpen` | `AsyncPool.cfg`, `"pinging"` added to `Cancels` | a connection cancelled in its ping goes to nobody (`drivers/asyncpool.py:202`) |

### Sessions

| Property | Change | Why |
|---|---|---|
| `ExitCloses` | `Session_exit.cfg` | `__exit__` has nothing around its `commit()`; SQLite keeps the transaction open when COMMIT finds the file locked, and the next `with` on that driver commits the unit of work that failed (`session/session.py:164`) |
| `TransientIsRetried` without `engine # "mysql"` | `Session.cfg` with that property | a MySQL deadlock ends the transaction with its savepoints; `ROLLBACK TO` then raises another error, which hides the transient one from `with_retry` (`session/session.py:822`, `session/retry.py:88`) |
| `AsyncSession!TransactionIsBelieved` | `AsyncSession.cfg`, `Catches = {"statement", "block"}`, `MaxUnits = 1` | a savepoint block that is cancelled rolls nothing back, because `except Exception` does not see a CancelledError; a program that catches its own timeout around the block goes on with what the block wrote (`session/asyncsession.py:600`) |
| `UnitsAreWhole` | `AsyncSession.cfg`, `Cancels <- Calls` | the rollback of `__aexit__` is an await like another: cancelled, it leaves the transaction to the next unit of work (`session/asyncsession.py:140`) |
| `UnitsAreWhole` | `AsyncSession.cfg`, `EngineEnds = TRUE` | where the engine rolls back by itself `_in_tx` stays true, no BEGIN is sent, and what follows commits one statement at a time (`drivers/sqlite.py:46`, `:149`) |
| `FiltersNarrow` | `EagerLoad_narrow.cfg` | through a bridge the filter of a hop is accepted and left out of the statement (`session/planning.py:416`); `fields/relationship.py:634` says it narrows which children get loaded |
| `Agree`, in place of `ObjectsAreTheirRows` | `Application.cfg` | `update()` reads the values before the PRE_SAVE handler, so what a handler changes stays in the object and not in the row (`session/session.py:713`, `session/asyncsession.py:360`); the comment at `session.py:626` says that a handler can modify the instance |

Of eager loading also: a query that asks twice for one relationship loads it twice
and keeps the last list, so a longer chain that began with the first is lost
(`Chains <- AskedTwice` and `SPECIFICATION Spec`, `EveryParentIsAnswered`);
`max(1, ...)` sends a statement over the ceiling where the filter alone fills it
(`RoomAssumption`); the batches of a to-one are cut by parents though the
statement binds distinct keys, which is only more statements than are needed.
Of writes: a MySQL upsert that hits another unique key changes that row, as
`dialects/mysql.py:451` says, and leaves the object unfilled; the limit of
an expression in `update_where` is not known; SQLite gives the id of a row
that is gone to another, and an object of the first then writes the other
(`OwnRow` excludes it); an `update` or `delete` of a row that went away is silent;
`docs/` (internals.md:493) says `add_all` warns that it skips signals, and it fires
them.

### Migrations that are written

Each of these is one member of `Avoids` removed from `Schema.cfg`:

| Edit | Violates | Why |
|---|---|---|
| `"drop a table and its trigger"` | `PlanIsAccepted` | the table goes first and its trigger with it, then the trigger is dropped (`migration/state.py:51`) |
| `"undo the drop of a table with parts"` | `MigratesToTheModels`, `UndoRestores` | the way back makes the table and not its indexes, keys and comment (`migration/operations.py:152`) |
| `"reproject a view under a view"` | `PlanIsAccepted` | PostgreSQL refuses to drop a view that another reads, which a change of its columns needs |
| `"rebuild what a key points at"` | `PlanIsAccepted` | SQLite checks the deferred keys at COMMIT, and the rebuilt table's rows were dropped (`test_rebuild_table.py:985`) |
| `"one name for two triggers"` | `PlanIsAccepted`, on PostgreSQL `MigratesToTheModels` | a trigger's name is of the schema on MariaDB and SQLite; on PostgreSQL its function is |
| `"rename what has named parts"` | `ReplayIsTheModels` | the names of indexes and constraints are made of the table's and stay the old ones |
| `"move a table under its key"` | `PlanIsAccepted` | the old table is dropped while a key points at it |
| `"move between schemas"` | `ReplayIsTheModels` | the state is by bare name, so the second of two tables hides the first (`migration/diff.py:93`) |

`Schema_squash.cfg` (`SquashBuildsTheSame`): a squash diffs against nothing
without `resolve_target` (`migration/squash.py:52`), so where a key is added by
ALTER TABLE it is left out, and `squash.py:24` says the one migration produces the
same final state.

### Linker, reports, order desk

| Property | Change | Why |
|---|---|---|
| `LinkedAsDeclared` | `Linking_paths.cfg` with that invariant, `Designs <- OddOnes` | a name of the `TYPE_CHECKING` imports of the class that is linked hides the one of the module where the relation was written (`linker/linker.py:209`) |
| `LinkedAsDeclared` | the same, `Designs <- BackwardsOnes` | a to-many that names another to-many as its foreign key is linked or refused by the order of the classes (`linker/linker.py:327`) |
| `FamilyTableHasTheKeys` | the same with that invariant, `Designs <- KeyedOnes` | columns, indexes and checks of a polymorphic child are lifted to the base, its foreign keys are not (`linker/linker.py:462`) |
| `NumberedInOrder` | `Reports.cfg`, that invariant | a record is numbered by the length of a list it is appended to later (`debug/collector.py:59`) |
| `ShippedWasThere` | `Orders.cfg`, that invariant, `OrderIds = {"a"}`, `Ops = {"ship"}` | two shipments read one level; each row passes its CHECK, and more units leave than there were (`frameworks/shared/usecases/inventory_usecases.py:312` says the CHECK holds it) |
| `EveryOperationInOneOrder` | `Orders.cfg`, that invariant | `reserve_units` is one UPDATE of every row of a warehouse, and a bulk write may carry no ORDER BY (`frameworks/shared/services/inventory_services.py:218`, `selectors/inventory_selectors.py:294`), so it can hold a row that a reservation waits for while it waits for one the reservation holds; `inventory_selectors.py:188` says that every operation takes the rows in the same order. The engine ends one of the two |
| `TakenIsRecorded` | `Orders.cfg`, that invariant | a crash or a refusal between the charge and its record; the code says so (`orders_usecases.py:542`) |
| `ShelfCoversHolds` | `Orders.cfg`, that invariant, `Ops = {"reserve", "receive"}`, `MaxCalls = 3` | two receptions find no row; one makes and fills it, an order reserves the units, and the upsert of the other sets `on_hand` to 0 under what is reserved (`frameworks/shared/usecases/inventory_usecases.py:294`) |
| `NoOversell` without `raced` | `Orders.cfg`, `Ops = {"reserve", "receive"}`, `MaxCalls = 3` | a reception read the row before a reservation and writes it whole after: the hold is lost and its units are promised again (`session/session.py:710`) |
| the same | `Orders.cfg`, `OrderIds = {"a", "b", "c"}`, `Ops = {"reserve", "cancel_order"}`, `MaxCalls = 3` | an order is read without a lock and cancelled twice: it gives back the units of another, and they are promised again (`orders_usecases.py:438`) |
| `HeldIsPromised`, `StatesGoForward` without `raced` | `Orders.cfg` | a form that edits an order that is being reserved: lost updates of lines and totals, and a full-row update that writes an old state back (`orders_usecases.py:321`, `:605`, `session/session.py:710`) |

Of the linker also: a model that the link itself imports is outside the snapshot of
the pass, so the first link refuses and a second works (`linker.py:499`); a
relation inherited from an abstract class of another file with a `TYPE_CHECKING`
annotation is a NameError always; a relation to a polymorphic child resolves to
its base; `fk`, `via` and `to` are not checked to point back. Of reports also: a
statement that is refused and one that a stream runs after its scope closed are not in any
report; the Django adapter does not ask `SnakeDebugConfig` whether it runs in production.

### Hazards that are not in the list of `PROJECT.json`

The list has the forty that matter most. Also real: which error comes out of a
block whose clean-up fails too (`drivers/pool.py:253`, `drivers/asyncpool.py:223`);
a loan used after `close()` (`drivers/pool.py:37`); two tasks that share one session
(`session/asyncsession.py:603`); who may see SQL (`contrib/deliver.py:84`,
`SqlNeedsAWord`, which holds); and `drivers/pool.py:237`, `:333`,
`frameworks/shared/config.py:447`, `session/planning.py:416`,
`session/session.py:164`, `debug/otel/exporter.py:242`, in the tables above.

### Properties no run spends a pair on

They hold where their module's run was checked with them, unless a table above says
otherwise: `TypeOK` of each module, `WorkersBalance`,
`RecordedMeansDone` (`Migration_atomic.cfg` with that invariant, one runner without transactional DDL,
207 states), `HalfWayMeansMissing`, `MarksWhatIsThere`,
`OnlyCommitsPersist`, `TransientIsRetried`, `ExitCloses`, `DecidesOnWhatIsThere`,
`GoesOnOrWaits`, `SqlNeedsAWord`, and `AcquireEnds` of `AsyncPool`. `PendingExact`, `OnePlace`,
`WorkersBalance`, `FinishMeansUpToDate`, `CommitIsDurable`, `StatesGoForward` and
`DecidesOnWhatIsThere` are also proved (Section 5).

## 5. What is proved

TLAPS proves, for every value of the constants that satisfies their named
assumptions:

* `OtelExporterProofs!TypeCorrect`: the types, with who carries a report
  (`Carrying`), which is what makes them inductive.
* `OtelExporterProofs!WorkersBalanced` and `NoReportStranded`, if warnings are not
  errors. The invariant is `BalanceInv`: the threads alive are as many as the
  sentinels queued or about to be, and one more if `_worker` is set; behind each
  report there are more threads alive than sentinels before it. The second part
  is not inductive without `PuttingHasWorker`: a submit inside the Condition has
  seen or started a worker. `Positions...` lemmas count positions of a queue under
  `Append` and `Tail`.
* `OtelExporterProofs!PendingIsExact`, `NeverPostedTwice` and `FlushSettles`
  (`PendingExact`, `OnePlace`, `FlushMeansSettled`), warnings raising or not.
  `BooksInv` places each accepted report at one position of the queue or in one
  worker's hand, and counts: `_pending` is the queued and the held, less the one
  a submit has put and not yet counted; `_failures` is the refused, less those
  whose worker has still to say so. A flush looks while the Condition is free,
  when no submit is between its put and its count.
* `MigrationRunnerProofs!MigrationsAreAtomic` and `MigrationsMoveWhole`
  (`AllOrNothing`, and the refinement of `MigrationLog`) with transactional DDL, for
  any files, any number of runners, crashes, failures and squashes, if `Alone`: nobody rolls
  back, or one process does everything. `PlaceInv` says where a runner is and that
  one transaction at most is open; `WorkInv` what that one holds that the
  committed database does not: the first operations of the file in hand, each
  accepted where it ran, counted once, and at the end the record. A commit is
  then one step of the log, and `ExactInv` is the count between commits.
* `MigrationRunnerProofs!AFinishedDeployIsDone` (`FinishMeansUpToDate`) under the same
  assumptions and `Nested(Files)`: a squash replaces earlier files, and whatever a
  squash it replaces does (which `squash` preserves, `NestedStep`). `SettledInv`: what a deploy has passed is recorded, or
  replaced by a file of its batch. The last squash that replaces a file is replaced
  by none, so it is recorded.
* `MigrationRunnerProofs!SchemaIsWhatIsRecorded` (`SchemaMatchesRecords` and
  `ReplayMatchesDatabase`) for any files and deploys that race, crash and fail, under
  `Straight`: no squash and no rollback. `StraightInv`: the records are the first n
  numbers and the schema is the replay of the first n files. What the engine
  executes and what the state replays differ on statements an engine refuses, so the proof
  needs that all were accepted (`AcceptedIsReplayed`). These are inductions over
  files and operations: a fold is shown to be a chain of its values (`FoldChain`) by
  counting up a set of numbers (`LeastOf`, `Climb`), which needs no induction
  theorem with an operator for a parameter.
* `MigrationRunnerProofs!SquashingKeepsTheSchema`, the same two with squashes, any
  number of them at any moment of any number of deploys that crash and fail. It
  assumes that nobody rolls back, that a squash replaces every file there was,
  earlier squashes included (`SquashesAreWhole`), and that the first operation of the
  first file creates a table that stays (`FirstTableStays`); `GrowingFiles`, the run's
  history, is one such. `InOrderOrSquashed(n, S)`: the records are the first n of the
  original files and the squashes S, and where S is not empty n is 0 or all of them
  and the schema is the finished one. `ChosenInv` ties it to what a deploy chose to
  run from what it read earlier. A squash is one CREATE TABLE per table of the finished schema:
  on an empty database it builds that schema (`CreatesBuild`), in a replay that has
  built it it changes nothing (`CreatesAgain`), and on a database some other deploy
  has begun it is refused (`CreatesClash`). That refusal is what keeps a deploy that read an
  old record from running it, and why the first table has to stay:
  Section 4 has the history without one, where `SchemaMatchesRecords` fails, and
  the squash of a part, where `ReplayMatchesDatabase` does.
* `MigrationRunnerProofs!RollingBackGivesBack`, the same two with rollbacks, for one
  process, no squash, and drops that name the columns their table has
  (`DropsNameTheirTable`): applied, undone and applied again in any order, with
  crashes and failures between. `LastOf` says that the file a rollback has in hand is the last
  recorded one, which two processes can break. `RewoundInv` adds to the records in order that
  each recorded file went through with every statement accepted, and for such
  a file the opposite statements in the opposite order give back the schema it found
  (`UndoneUndoes` for one, `BackAgain` for all).
* `PoolProofs!LoansAreExclusive` and `LoansComeBack`: `Exclusive` and
  `NothingLeaks` for any number of threads and connections, any sizes and options.
  The invariant (`Inv`) says each connection is free once, counted as lent, or
  neither, and that a held one is counted and held once. `LoansAreClean` is the
  refinement of `PoolLender`: with `WorkInv`, that uncommitted work is on an open
  connection some thread uses or is rolling back, no step lends a connection that
  has any. `OldConnectionsAreNotLent` (`RecycledOnTime`) rests on `AgeInv`: what was
  first lent a lifetime ago is known to be old until it is thrown away.
* `AsyncPoolProofs!LoansAreClean`: `Spec => LendsCleanConnections`, the refinement
  of `PoolLender`, if no task is cancelled in its rollback. `PlaceInv` says each
  connection is free once, had by one task, or neither; `CleanInv` that
  uncommitted work is on a connection some task has lent or is rolling back.
  Closing is the lender's TakeBack, the rollback its EndWork. `TheCountIsExact`
  and `AgesAreTheirOwn` (`LiveCountsTheOpen`, `AgeIsItsOwn`) hold if no task is
  cancelled in its ping; the latter needs `AgeInv`: a stamp says "old" of no
  connection but one that is, an overdue connection is stamped so or on its way
  out, and an address with nobody at it has no stamp. The assumptions are the
  ones the run makes, and Section 4 shows what happens without them.
* `SessionProofs!TheTransactionIsBelieved` and `AReturnIsWhole`
  (`TransactionIsBelieved`, `ReturnIsWhole`) for any nesting, writes, attempts and
  refusals, if SQLite does not refuse the COMMIT of `__exit__`
  (`"sqlite" \notin Late`; `Session_exit.cfg` shows what happens otherwise). The
  engine finds a savepoint by its name, the newest of that name, so `Inv` says
  that names grow inward and never pass `depth` (`NamesGrow`), that the newest
  savepoint of each block's name is that block's own, in the order of the blocks
  (`BlocksHaveMarks`), and for SQLite that `_in_tx` tells the truth. It says so
  while no exception but one that blocks catch is on its way out (`Calm`): after
  any other the unit of work is rolled back whole.
* `AsyncSessionProofs!EveryUnitIsWhole`, `TheTaskKnowsItsTransaction` and
  `ACommitStays` (`UnitsAreWhole`, `TransactionIsBelieved`, `CommitIsDurable`) for
  any units, nested blocks, writes and cancellations, under `Allowed`: the rollback
  of the session is not cancelled, no timeout is caught around a block, the engine
  ends no transaction by itself. Section 4 shows that each of the three is needed. A
  cancelled call goes on in its thread, so `Inv` says where it may land: the one thread is
  at nothing, at what is awaited, or at a work older than the last
  cancellation (`InLine`), and such a work can only be one that the task may still have,
  that the next ROLLBACK undoes, or the COMMIT of a unit whose end nobody was told
  (`Outlived`). The transaction's rows lie between what the task knows it wrote
  and what it may have written, block by block (`Belief`), and what an ended unit
  left in the transaction is within what it promised (`Leftovers`).
* `OrdersProofs!NothingOversold`: `NoOversell` for any number of requests, orders,
  products and calls. Its first half, that what is reserved is on the shelf whatever
  races, is `HoldsFit` of the invariant `IInv`. It rests on `LocksHold`, that what
  a request read of a row it has locked is what the row still is, and that is what
  an induction needs: the rows are decided on in one statement and written in
  another. Its second half, that what the reserved orders ask together is on the
  shelf, follows from the first and `HeldIsPromised`, and so has its conditions.
* `OrdersProofs!HeldForSomebody`, `MovementsExplainTheShelf`, `SettledOrdersArePaid`
  and `OrdersGoForward` (`HeldIsPromised`, `BookExplainsShelf`, `SettledIsPaid`,
  `StatesGoForward`). Their invariant is `DeskInv`: while nothing raced, what a
  request read of its order is what the order still is (`Still`), and no two
  requests at work are ones that clash (`Apart`). What is reserved is a sum over
  the orders (`Promised`, a fold of the community modules), and that one order's change moves the sum by that order's part is
  proved by a least counterexample among the sets of orders, under
  `OrdersAssumption` that there are finitely many.
* `OrdersProofs!NobodyWaitsInACircle` (`NoDeadlock`) for any number of requests,
  rows and calls, bulk reservations apart. `Queued` says that each lock is on a row that its
  holder's statement has taken, so an ended request has none; of requests that
  all wait for one another, one that holds an order's row waits for nothing and
  one that holds a line's waits for the order's, so each waits for a row of the stock;
  the holder of the greatest such row then waits for a greater one.
* `RequestProofs!CeilingHolds`: `WithinTheCeiling` for any chains, databases and
  ceiling that leaves room for one parent (`RoomAssumption`). Its lemmas bound the
  keys a batch names by the parents it has, and a division by its product.
* `RequestProofs!ParentsAreAnswered` (`EveryParentIsAnswered`) for any chains, tables,
  ceiling and writes of others, when no two chains begin with the same relation
  (`AskedOnce`) and no filter is put on a bridge (`BridgesAreWhole`): without the first a
  list is replaced, and without the second the answer has more than the filter
  lets through, as section 4 shows. `MCApplication` assumes both, so that TLC evaluates them on the chains of
  the run. The code keeps no note of who loaded an object, so
  `LoadInv` says that there is one: a place for every instance, the chain and the
  level that loaded it, such that what an instance was given by a hop has the
  place of that hop (`Places`), every level that is done has answered the
  instances of the place above it, and of this level all but `todo` are
  (`Answers`), and `todo` and `next` are of those places (`Queues`). A batch answers
  its own parents (`BatchAnswers`) and takes nothing from who was answered before
  (`StaysAnswered`), because one level alone loads a relation into instances of
  a place (`OneLevelLoads`). `RowsAssumption` says that tables are finite and NULL is no
  key. What is reached along a chain is a recursive function, shown to exist by
  climbing from its first value (`ReachedByLevel`).
* `RequestProofs!WritesReachTheirRows`, `CallsLeaveTheRows` and `RowsFit`
  (`OwnRow`, `ObjectsAreTheirRows`, `LimitsHold`) for any objects, keys, chunk sizes
  and handlers, and rows without a bound. The first needs `Coherent`: of all the
  ids that the committed rows, this transaction's rows and the objects name, no
  insertion has two, and no id stands for two insertions unless the engine is
  SQLite; a counter that only grows is what keeps it so through rollbacks and
  other writers. The second needs it too (an object with no id names no row) and
  `InBatch`, what holds between two statements of an `add_all`: the objects
  inserted so far say what this transaction's rows say, and the rest still fits. An INSERT
  of many is a fold, taken as a chain of INSERTs of one (`InsertChain`), each
  of which leaves the rows before it alone (`InsertedAll`). They are theorems of
  `WritesSpec`; the run checks the same module as the writing phase of `Application`.
* `RequestProofs!TokensAnswer` (`TokenShowsItsReport`) for any workers, requests and
  capacity. `BufferInv` says that the buffer holds the last of the tokens ever
  stored (`LastStored`), each stored once, that it has lost none while it held less
  than it may (`LosesOnlyWhenFull`), and that who trims it holds its lock; a token that is
  gone is then at least a buffer's length from the last. `ServeInv` is what keeps
  a token from being stored twice: a request has one worker.
* `RequestProofs!ReportsAreTheirOwn` (`ReportIsItsOwn`) for any workers, helpers and
  statements. `ScopeInv` says that in every task the ContextVar is the scope its
  program is in, and that a worker's tokens lead back out of its blocks
  (`BlocksNest`); `CaptureInv` that a collector has what ended in its scope, in
  that order, and that a record or a stream that is open knows the scope it ran in.
  `NamesAssumption` says that nobody and no scope are not names of anything.

Only model-checked: every liveness property (the prover has neither fairness nor
ENABLED), and the `Schema...` modules. Nothing is shown of `SchemaMatchesRecords` and
`ReplayMatchesDatabase` for squashes of a part of the history, for rollbacks that race other
processes, or for both at once: they fail, and Section 4 has how. The library's induction theorems take an
operator as a parameter, which no installed prover instantiates, so an induction over
data has to be made into one over a set of numbers, once for each fold. `Linking` declares a RECURSIVE
operator, and neither it nor `Application` is reached by a module with a theorem.

## 6. Not modelled, and why

Queries and expressions, most of the compiler, dialects, introspection, scaffolding and
DTOs are immutable data turned into text; TLC would compare text with text. The
layout of the debug reports and their HTML is wording. The conversion of an
engine's values to Python's (`session/mapper.py`, `coercion.py`) has a case per
type and no state. `asyncrunner.py`, and the queries and writes of
`asyncsession.py`, have the control of the modules they mirror. `render.py`
writes the text of migration files; `renames.py` asks the author; `planner.py`
prints. Of the linker, routines, triggers and views are left out; of the session,
streams, scalars, projections, routine calls and raw statements. Of the schemas:
MySQL's refusal to drop an index that a key needs, the rollback of a second
CreateSchema, which tables a view reads, and cyclic views. The forms, views,
templates and the other applications of `frameworks/` are glue around
statements.

## 7. Plan

Done, in this order: exporter, migration runner, pools, unit of work; then the
generation of migrations, the order desk, the asynchronous session, the reports,
eager loading, the linker, the writes, and the application that composes the last
three. Next:

1. Two tasks that share one asynchronous session, and streams that outlive it.
2. The routines, triggers and views of the linker; `loader.py` with files that
   are missing or numbered twice.
