# A TLA+ model of django-async-backend

django-async-backend gives Django asynchronous database connections: an
`async with aatomic()` that works like `django.db.transaction.atomic`, a
PostgreSQL wrapper on psycopg 3, and an asynchronous ORM on top of both.  The
modules here model what makes that hard: transactions nested in one task, one
connection wrapper shared by several tasks that suspend at every `await`,
cancellation, connections that break or that a pool runs out of, statements and
hooks that fail, and methods of the ORM that read and then write while others
do the same.  TLC checks them on small instances.  TLAPS proves, for every value
of the constants, what nested blocks, their savepoints and their hooks promise,
that the code implements nested transactions, that connections are used by their
own tasks only and come back to the pool, that `aget_or_create` returns, what the
delete collector takes and in which order, and that a related manager gives no
foreign key two values.

Paths in this file are relative to `src/django_async_backend/`.

## The system

| Component | State it keeps | Operations | Who calls it |
|---|---|---|---|
| Atomic blocks, `db/transaction.py` | none of its own: `in_atomic_block`, `savepoint_ids`, `atomic_blocks`, `commit_on_exit`, `needs_rollback`, `_task_connection_owner` of the wrapper | `__aenter__`, `__aexit__`, `async_mark_for_rollback_on_error` | the program, every writing method of the ORM |
| Wrapper, `db/backends/base/base.py` | `connection`, `autocommit`, `savepoint_state`, `closed_in_transaction`, `run_on_commit` and its flag, health-check fields | `aconnect`, `aensure_connection`, `acommit`, `arollback`, `aclose`, `asavepoint*`, `aset_autocommit`, `aon_commit`, `arun_and_clear_commit_hooks`, `aclose_if_*` | atomic blocks, cursors, the program |
| PostgreSQL backend, `db/backends/postgresql/` | the pools, one per alias | `aget_new_connection`, `ainit_connection_state`, `_aclose`, `close_pool`, named cursors | the wrapper |
| Cursors, `db/backends/utils.py` | none | `execute`, `executemany`, `callproc`; refuse to run while `needs_rollback` | the SQL compilers, the program |
| Registry, `utils/connection.py`, `db/utils.py`; `middleware.py` | one wrapper per alias and context (an asgiref `Local`) | `__getitem__`, `close_all`, `_independent_connection`; the middleware shields `close_all` from cancellation | everything that names an alias |
| Delete collector, `db/models/deletion.py` | `data`, `dependencies`, `fast_deletes`, `field_updates`, `restricted_objects`, `_pending_collects` | `acollect`, `_drain_pending_collects`, `sort`, `adelete` | `Model.adelete`, `QuerySet.adelete` |
| Querysets, `db/models/query.py` | `_result_cache`, the prefetch caches of instances | `aget_or_create`, `aupdate_or_create`, `abulk_create`, `abulk_update`, `adelete`, `aupdate`, prefetching, iteration | the program |
| Saving, `db/models/base.py` | `pk` and `_state` of an instance | `asave` over the tables of a model and its parents | the program |
| Related managers, `db/models/related_managers.py` | the prefetch cache of an instance | `aset`, `aadd`, `aremove`, `aclear` | the program |
| SQL, `db/models/sql/` | the cursor of an iteration | execution of compiled queries, `cursor_iter` | querysets |

Components interact through two things.  The first is the wrapper: everything
reads and writes its flags directly, and between reading and writing there may
be an `await`, at which another task may run or a `CancelledError` may arrive.
The second is the server's session, whose transaction status and savepoint
stack the wrapper mirrors without ever asking for them.

What has to be right, component by component:

* blocks: a block's work becomes durable together with the outermost block or
  not at all; a failed block takes back its own work and nothing else; outside
  all blocks nothing is left, on the wrapper or on the server;
* hooks: run once, after the commit of the work they were registered with,
  and only then;
* a shared wrapper: a transaction holds the work of one task and of those it
  waits for; tasks that are cancelled or refused leave it usable; nobody waits
  forever;
* connections: none leaked, none used that was given back, none used
  half initialised;
* the collector: terminates, and deletes a row after every row that refers to
  it, or deletes nothing;
* the ORM's read-then-write methods: with another task changing the same rows
  between the two, the result is one a serial execution could have had, or an
  error;
* instances: what they say about being saved agrees with the database once the
  transaction has ended.

## Modules

| Module | Models | Role |
|---|---|---|
| `PostgresSession` | psycopg's `AsyncConnection` and the session behind it (external) | transaction status, savepoints, pending and durable effects |
| `AsyncAtomic` | `db/transaction.py`, the transaction half of `db/backends/base/base.py` | one wrapper, one task |
| `NestedTransaction` | nothing in the code | what nested blocks promise; `AsyncAtomic` implements it |
| `AsyncAtomicProofs` | | theorems about `AsyncAtomic`: types, what is left outside blocks, the program's own transactions, both savepoint stacks, hooks run once |
| `AsyncAtomicHooks` | | for a program that leaves transactions to blocks: what each savepoint holds, that a clean exit commits, hooks and their work; the refinement of `NestedTransaction` |
| `SharedWrapper` | the same code, cut at its awaits | one wrapper, several tasks, cancellation |
| `SharedWrapperProofs` | | theorems about `SharedWrapper`: types and calls; whose a transaction is, and what is left behind |
| `Connections` | the rest of `db/backends/base/base.py`, `db/backends/postgresql/async_base.py`, `utils/connection.py`, `db/utils.py`, `middleware.py` | wrappers, contexts of tasks, connections and the pool |
| `ConnectionsProofs` | | theorems about `Connections`: types, whose a connection is, which ones still work, that they come back |
| `Collector` | `db/models/deletion.py` | one call of `adelete`, from the objects to the COMMIT |
| `CollectorProofs` | | theorem about `Collector`: no reference is left behind |
| `CollectorClosure` | | that it takes what has to go or nothing, in which order, and what it refuses; its types |
| `RelatedManagers` | `db/models/related_managers.py`, prefetching into one instance | several tasks on one relation |
| `RelatedManagersProofs` | | theorems about `RelatedManagers`: foreign keys with one value, and what is prefetched |
| `Writes` | the writing methods of `db/models/query.py` and `db/models/base.py` | several tasks on one table |
| `WritesProofs` | | theorems about `Writes`: types, and when `aget_or_create` returns |
| `Prefetch` | `_afetch_all` and `prefetch_related_objects` of `db/models/query.py`, the execution of a query in `db/models/sql/compiler.py` | evaluations of one queryset |
| `MC...` | | constants for TLC, one module for each module above that is run |

`SharedWrapper` and `Connections` divide the wrapper between them: the first has
one wrapper, its connection and its transactions, the second many wrappers,
their connections, and of a transaction only whether something is pending.
`RelatedManagers`, `Writes` and `Collector` assume what those two and
`AsyncAtomic` establish, that a block is a transaction.

**PostgresSession.**  `tx` is the status libpq reports.  `marks` is the server's
savepoint stack, and `frames` holds one set of pending effects more than there
are savepoints.  Registering a hook leaves a mark in the top frame, as a row
would; "the hook's transaction committed" is then a fact of the server.  What
is assumed of psycopg and PostgreSQL: `commit()` and `rollback()` outside a
transaction do not reach the server; COMMIT of an aborted transaction is
answered with ROLLBACK and raises nothing; a connection whose server is gone
is noticed at the next statement (`"lost"`), after which it is known to be
unusable (`"dead"`).

**AsyncAtomic.**  One action per handler and way through it.  A task that is
alone on its wrapper runs a handler to its end, so a handler is one step and
its awaits are choices: accepted, refused, connection gone.  Variables carry
the names of the attributes.  `open` is a history variable: the blocks as the
program sees them, the effects done in each and whether something failed.
The constant `Events` names what may happen besides the normal course:

| Event | In the code |
|---|---|
| `marked` | a statement inside `async_mark_for_rollback_on_error` fails |
| `unmarked` | a statement outside it fails (a query, a raw cursor) and the program may go on |
| `refused` | the server refuses a COMMIT (a deferred constraint) or a connection |
| `lost` | the server goes away |
| `hook` | a hook that is not robust raises |
| `close` | the program calls `aclose()` inside or outside a block |
| `manual` | the program calls `aset_autocommit`, `acommit`, `arollback` itself |

**SharedWrapper.**  The grain is the event loop's: `running` names the task that
holds it, and another task runs, or a cancellation arrives, only where an
`await` really suspends: opening a connection, a command on its way to the
server, and the lock of the psycopg connection while somebody else holds it.
`set_autocommit()` and a `commit()` or `rollback()` with no transaction begun
take a free lock without suspending.  `pc` holds for each flow (one
`async with aatomic()` with its hook and its statements, or one bare
statement) the next line of the handler it is in.  `Scenarios` is a set of
programs: which task executes which flow, which flow awaits which, how much it
writes, and whether the wrapper is connected; the initial state chooses one.
`raw` keeps every psycopg connection ever opened with its own transaction, so
that a connection which two racing tasks open and overwrite is not forgotten by
the model: the rows written in it, its savepoints, each with the rows it was
made after, and the flows whose calls wait for its lock.
Cancellation is either of a task, and ends all its blocks, or a timeout,
after which the enclosing block may go on.  A command cancelled while it waits
for the lock was never sent; one cancelled on the server takes effect or fails.
`aconnect()` ends with a COMMIT of its own if the wrapper is not in autocommit
mode by then (`Settled`), which takes two tasks that connect at once: it commits
the transaction the other has begun.

**Collector.**  `CASCADE`, `SET_NULL`, `PROTECT` and `RESTRICT` are Django's and
synchronous; they cannot query, so `CASCADE` queues what it is given and
`_drain_pending_collects` follows the queue.  Coroutines therefore await each
other recursively (`acollect`, a drain, `_acollect_related`, a drain, ...), and
an exception at the bottom unwinds all but the first.  `stack` holds them with
what each has still to do; one action per way through the loop over the
relations, per step of a drain, per model that `sort()` takes (`SortTake`; `Sort`
when it is over), and per phase of `adelete`.  The order of the
relations is left open.  `refs` are the foreign keys as the database holds
them; `before` remembers them.  `Doomed`, the rows that have to go, is the least set
that holds the given rows and is closed under the keys that cascade: it is
defined from `before` alone, without queue, stack or fast deletes, and the
code's plan is compared with it.  `MaxStack` stands for Python's recursion limit.

**Connections.**  `async_connections` keeps the wrapper of an alias in the
context of a task (an asgiref `Local`): a task starts with a copy of its
parent's context, and what it binds itself is invisible to the parent.
`context` and `kept` say which wrapper a task finds and which one its context
manager will close or put back; `wrapper` has the fields, `raw` every psycopg
connection with the wrapper it is checked out to, `idle` and `waiting` are the
pool.  There are four kinds of tasks: a request inside
`close_async_connections`, a plain child, one inside `_independent_connection()`
and one inside `atemporary_connection()`.  The grain is that of
`SharedWrapper`; `aclose()` is a process of its own (`closing`), as the
middleware shields it and as its rollback suspends.  The pool, external, lends
an idle connection, opens one below its size, or puts the task in its queue;
`putconn()` hands the connection to the first in the queue, and the wait ends
by `PoolTimeout`.  The server may go away behind a connection (`Lose`) and
`CONN_MAX_AGE` may pass (`Age`).  `epoch` counts the calls of
`aclose_if_unusable_or_obsolete()` on each wrapper and only serves to say what a
connection that was recycled may still be.  Which of several idle connections
the pool lends is left open.  Two predicates on the programs, `OneUserEach` and
`LooksUpFirst`, say what the code relies on to keep its wrappers apart; the
programs of the run satisfy both (`MCConnections` states it), and the theorems
assume them.  A task may be cancelled again while it ends; `outcome` tells one
that ended with a cancellation ("cancelled") from one whose closing of its own
connection was cut short by it ("abandoned").

**RelatedManagers.**  A relation is a set of pairs: rows of a through table, or
foreign keys.  The seven kinds of managers are the ways through the code: a
many-to-many relation by the three plans of `_get_add_plan` (fast insert that
ignores conflicts, with signals, with a through model of the program's), a
symmetrical one, a reverse foreign key with `bulk=True` and `bulk=False`, and
one whose column is not null, which has no `aremove` and no `aclear`.
An operation is turned into stages, one statement each, when it begins; a stage
that reads adds what the later ones do.  `tx` is what a transaction has done
and nobody else sees; a statement at READ COMMITTED waits for rows another
transaction has changed, tasks that wait for each other are a deadlock, and the
server then refuses one of them.  A reader prefetches the relation into one
instance that the writers share, and every operation forgets that cache at the
place where the code does.

**Writes.**  The same grain for the methods of querysets and instances on one
table with a unique key and an automatic primary key.  `asave` is there in its
variants (update then insert, `update_fields` or `force_update`,
`select_on_save`, nothing but a key, a model with a concrete parent), beside
`acreate`, `aget_or_create`, `aupdate_or_create`, `abulk_create` with its three
ways to take a conflict, `abulk_update`, `aupdate` and `adelete` of a queryset
and of an instance.  A row is its primary key and the task that wrote it last,
so that a lost update and a row that was replaced both show.  A method that
opens no transaction commits each statement, unless its caller is in a block.

**Prefetch.**  Instances that came from one query are treated alike by the code,
so a list of them is one object.  `calls` are the calls of
`prefetch_related_objects()`, with the lookups still to follow and those done;
`coroutines` the calls of `_process_level()` that a level has gathered.
Lookups are records of a path, whose attributes are relations or what another
lookup stores under a `to_attr`, the attribute they are stored in, and the
queryset they use.  A level's queryset may prefetch itself (`Further`): the one
of a `Prefetch`, or, for a many-to-many relation only, that of the default
manager; for foreign keys `_prefetch_fk_queryset` does not ask the default
manager.  Of a many-to-many relation these lookups come back to the loop
(`Populate`); the queryset of a foreign key is evaluated with them, in a call
inside the call (`Nests`).  What is gathered together takes its first steps, up
to the first `await`, in one go.  Any query may fail, any task be cancelled, and
the queryset be evaluated again.  A cancellation takes the gathered coroutines
along, a failed query does not: its siblings go on as strays (`Stray`), and
what they store is marked in `cache`.

## Runs

| Run | Question | Result |
|---|---|---|
| `atomic_nested` | do nested blocks implement nested transactions, whatever fails? | holds |
| `atomic_hooks` | do all hooks of committed work run, once; does a clean exit commit; can a closed wrapper connect again? | holds |
| `atomic_manual` | are transactions of the program left alone; do the savepoint stacks agree? | holds |
| `shared` | gathered statements and blocks, nested blocks, both cancelled at any await, two tasks on an open connection: do rows share the fate of their block, do transactions and hooks stay apart, is the wrapper as it was, does everybody end, also when two tasks connect at once? | holds |
| `shared_fresh` | two tasks connect at once: is a transaction ever shared? | violated |
| `connections` | do connections come back to the pool, do statements run on the connection of their own wrapper, does a recycled connection work, does everybody end when the pool is exhausted? | holds |
| `collector_walk` | does `adelete` end, delete exactly what has to go or nothing, refuse for the right reason, in an order the foreign keys accept? | holds |
| `related_managers` | do operations keep their promises one after another, is each row explained when they overlap, is the cache forgotten, do deadlocks end? | holds |
| `writes` | is each row what some order of the methods leaves, with the answers they gave? when may `aget_or_create` raise? | holds |
| `writes_inherited` | can an instance of a model with a concrete parent be saved? | violated |
| `prefetch` | do the instances have everything that was asked for, after failures too, while coroutines of the failed evaluation still run; is nothing else queried twice? | holds |
| `prefetch_retry` | do the instances keep it until those coroutines have ended? | violated |

Each run finishes in one to two minutes or less.  Where `CHECK_DEADLOCK FALSE`
is set, tasks come to an end and nothing is left to do; that nobody waits for
ever is then a liveness property (`EveryFlowEnds`, `EveryTaskEnds`,
`EveryOperationEnds`).  `Writes` has a step for the end instead and is checked
for deadlock; `Prefetch` has no waiting but that of a caller for what it calls.

**Bounds of `atomic_*`:** three blocks open at once (outermost, nested, and
nested in a nested one: the first depth at which a savepoint lies between two
others), two savepoints, two or three effects.  Three effects are needed where
hooks of two levels and a row must meet.  Savepoint names are drawn from a
counter, so two savepoints in sequence are enough to confuse an old with a new
one.  `atomic_manual` has depth two, since all events are on.  `durable` only
guards `__aenter__`; the runs that leave it out use `PlainKinds`.

**`shared`:** two statements per block, so that a block can be interrupted after
and before a write; a block of one task that gathers two statements and another
block, with a block after it (five flows, four tasks); nested blocks of one
task and a block after them; two tasks on an open connection; two that race to
connect, with and without a cancellation.  Of the last only the types, with the
queues of the locks, and progress are asked, and the others leave them out
(`Racing`): what goes wrong with their transactions is `shared_fresh`, and the
COMMIT of a task that has just connected may commit the other's rows or
forget its hooks.  No program
gathers other tasks while a nested block is open: their statements would fall
under its savepoint and share its fate, which is what a shared session means,
and `AllOrNothing` then does not hold.

**`connections`:** a request that has queried and awaits a plain and an
independent task on a pool of two; one that may not have queried yet, with a
temporary and an independent connection on a pool of one; two requests that
hold a pool of two while each awaits an independent task, the smallest circle;
and a worker without a pool that recycles its connection twice, on a server
that drops connections, with and without health checks and autocommit.  Tasks
are cancelled at any await in all but the third.  A program may leave work
pending, which makes `aclose()` suspend in a rollback.

**`collector_walk`** starts from every way in which the rows of one family of
models can refer to each other, 395 databases: three nodes of a tree (cascade
to the same model, circles included), an author, two books and what refers to
them (cascade, `SET_NULL`, `PROTECT`, `RESTRICT`, fast deletes), a parent
model, a child model and what refers to the parent, and two models that depend
on each other; and from every set of objects of one model.  The stack has room
for thirteen coroutines: `acollect`, a drain and a coroutine for each of the five
rows that cascade in the largest family, and one drain and coroutine more
(`RoomForChains`), so that only rows that refer to each other in a circle fill it
(`GivesUpOnlyOnCycles`).  Nothing has `DO_NOTHING`, which lets rows dangle on
purpose, and no foreign key of the child model cascades (see below).

**`related_managers`:** two tasks with every pair of operations on one instance,
on the objects of the other from the other end of a symmetrical relation, or
for another instance that takes the same objects; three objects, so that an
operation adds one that is there and one that is not, in statements that can
meet another task's in either order; three relations to begin with.  Any
statement may fail.

**`writes`:** every three of the eleven methods that are about one row, and every
two of the bulk methods about two rows in the same or the opposite order, in
one batch or two, against each other and against the methods of one row inside
and outside a block; from a table with no row, one or both.  Two tasks are
enough for a refused insert, the third deletes in between.

**`prefetch`:** two tasks, one failure, and twelve sets of lookups over four
relations (a foreign key, its reverse, a many-to-many relation and one without
related objects), up to three levels deep, with lookups that go through a
`to_attr`, a default manager behind a many-to-many relation that prefetches, and
querysets of `Prefetch` objects that do, at a relation of each kind and inside
each other.  A constraint keeps the evaluations apart (`OneAtATime`): no task
begins while another one awaits its evaluation, since two evaluations of one
queryset at once promise nothing (see "Disagreements").  It does not hold back
the retry after a failure: the second task may begin while coroutines of the
first still query and store.  `InstancesArePrefetched` speaks of the objects the
second one fetched, and `PrefetchedObjectsStay` excepts what a stray has stored
and what takes its place; that the instances keep those objects until
everybody has ended is what `prefetch_retry` shows to be false.

**Fairness.**  `Collector` assumes that the one task goes on: each await is
answered.  `SharedWrapper` assumes weak fairness of each flow's steps: the event
loop resumes every task whose await has completed, `asyncio.Lock` inside psycopg
hands over in order, and the server answers each command.  `Connections` assumes
the same of each task and each `aclose()`, and that the pool's timeout expires.
`RelatedManagers` assumes that the server answers and runs its deadlock
detector: as long as an operation can go on, one does.  Cancellations, lost
connections and failures are never assumed to happen.

### Disagreements between the code and what is said of it

The three violated runs are listed as findings in `PROJECT.json`, with the
sentence each one contradicts.  More were met while modelling.  With other
constants or without one restriction, the modules show that:

*Blocks and the shared wrapper*

* `HooksOnlyForCommittedWork` with `hook` and `close` in `Events`: a hook that
  raises leaves `run_commit_hooks_on_set_autocommit_on` up; a hook registered in
  a later block whose connection was closed then runs when the wrapper connects
  again;
* `ReconnectIsPossible` with `AUTOCOMMIT = FALSE` and `close`: the exit of a
  closed block leaves `in_atomic_block` and `closed_in_transaction` up, and
  `aensure_connection` refuses to connect for ever;
* `HooksOnlyForCommittedWork` with `Events = {"unmarked"}`: the program catches
  the error of a failed query; COMMIT is answered with ROLLBACK, no error is
  raised, and the hooks run (Django's synchronous `atomic` has the same gap);
* the docstring of `AsyncAtomic` guarantees that a durable block that exits
  without error is committed; a nested block without savepoint that failed
  inside it, with its exception caught, makes it roll back silently;
* `AllOrNothing` with one task, one row per block and `cancellation` "timeout": a
  timeout in a nested block's SAVEPOINT aborts the transaction without marking it, and the
  enclosing block is left normally and rolled back silently;
* `AllOrNothing` with two tasks on an open connection and `savepoint` FALSE: a
  block entered while another task's COMMIT is under way finds
  `in_atomic_block` down and autocommit still off, takes the program to have
  begun the transaction itself, and leaves its work uncommitted
  (`db/transaction.py:140`);
* `TransactionNotShared` with three tasks on an open connection: a block entered
  in the same way has the first task's exit find `in_atomic_block` up, so that
  it ends without restoring autocommit and lowers the flag
  (`db/transaction.py:106`); while the second task awaits its SAVEPOINT a third
  one enters, becomes the owner, and rows of both share one transaction.  With
  two tasks it holds;
* `HooksOnlyAfterCommit` when cancellation is a timeout: a block cancelled
  during ROLLBACK leaves `run_on_commit` as it was, and the next block's commit
  runs the hooks of work that was rolled back (`db/backends/base/base.py:301`).

*Connections* (`ConnectionsComeBack` and `StatementsStayHome` name the
exceptions)

* a plain child that looks the alias up before its parent did binds the wrapper
  in its own context, which the middleware's `close_all` cannot see; so does
  one that outlives the request and connects after `close_all`
  (`middleware.py:26`), or whose sibling failed first, so that the request ended
  while it went on;
* two plain children that connect one wrapper at once each overwrite
  `connection`: the first one never comes back to the pool
  (`db/backends/base/base.py:243`);
* a task cancelled while `_independent_connection` or `atemporary_connection`
  closes (`utils/connection.py:31`) does not give the connection back; one
  cancelled anywhere before, in a statement or while it connects, does;
* `atemporary_connection` closes the wrapper's connection under a sibling that
  was handed a cursor of it (`db/backends/base/base.py:533`).

*Collector*

* rows that refer to each other in a circle end in a `RecursionError`
  (`db/models/deletion.py:158`): a property that the outcome is never
  "recursion" fails in `collector_walk`; Django deletes them;
* without `TagLog`, whose rows keep tags from being fast deleted, a restricted
  row that goes as well is not let go (`db/models/deletion.py:330`): what is
  fast deleted is not in `data`, and the restriction stands;
* with a cascading foreign key of `Shop`, `TheClosureOrNothing` fails: only the
  parents of the objects given to `acollect` are collected, so the parent rows
  of what a cascade leads to stay (Django deletes them).

*Related managers, writes, prefetching*

* rows of overlapping operations are explained one at a time, no more: two
  `aset`s may leave the union of both, a symmetrical `aadd` against a removal a
  row without its mirror, and `aclear(bulk=False)` takes away an object that
  another instance got meanwhile;
* `asave()` in autocommit mode is an UPDATE and an INSERT in two transactions: of
  two saves of one missing row one raises, and `select_on_save` may report an
  update of a row that is gone; `aupdate_or_create` may answer "found" for a row
  that was deleted meanwhile; methods about several rows are explained row by
  row;
* an evaluation at the same time as another replaces the first one's result,
  and `_prefetch_done` may then be set for a result that was not prefetched;
* a query of a prefetch fails, and its siblings in the gather go on
  (`db/models/query.py:1411`): if the queryset is evaluated again meanwhile, they
  replace objects that evaluation has returned, and nobody follows the lookups
  behind the new ones (`prefetch_retry`);
* of two lookups for one relation that differ in queryset or `to_attr` the one
  given last decides alone, and the other is silently ignored
  (`db/models/query.py:1300`): `InstancesArePrefetched` with `Requests <-
  Disagreeing`, one task and no failure.  Django follows both or raises;
* the default manager of a foreign key's model is not asked for a queryset
  (`db/models/query.py:1526`), so what it prefetches or filters is passed over,
  unlike in Django;
* `Prefetch("tags", to_attr="chosen"), "chosen__author"` raises at the first
  evaluation: the two begin with different attributes and are gathered, so that
  `chosen` is looked for before it is stored (Django follows lookups in order);
* the lookups of a foreign key stored under a `to_attr` cannot be followed when
  its level is met again: the relation itself is then queried synchronously
  (`Untraversable`);
* an evaluation after a failed one does not know the default managers' lookups
  of a many-to-many relation that was already stored (as in Django), which
  `Known` spells out.

Read in the code, but not in a module: `abulk_create` marks instances as saved
before the transaction has ended, so that after a rollback a later `asave`
first tries to update; a cached relation is not forgotten by a reverse
manager's `aget_or_create`; `close_pool` awaits the close before it forgets the
pool (`db/backends/postgresql/async_base.py:121`); `RawQuerySet` hands its
instances to Django's synchronous prefetch (`db/models/query.py:1249`);
`aiterator` reads everything before the first row when the backend cannot
fetch in chunks.

## Proofs

Constants carry only the assumptions that their modules name
(`ConstantsAssumption`, `SchemaAssumption` and the like), which type them, plus
what a theorem states after ASSUME.  Every invariant below was checked with TLC
on the constants of a run, and those of `AsyncAtomic` on seven combinations of
`Events`, kinds and bounds, before it was proved; TLC and the prover read the
same definitions.

### `AsyncAtomic`

Two assumptions recur.  `Managed` is a program that leaves transactions to
`aatomic()`: autocommit is on and no event is `manual`; with a transaction of
the program's own around it, a block is a savepoint, and nothing is committed
when it ends.  Leaving events out of `Events` says what must not happen for the
statement to be true; the counterexamples with the event are under
"Disagreements".

| Theorem | Property | Assumed |
|---|---|---|
| `AsyncAtomicProofs!TypeCorrect` | `TypeOK` | |
| `AsyncAtomicProofs!LeavesNothingBehind` | `NothingLeftBehind` | `Managed` |
| `AsyncAtomicProofs!LeavesManualTransactionsAlone` | `ManualTransactionIsLeftAlone` (action) | |
| `AsyncAtomicProofs!SavepointsAgree` | `SavepointsMatchServer` | |
| `AsyncAtomicProofs!HooksRunAtMostOnce` | `HooksRunOnce` | |
| `AsyncAtomicHooks!CleanExitsCommit` | `CleanExitCommits` (action) | `Managed`; no server that vanishes or refuses, no failure unnoticed (`lost`, `refused`, `unmarked`) |
| `AsyncAtomicHooks!HooksRideWithWork` | `PendingHooksRideWithPendingWork` | `Managed` |
| `AsyncAtomicHooks!HooksRunForCommittedWork` | `HooksOnlyForCommittedWork` | `Managed`; no `unmarked`; not both `hook` and `close` |
| `AsyncAtomicHooks!HooksRanForCommittedWork` | `HooksOfCommittedWorkRan` | `Managed`; no `hook`, `lost`, `unmarked` |
| `AsyncAtomicHooks!ReconnectPossible` | `ReconnectIsPossible` | `Managed` |
| `AsyncAtomicHooks!ImplementsNestedTransaction` | `NestedTransactionSpec` (refinement) | `Managed`; no `unmarked`; not both `hook` and `close` |

The inductive invariant is built in layers, each proved with one lemma per
handler and used by the next:

* `TypeOK` is inductive as it stands; its substance is that frames and
  savepoints stay in step and that sids never exceed the counter that issued
  them.  The lemmas under it say what each operation of the session and
  `Front`, `Last` and `EXCEPT` on sequences do.
* `Control` (`Stacks`, `Modes`, `AutocommitIsEmpty`) ties the flags of the
  wrapper to the depth of the blocks.  `Modes` makes an exit find the right kind
  of transaction; `AutocommitIsEmpty` is what `NothingLeftBehind` needs of the
  server.  `Nesting` is the part of it that holds without `Managed`.
* `Sids` and `Match`: sids are issued in increasing order, and what the server
  has as savepoints is what `savepoint_ids` has, in the same order (`InOrder`),
  also while a lost connection has not been noticed.  `ROLLBACK TO` destroys
  the savepoints after its own, so order is needed and not only membership.
* `RunAtMostOnce`: a hook that waits has not run.  `asavepoint_rollback` and
  `arun_and_clear_commit_hooks` both take hooks from the list, and the second
  goes on after an exception.
* `Dooms`: `needs_rollback` says of the innermost block that it can only be
  taken back, and a doomed block dooms those inside it, which have no savepoint.
* `Works`: under a savepoint lies exactly what was done before its block was
  entered, and everything pending is the work of open blocks.  This is why
  rolling back to a savepoint takes back one block and nothing else.
* `Aborted`, `Kept`: a transaction the server has aborted is one the wrapper
  will roll back (this is where `unmarked` is excluded); unless the server goes
  away a connection is dead only because it was closed.
* `HooksInv` (`HooksKnown`, `NothingWaits`, `HooksRide`): a sid is active for a
  hook exactly if the hook was registered after it, so what the wrapper forgets
  on a rollback is what the server takes back.  `NothingLeftOver` says which
  events let a flag or a hook outlive its block, and `EffectsIssued` that no
  effect exists before it is asked for.

For the refinement, `Blocks` maps the ledger `open`, the durable effects and the
hooks to the variables of `NestedTransaction`.  Entering is `Enter`; leaving
the outermost block is `Publish` (also when its COMMIT was not acknowledged) or
`Abandon`; leaving a nested one is `Keep` or `Discard`, which dooms the
enclosing block if there was no savepoint; a failed statement that is marked is
`Doom`; a row or a hook is `Do` inside a block and `DoAlone` outside; connecting,
closing, losing the server and everything refused stutters.

### `SharedWrapper`

| Theorem | Property | Assumed |
|---|---|---|
| `SharedWrapperProofs!TypeCorrect` | `TypeOK` | |
| `SharedWrapperProofs!NobodyJoins` | `TransactionNotShared` | `OneOwner` |
| `SharedWrapperProofs!LeftAsItWas` | `WrapperAtRest` | `OneOwner` |

They hold for any number of tasks, flows and statements, with the wrapper
connected or not, and for every cancellation of either kind.  `OneOwner`: the
flows that no other flow awaits are all of one task; what other tasks do on the
wrapper, they do while that task awaits them in a block.  This is the use that
`__aenter__` means to enforce when it refuses a block to another task; but it
looks before it awaits, so that tasks which begin together are not refused, and
nothing holds a bare statement back.  Without `OneOwner` `TransactionNeverShared` is
false: of two tasks on a fresh wrapper (the run `shared_fresh`), and of three on
an open one.  Two of the programs of the run `shared` satisfy it, which
`MCSharedWrapper` states as an assumption; two tasks that find the connection open
are TLC's.  Under `OneOwner` nobody races, so that `TransactionNotShared` is
`TransactionNeverShared` there.

* `Calls` is inductive for any tasks: the kinds of the variables, who is in which
  queue (`Lines`), that a flow at work has a connection, and that the number a
  flow will give its connection is not in use before (`Linked`).  The last is
  needed because a second `aconnect()` overwrites the first.
* `Stage` says where the flows of a family can be at the same time.  Flows of
  one task follow each other, and a child is at work only while its parent awaits
  it (`InTurn`); therefore there is at most one outermost block and one block in
  it, and the stacks are as deep as that (`Deep`).  In the outermost block the
  wrapper is out of autocommit mode, `in_atomic_block` is up until `__aexit__`
  begins, and every row of the transaction, or kept by a savepoint of it, belongs
  to the block or what it awaits (`Within`); outside it nothing is left (`AtRest`).
  That a cancelled call leaves this true is where the order of the assignments in
  `__aenter__` and `__aexit__` counts: a flow whose `SAVEPOINT` is cancelled has not
  been put on either stack, and one whose `ROLLBACK TO` is, has left both.

### `Connections`

| Theorem | Property | Assumed |
|---|---|---|
| `ConnectionsProofs!TypeCorrect` | `TypeOK` | `OneUserEach` |
| `ConnectionsProofs!NoStatementStrays` | `StatementsStayHome` | `OneUserEach` |
| `ConnectionsProofs!NoStatementOnABrokenConnection` | `RecycledConnectionWorks` | `OneUserEach` |
| `ConnectionsProofs!EveryConnectionComesBack` | `ConnectionsComeBack` | `OneUserEach`, `LooksUpFirst` |

They hold for every tree of tasks of the four kinds, however deep and wide, with
and without a pool of any size, for every number of statements and recyclings,
and for any losses, timeouts and cancellations.  `OneUserEach`: a task awaits at
most one task at a time that works on the wrapper it uses itself; any number of
those in `_independent_connection()` may run beside it.  The wrapper has no lock
between the look at `connection` in `aensure_connection` and the assignment in
`aconnect`, and one flag of each kind, so it cannot be used by two tasks at once;
that is what `_independent_connection()` is there for.  `LooksUpFirst`: a request
has used its alias before it awaits a plain child, since `close_all` in the
middleware sees only what the request's own context holds.  Without either, TLC
finds the statements false (see "Disagreements").

* `Ownership` is the heart.  A child copies the context of its parent, so many
  tasks may find one wrapper in theirs; but of two that hold it, the older one is
  gathering, and awaits the other or one on the way to it (`HeldInTurn`).  The
  task whose context it was created in holds it too (`HeldByCreator`) and is never
  younger (`NeverOlder`): therefore a wrapper that a task creates is new to
  everybody, and whoever is not gathering has its wrapper to itself.  What each
  kind of task keeps to put back or to close is `ByKind`.
* `Closers`: a wrapper is closed only for a task that awaits it, or behind the
  middleware's shield for a request that was cancelled and has ended.  It is
  needed because `aclose()` goes on by itself while its caller may be gone.
* `Holding`: the connection a wrapper holds is checked out to it, and the fields
  at each `await` of `acursor` are those the code found before it (`AtPoint`): a
  task that connects still finds its wrapper without a connection when the answer
  comes, and one that executes still has the wrapper's own.  `TypeOK` is proved
  together with these three (`Core`): that an idle connection is checked out to
  nobody needs that the one given back was its giver's.
* `Reliable`: a connection on which a statement failed is known to its wrapper
  by `errors_occurred` until it is recycled, when it is checked and closed; and
  with health checks on, a wrapper whose `health_check_done` is up holds a
  connection that was alive since the last recycling (`Steady`, `Checked`).
* `Accounted`: every connection that is out of the pool is held by the wrapper it
  is checked out to, or on its way to the task at the head of the queue; and
  every wrapper that holds one is in use by the task that created it, is being
  closed, or was abandoned by a task cancelled while it closed it.  A task that
  uses a wrapper of its own will have it closed (`Lent`); this is where
  `LooksUpFirst` is needed.

### `Writes`

* `WritesProofs!TypeCorrect` and `WritesProofs!GetOrCreateReturnsAlways`, for
  every set of keys, every mix of methods and any number of tasks, without
  further assumption.  `GetOrCreateReturns` says that `aget_or_create`
  and `aupdate_or_create` raise only if a task that deletes was at work at the same time.  It holds because
  the INSERT is refused only for a row that is there, and the second SELECT
  finds it unless somebody took it away.  The invariant is `Shape` (kinds),
  `Behaves` (only methods that delete have a statement that does, in whatever
  they still have to execute and in what their transaction holds) and
  `Explained` (the row that refused the INSERT is still there, or a task that
  deletes overlaps).

### `Collector`

| Theorem | Property | Assumed |
|---|---|---|
| `CollectorClosure!TypeCorrect` | `TypeOK` | |
| `CollectorProofs!PlansLeaveNoReference` | `NoReferenceDangles` | `LeftToTheCollector` |
| `CollectorClosure!DependentsAreDeletedFirst` | `DependentsGoFirst` | `LeftToTheCollector` |
| `CollectorClosure!TakesTheClosureOrNothing` | `TheClosureOrNothing` | `CascadesAreCollected` |
| `CollectorClosure!RefusesForAReason` | `RefusedForAReason` | `CascadesAreCollected`, `NoFastRestriction` |
| `CollectorClosure!GivesUpOnlyInCircles` | `GivesUpOnlyOnCycles` | `CascadesAreCollected`, `RoomForChains` |

They hold for every schema and database, for every set of objects, and whatever
order relations are followed in.  `LeftToTheCollector` says that no key is
`DO_NOTHING`, which leaves rows dangling on purpose, and that a parent row is
that of one child.  The second is needed: a relation that is a child's link to
its parent is left out when the parent is collected
(`get_candidate_relations_to_delete`), so with children of two models in one
parent row the other child would be left behind.  `CascadesAreCollected` adds
that the rows a cascade leads to have no parent row of their own, and
`NoFastRestriction` that no row that restricts is deleted without a look.  Both
are needed, and each is where the code parts from Django (see "Disagreements"):
only the objects given to `acollect` get their parents collected, and a
restricted row is let go if it was collected, not if it was fast deleted.
`RoomForChains` bounds the length of a chain of rows that cascade by Python's
stack: a longer chain ends in `RecursionError` without any circle.  The run `collector_walk` satisfies all of them; `MCCollector` states that as an
assumption, which TLC evaluates.

* The plan is complete.  While `acollect` walks, each reference to a collected
  row is seen to (its row is collected, updated, or fast deleted), restrains the
  deletion, or has still to be followed: by a coroutine that has its relation
  left, by a batch of a drain, or by the queue (`NothingForgotten`).  `Queue`
  says that the queue is filled only while a coroutine is about to drain it;
  without it a batch could be overtaken by the end of the walk.  At the end
  nothing is left to follow (`Complete`), and rows that only restrained are
  known to be collected.
* The execution keeps it.  Rows that are fast deleted have no reference to
  them, by the definition of `can_fast_delete`; after the updates what still
  refers to a collected row is collected (`Execution`); after the last model no
  collected row is left, so that no reference dangles.
* The order.  A key that may not be empty makes the model it refers to depend on
  the model it is in (`InOrder`).  `sort()` is a step for each model it takes
  (`SortTake`), and what it has taken respects the dependencies (`Respected`);
  hence nothing in the list comes before what it waits for (`NoneTooEarly`), and
  what was deleted waited for nothing still in the list (`DoneInOrder`), unless
  models depend on each other in a circle, where `sort()` gives up.
* The closure.  What the walk has collected, queued, has under way or has noted
  has its reason in a row of `Doomed`, and a collected row has its parent with
  it (`Grounded`); so the plan takes nothing that need not go.  `PlansLeaveNoReference`
  asks of each reference to a collected row only that it is seen to;
  `NothingUnanswered` asks that it is answered as its key says, or still to follow.
  When nothing is left to follow, the rows collected and those fast deleted are
  a closed set, hence all of `Doomed`, which is the least one (`DoomedIsLeast`).
  `Verdict` keeps what the end of the walk has decided and from what, and
  `Taking` that the execution takes rows of the plan only, all of them if it ends.
* The depth.  A row met by a coroutine has been reached by a way of rows, each of
  which cascades from the one before, as long as half of the stack below it
  (`Deep`, `Reaches`).  The stack itself does not say so, for a batch is gone from
  its drain when its coroutine is awaited; so the way is carried from step to
  step.  When the stack is full the way has more rows than cascade, one of them is
  met twice (`FS_PigeonHole`), and the way between is a circle (`WayRound`) - one
  step longer where a row stands for its parent.

### `RelatedManagers`

`RelatedManagersProofs!TypeCorrect` (`TypeOK`) and
`RelatedManagersProofs!CacheStaysCurrent` (`CacheIsCurrent`), for any number of
tasks and any operations on one relation, without further assumption.

* The substance of `TypeOK` is that no foreign key gets two values, neither
  committed nor in what a transaction sees.  What a commit writes is what its
  own transaction sees, and another transaction may have written meanwhile; so
  it needs that two transactions never have changed the same row (`Locks`),
  which holds because a statement waits for the rows it needs and changes no
  others (`StatementKeeps`).  `Due` says which statements an operation may
  still have to run: a foreign key is written by its own kinds of statement,
  one value at a time.
* `Current` is what `CacheIsCurrent` needs while tasks are at work: a task that
  is busy has changed nothing and begins by forgetting what is prefetched (or
  by the read of `aset()`, after which it forgets), or it is forgotten already;
  and nobody who is reading will put it back, unless they overlapped.

### Model-checked only

* Liveness (`EveryFlowEnds`, `EveryTaskEnds`, `EveryDeleteEnds`,
  `EveryOperationEnds`): fairness and ENABLED are beyond the prover.
* `EveryRowIsExplained` of `Writes` and `RelatedManagers`, and
  `OperationsCompose`: they quantify over the serial orders of operations and
  fold each of them, again induction over data.
* `AllOrNothing` and `HooksOnlyAfterCommit` of `SharedWrapper`: which rows are in
  the transaction depends on the order in which the flows it awaits were served.
* `Prefetch`: what it promises is stated over levels of lookups that are themselves
  data of the run (see the plan).

## Not modelled

* `_from_testcase` blocks, thread sharing, the debug cursor and the query log:
  they change no state the properties see.
* Hooks that use the wrapper themselves: a hook is an opaque call that returns
  or raises.
* A bare statement that fails in `SharedWrapper`; blocks there fail by
  cancellation and by refusal only, statement failures are `AsyncAtomic`'s.
* `close_pool` and the pool's own workers; several aliases, which behave alike;
  the check of the server's version; the parameters of a connection.
* `acreate`, `aget_or_create` and `aupdate_or_create` of related managers: a
  method of `Writes` followed by `aadd`.
* Signals and what their receivers do; deferred fields, expressions as values
  and `arefresh_from_db`.
* `GenericPrefetch` and instances without a prefetch cache; `values` and
  `values_list`, `aiterator` and named cursors, aggregates and raw queries: one
  query and a loop over its rows.
* Generic foreign keys, batches of long `IN` lists, `SET_DEFAULT`, signals and
  counters of the collector, and other tasks that change rows between its reads
  and its transaction.
* Compiling SQL: text and parameters, without state.  Managers, the app's
  registration and the test helper: delegation.

## Plan

The modules planned are written, and what is proved is under "Proofs".  What is
left to prove, in this order:

1. `PrefetchedObjectsStay` and `TypeOK` of `Prefetch`: what a level stores is
   never replaced by something less.
2. `AllOrNothing` and `HooksOnlyAfterCommit` of `SharedWrapper`, from `Stage`.
