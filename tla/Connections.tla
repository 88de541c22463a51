----------------------------- MODULE Connections -----------------------------
(***************************************************************************)
(* How psycopg connections are opened, checked, shared and given back:     *)
(* async_connections with one alias, its wrappers, the pool, the request   *)
(* middleware, _independent_connection() and atemporary_connection(), at   *)
(* the grain of the event loop (a step is what a task does between two     *)
(* awaits that suspend it).  Atomic blocks are SharedWrapper's subject.    *)
(*                                                                         *)
(* async_connections keeps the wrapper of an alias in the context of a     *)
(* task: a task starts with a copy of its parent's context, and what it    *)
(* binds there itself is invisible to the parent.                          *)
(***************************************************************************)
EXTENDS Naturals, Sequences, SequencesExt

CONSTANT
  Scenarios   \* the programs that are run, each a record:
              \*   parents       the task that awaits a task, 0 for a request, a sequence
              \*   kinds         "request": the view, inside close_async_connections;
              \*                 "plain": uses async_connections as it finds it;
              \*                 "independent": inside _independent_connection();
              \*                 "temporary": inside atemporary_connection()
              \*   todo          bound: statements of each task, a sequence
              \*   first         a request looks its wrapper up before it has children
              \*   pooled, size  OPTIONS["pool"] and its max_size
              \*   manual        statements run with autocommit off and are left pending
              \*   checks        CONN_HEALTH_CHECKS
              \*   recycles      bound: calls of aclose_if_unusable_or_obsolete() per wrapper
              \*   lossy         the server may drop connections and refuse new ones
              \*   cancellation  tasks may be cancelled

ASSUME ScenarioAssumption == \A s \in Scenarios :
  /\ s.parents \in Seq(Nat) /\ s.todo \in Seq(Nat)
  /\ Len(s.kinds) = Len(s.parents) /\ Len(s.todo) = Len(s.parents)
  /\ \A t \in DOMAIN s.parents :
       /\ s.parents[t] < t
       /\ s.kinds[t] \in {"request", "plain", "independent", "temporary"}
       /\ s.parents[t] = 0 <=> s.kinds[t] = "request"
  /\ s.size \in Nat \ {0} /\ s.recycles \in Nat
  /\ \A b \in {s.first, s.pooled, s.manual, s.checks, s.lossy, s.cancellation} : b \in BOOLEAN

\* What the code relies on to keep its wrappers to itself: that a task awaits at
\* most one task at a time that works on the wrapper it uses, and, to close them
\* all, that a request has used its connection before it awaits such a task.
Sharing(kind) == kind \in {"plain", "temporary"}
OneUserEach == \A s \in Scenarios : \A t, u \in DOMAIN s.parents :
  s.parents[t] = s.parents[u] /\ Sharing(s.kinds[t]) /\ Sharing(s.kinds[u]) => t = u
LooksUpFirst == \A s \in Scenarios :
  (\E t \in DOMAIN s.parents : s.kinds[t] = "plain") => s.first

VARIABLES
  scenario,  \* never changes
  pc,        \* where each task is
  todo,      \* the statements it may still run
  outcome,   \* how it ended: "abandoned" when a cancellation cut its closing short
  context,   \* the wrapper async_connections finds in its context, None for none
  kept,      \* the wrapper its context manager will put back or close, None for none
  cursor,    \* the psycopg connection it holds a cursor of, or was handed
  wrapper,   \* the fields of each wrapper
  closing,   \* the progress of an aclose() that somebody awaits
  raw,       \* the psycopg connections: the wrapper each was opened for or checked out to;
             \* when it was lost, and when a statement first failed on it, by its epoch
  idle,      \* the connections in the pool
  waiting,   \* the tasks in the pool's queue
  epoch      \* the calls of aclose_if_unusable_or_obsolete() of each wrapper that have ended

tasks == <<pc, todo, outcome, context, kept, cursor>>
pool == <<raw, idle, waiting>>
vars == <<scenario, tasks, wrapper, closing, pool, epoch>>

None == 0
Tasks == Len(scenario.parents)
Task == 1 .. Tasks
Kind(t) == scenario.kinds[t]
Children(t) == {u \in Task : scenario.parents[u] = t}

\* The wrappers a task creates: on a look-up that finds none, and for itself.
Own(t) == t
Independent(t) == Tasks + t
Wrapper == 1 .. 2 * Tasks
Raw == 1 .. (IF scenario.pooled THEN scenario.size ELSE Tasks + 1)

Fresh == [connection |-> None, health_check_done |-> FALSE, errors_occurred |-> FALSE,
          obsolete |-> FALSE]
Unopened == [out |-> None, alive |-> FALSE, pending |-> FALSE, lost |-> 0, failed |-> 0]

Init ==
  /\ scenario \in Scenarios
  /\ pc = [t \in Task |-> IF Kind(t) = "request" THEN "body" ELSE "unborn"]
  /\ todo = scenario.todo /\ outcome = [t \in Task |-> "none"]
  /\ context = [t \in Task |-> None] /\ kept = [t \in Task |-> None]
  /\ cursor = [t \in Task |-> None]
  /\ wrapper = [w \in Wrapper |-> Fresh] /\ closing = [w \in Wrapper |-> "no"]
  /\ raw = [c \in Raw |-> Unopened] /\ idle = {} /\ waiting = <<>>
  /\ epoch = [w \in Wrapper |-> 0]

Goto(t, label) == pc' = [pc EXCEPT ![t] = label]

-----------------------------------------------------------------------------
(* The pool, and the server behind it.                                     *)

Referenced(c) == \E t \in Task : cursor[t] = c
Unused == {c \in Raw : raw[c].out = None /\ c \notin idle /\ ~Referenced(c)}

\* A new connection: one is as good as another.
New(c) == c \in Unused /\ \A d \in Unused : c <= d

OpenedFor(w) == [out |-> w, alive |-> TRUE, pending |-> FALSE, lost |-> 0, failed |-> 0]
Closed(c) == raw' = [raw EXCEPT ![c].out = None, ![c].alive = FALSE, ![c].pending = FALSE]

\* putconn() hands the connection to the first task that waits.
GiveBack(c) ==
  IF waiting = <<>>
    THEN /\ raw' = [raw EXCEPT ![c].out = None, ![c].pending = FALSE]
         /\ idle' = idle \union {c}
         /\ UNCHANGED <<pc, cursor, waiting>>
    ELSE LET t == Head(waiting) IN
         /\ raw' = [raw EXCEPT ![c].out = context[t], ![c].pending = FALSE]
         /\ cursor' = [cursor EXCEPT ![t] = c] /\ Goto(t, "granted")
         /\ waiting' = Tail(waiting) /\ UNCHANGED idle

-----------------------------------------------------------------------------
(* Leaving the code of a task, by its end or by an exception: what its     *)
(* context manager or the middleware closes.                               *)

\* Mutant of ClosedOnExit: the connections are closed after they were put back.
ClosedOnExitLate(t) ==
  CASE Kind(t) = "request" -> context[t]
    [] Kind(t) = "plain" -> None
    [] OTHER -> kept[t]

ClosedOnExit(t) ==
  CASE Kind(t) = "request" -> context[t]
    [] Kind(t) = "independent" -> Independent(t)
    [] Kind(t) = "temporary" -> kept[t]
    [] Kind(t) = "plain" -> None

Unwind(t, how) ==
  LET w == ClosedOnExit(t) IN
  /\ outcome' = [outcome EXCEPT ![t] = how]
  /\ Goto(t, IF w = None THEN "done" ELSE "closing")
  /\ closing' = IF w = None THEN closing ELSE [closing EXCEPT ![w] = "scheduled"]
  /\ context' = IF Kind(t) = "independent" THEN [context EXCEPT ![t] = kept[t]] ELSE context
  /\ cursor' = [cursor EXCEPT ![t] = None]

Leave(t) ==
  /\ pc[t] = "body"
  /\ \E how \in {"ok", "raised"} : Unwind(t, how)
  /\ UNCHANGED <<todo, kept, wrapper, pool, epoch>>

Drop(w) == wrapper' = [wrapper EXCEPT ![w].connection = None]

\* aclose(): a connection that is executing is closed by the pool, one with a
\* pending transaction is rolled back first, which suspends.
AClose(w) ==
  LET c == wrapper[w].connection
      active == \E t \in Task : pc[t] = "statement" /\ cursor[t] = c
  IN
  /\ closing[w] = "scheduled"
  /\ closing' = [closing EXCEPT ![w] =
       IF c # None /\ scenario.pooled /\ raw[c].pending /\ ~active THEN "rollback" ELSE "no"]
  /\ IF c = None \/ closing'[w] = "rollback"
       THEN UNCHANGED <<pc, cursor, wrapper, pool>>
       ELSE /\ Drop(w)
            /\ IF scenario.pooled /\ ~active
                 THEN GiveBack(c) ELSE Closed(c) /\ UNCHANGED <<pc, cursor, idle, waiting>>
  /\ UNCHANGED <<todo, outcome, context, kept, epoch>>

ARolledBack(w) ==
  /\ closing[w] = "rollback"
  /\ closing' = [closing EXCEPT ![w] = "no"]
  /\ Drop(w) /\ GiveBack(wrapper[w].connection)
  /\ UNCHANGED <<todo, outcome, context, kept, epoch>>

\* _independent_connection() has already put its wrapper out of the context.
Awaited(t) == IF Kind(t) = "independent" THEN Independent(t) ELSE ClosedOnExit(t)

EveryClosed(t) ==
  /\ pc[t] = "closing" /\ closing[Awaited(t)] = "no"
  /\ Goto(t, "done")
  /\ UNCHANGED <<todo, outcome, context, kept, cursor, wrapper, closing, pool, epoch>>

-----------------------------------------------------------------------------
(* acursor(): the health check, aconnect(), and the cursor of the result.  *)

Checkable(w) ==
  ~scenario.pooled /\ scenario.checks /\ w.connection # None /\ ~w.health_check_done

\* aensure_connection() on wrapper w, whose fields are now fields.
Ensure(t, w, fields) ==
  IF fields.connection # None
    THEN /\ wrapper' = [wrapper EXCEPT ![w] = fields]
         /\ cursor' = [cursor EXCEPT ![t] = fields.connection] /\ Goto(t, "statement")
    ELSE /\ wrapper' = [wrapper EXCEPT ![w] = [Fresh EXCEPT !.health_check_done = TRUE]]
         /\ Goto(t, "connecting") /\ UNCHANGED cursor

ACursor(t) ==
  LET w == IF context[t] = None THEN Own(t) ELSE context[t] IN
  /\ pc[t] = "body" /\ todo[t] > 0
  /\ context' = [context EXCEPT ![t] = w]
  /\ IF Checkable(wrapper[w]) THEN Goto(t, "checking") /\ UNCHANGED <<cursor, wrapper>>
                              ELSE Ensure(t, w, wrapper[w])
  /\ UNCHANGED <<todo, outcome, kept, closing, pool, epoch>>

HealthChecked(t) ==
  LET w == context[t]
      c == wrapper[w].connection
      usable == c # None /\ raw[c].alive
  IN
  /\ pc[t] = "checking"
  /\ Ensure(t, w, [wrapper[w] EXCEPT !.connection = IF usable THEN c ELSE None,
                                     !.health_check_done = TRUE])
  /\ IF c # None /\ ~usable THEN Closed(c) ELSE UNCHANGED raw
  /\ UNCHANGED <<todo, outcome, context, kept, closing, idle, waiting, epoch>>

Take(t, c) ==
  /\ wrapper' = [wrapper EXCEPT ![context[t]].connection = c]
  /\ cursor' = [cursor EXCEPT ![t] = c] /\ Goto(t, "statement")

\* pool.getconn(): an idle connection, a new one, or a place in the queue.
GetConn(t) ==
  /\ pc[t] = "connecting" /\ scenario.pooled
  /\ IF idle \union Unused = {}
       THEN /\ waiting' = Append(waiting, t) /\ Goto(t, "waiting")
            /\ UNCHANGED <<cursor, wrapper, raw, idle>>
       ELSE /\ \E c \in Raw :
                 /\ IF idle # {} THEN c \in idle ELSE New(c)
                 /\ raw' = [raw EXCEPT ![c] = OpenedFor(context[t])] /\ idle' = idle \ {c}
                 /\ Take(t, c)
            /\ UNCHANGED waiting
  /\ UNCHANGED <<todo, outcome, context, kept, closing, epoch>>

Granted(t) ==
  /\ pc[t] = "granted"
  /\ Take(t, cursor[t])
  /\ UNCHANGED <<todo, outcome, context, kept, closing, pool, epoch>>

\* Mutant of LeaveQueue: the task keeps its place in the queue.
LeaveQueueStays(t, how) ==
  /\ pc[t] = "waiting" /\ Unwind(t, how)
  /\ UNCHANGED <<todo, kept, wrapper, pool, epoch>>

LeaveQueue(t, how) ==
  /\ pc[t] = "waiting"
  /\ \E i \in DOMAIN waiting : waiting[i] = t /\ waiting' = RemoveAt(waiting, i)
  /\ Unwind(t, how)
  /\ UNCHANGED <<todo, kept, wrapper, raw, idle, epoch>>

\* Mutant of PoolTimeout: getconn() waits for as long as it takes.
PoolTimeoutNever(t) == FALSE

PoolTimeout(t) == LeaveQueue(t, "raised")

\* AsyncConnection.connect(); the wrapper shows the connection before its
\* session is configured.
Dial(t) ==
  /\ pc[t] = "connecting" /\ ~scenario.pooled
  /\ \/ \E c \in Raw :
        /\ New(c)
        /\ raw' = [raw EXCEPT ![c] = OpenedFor(context[t])]
        /\ wrapper' = [wrapper EXCEPT ![context[t]].connection = c]
        /\ Goto(t, "configuring") /\ UNCHANGED <<outcome, context, cursor, closing>>
     \/ scenario.lossy /\ Unwind(t, "raised") /\ UNCHANGED <<wrapper, raw>>
  /\ UNCHANGED <<todo, kept, idle, waiting, epoch>>

Configured(t) ==
  LET c == wrapper[context[t]].connection IN
  /\ pc[t] = "configuring"
  /\ IF c # None /\ raw[c].alive
       THEN /\ cursor' = [cursor EXCEPT ![t] = c] /\ Goto(t, "statement")
            /\ UNCHANGED <<outcome, context, closing, wrapper>>
       ELSE /\ Unwind(t, "raised")
            /\ wrapper' = [wrapper EXCEPT ![context[t]].errors_occurred = c # None]
  /\ UNCHANGED <<todo, kept, pool, epoch>>

\* A statement, or one more fetch from its cursor.
Statement(t) ==
  LET c == cursor[t] IN
  /\ pc[t] = "statement"
  /\ todo' = [todo EXCEPT ![t] = IF @ = 0 THEN 0 ELSE @ - 1]
  /\ IF raw[c].alive
       THEN /\ raw' = [raw EXCEPT ![c].pending = @ \/ scenario.manual]
            /\ \/ Goto(t, "body") /\ cursor' = [cursor EXCEPT ![t] = None]
               \/ todo'[t] > 0 /\ UNCHANGED <<pc, cursor>>
            /\ UNCHANGED <<outcome, context, closing, wrapper>>
       ELSE /\ wrapper' = [wrapper EXCEPT ![context[t]].errors_occurred = TRUE]
            /\ \/ Unwind(t, "raised")
               \/ /\ Goto(t, "body") /\ cursor' = [cursor EXCEPT ![t] = None]
                  /\ UNCHANGED <<outcome, context, closing>>
            /\ raw' = [raw EXCEPT ![c].failed = IF @ = 0 THEN epoch[context[t]] + 1 ELSE @]
  /\ UNCHANGED <<kept, idle, waiting, epoch>>

-----------------------------------------------------------------------------
(* aclose_if_unusable_or_obsolete(), which a program calls between two     *)
(* units of work on a connection it keeps.                                 *)

Recycled(t, w, fields, close) ==
  /\ wrapper' = [wrapper EXCEPT ![w] = [fields EXCEPT !.connection = IF close THEN None ELSE @]]
  /\ IF close THEN Closed(fields.connection) ELSE UNCHANGED raw
  /\ Goto(t, "body") /\ epoch' = [epoch EXCEPT ![w] = @ + 1]

\* Mutant of Recycle: the next cursor does not check the connection.
RecycleTrusts(t) ==
  LET w == context[t] IN
  /\ pc[t] = "body" /\ w # None /\ wrapper[w].connection # None
  /\ ~scenario.pooled /\ epoch[w] < scenario.recycles
  /\ Recycled(t, w, wrapper[w], wrapper[w].obsolete)
  /\ UNCHANGED <<todo, outcome, context, kept, cursor, closing, idle, waiting>>

Recycle(t) ==
  LET w == context[t]
      fields == [wrapper[w] EXCEPT !.health_check_done = FALSE]
      manual == raw[fields.connection].pending
  IN
  /\ pc[t] = "body" /\ w # None /\ wrapper[w].connection # None
  /\ ~scenario.pooled /\ epoch[w] < scenario.recycles
  /\ IF ~manual /\ fields.errors_occurred
       THEN /\ wrapper' = [wrapper EXCEPT ![w] = fields] /\ Goto(t, "recycling")
            /\ UNCHANGED <<raw, epoch>>
       ELSE Recycled(t, w, fields, manual \/ fields.obsolete)
  /\ UNCHANGED <<todo, outcome, context, kept, cursor, closing, idle, waiting>>

RecycleChecked(t) ==
  LET w == context[t]
      c == wrapper[w].connection
  IN
  /\ pc[t] = "recycling"
  /\ IF raw[c].alive
       THEN Recycled(t, w, [wrapper[w] EXCEPT !.errors_occurred = FALSE,
                                              !.health_check_done = TRUE], wrapper[w].obsolete)
       ELSE Recycled(t, w, wrapper[w], TRUE)
  /\ UNCHANGED <<todo, outcome, context, kept, cursor, closing, idle, waiting>>

-----------------------------------------------------------------------------
(* The tasks.                                                              *)

\* A child copies the context of its parent.  _independent_connection() binds
\* a new wrapper; atemporary_connection() notes whether it has to close.
Start(t, seen) ==
  LET found == IF seen = None THEN Own(t) ELSE seen IN
  CASE Kind(t) = "plain" -> [context |-> seen, kept |-> None]
    [] Kind(t) = "independent" -> [context |-> Independent(t), kept |-> found]
    [] Kind(t) = "temporary" ->
         [context |-> found,
          kept |-> IF wrapper[found].connection = None THEN found ELSE None]

Gather(t) ==
  LET born == {u \in Children(t) : pc[u] = "unborn"} IN
  /\ pc[t] = "body" /\ born # {} /\ (scenario.first => context[t] # None)
  /\ pc' = [u \in Task |-> IF u = t THEN "gathering" ELSE IF u \in born THEN "body" ELSE pc[u]]
  /\ context' = [u \in Task |-> IF u \in born THEN Start(u, context[t]).context ELSE context[u]]
  /\ kept' = [u \in Task |-> IF u \in born THEN Start(u, context[t]).kept ELSE kept[u]]
  /\ UNCHANGED <<todo, outcome, cursor, wrapper, closing, pool, epoch>>

Gathered(t) ==
  /\ pc[t] = "gathering" /\ \A u \in Children(t) : pc[u] = "done"
  /\ \/ Goto(t, "body") /\ UNCHANGED <<outcome, context, cursor, closing>>
     \/ /\ \E u \in Children(t) : outcome[u] # "ok"
        /\ Unwind(t, "raised")
  /\ UNCHANGED <<todo, kept, wrapper, pool, epoch>>

\* The closing of a request goes on without it.
CancelledAs(t) ==
  IF Kind(t) # "request" /\ closing[Awaited(t)] # "no" THEN "abandoned" ELSE "cancelled"

\* Mutant of CancelClosing: the middleware awaits close_all() without a shield.
CancelClosingUnshielded(t) ==
  LET w == Awaited(t) IN
  /\ pc[t] = "closing" /\ (Kind(t) = "temporary" => closing[w] = "rollback")
  /\ outcome' = [outcome EXCEPT ![t] = CancelledAs(t)] /\ Goto(t, "done")
  /\ closing' = [closing EXCEPT ![w] = "no"]
  /\ IF closing[w] = "rollback" THEN Drop(w) ELSE UNCHANGED wrapper
  /\ UNCHANGED <<context, cursor, todo, kept, pool, epoch>>

\* The middleware shields its close_all(); the closing of an independent
\* connection is cancelled with its task.
CancelClosing(t) ==
  LET w == Awaited(t) IN
  /\ pc[t] = "closing" /\ (Kind(t) = "temporary" => closing[w] = "rollback")
  /\ outcome' = [outcome EXCEPT ![t] = CancelledAs(t)] /\ Goto(t, "done")
  /\ IF Kind(t) = "request" THEN UNCHANGED <<wrapper, closing>>
       ELSE /\ closing' = [closing EXCEPT ![w] = "no"]
            /\ IF closing[w] = "rollback" THEN Drop(w) ELSE UNCHANGED wrapper
  /\ UNCHANGED <<context, cursor, todo, kept, pool, epoch>>

\* A task may be cancelled more than once, the second time as it closes.
Cancel(t) ==
  /\ scenario.cancellation
  /\ \/ LeaveQueue(t, "cancelled")
     \/ /\ pc[t] \in {"connecting", "configuring", "checking", "recycling", "statement"}
        /\ Unwind(t, "cancelled") /\ UNCHANGED <<todo, kept, wrapper, pool, epoch>>
     \/ CancelClosing(t)

Epoch(w) == IF w = None THEN 0 ELSE epoch[w]

\* The server goes away behind a connection, or CONN_MAX_AGE has passed.
Lose(c) ==
  /\ scenario.lossy /\ raw[c].alive
  /\ raw' = [raw EXCEPT ![c].alive = FALSE, ![c].lost = Epoch(raw[c].out)]
  /\ UNCHANGED <<tasks, wrapper, closing, idle, waiting, epoch>>

Age(w) ==
  /\ epoch[w] < scenario.recycles /\ wrapper[w].connection # None
  /\ wrapper' = [wrapper EXCEPT ![w].obsolete = TRUE]
  /\ UNCHANGED <<tasks, closing, pool, epoch>>

Step(t) ==
  \/ ACursor(t) \/ HealthChecked(t) \/ GetConn(t) \/ Granted(t) \/ PoolTimeout(t)
  \/ Dial(t) \/ Configured(t) \/ Statement(t) \/ Recycle(t) \/ RecycleChecked(t)
  \/ Gather(t) \/ Gathered(t) \/ Leave(t) \/ EveryClosed(t)

Closer(w) == AClose(w) \/ ARolledBack(w)

Next ==
  /\ \/ \E t \in Task : Step(t) \/ Cancel(t)
     \/ \E w \in Wrapper : Closer(w) \/ Age(w)
     \/ \E c \in Raw : Lose(c)
  /\ UNCHANGED scenario

Spec == Init /\ [][Next]_vars

\* The event loop resumes every task whose await has completed, the server
\* answers, and the pool's timeout expires.
AnyTask == UNION {DOMAIN s.parents : s \in Scenarios}
AnyWrapper == UNION {1 .. 2 * Len(s.parents) : s \in Scenarios}
FairSpec ==
  /\ Spec
  /\ \A t \in AnyTask : WF_vars(t \in Task /\ Step(t) /\ UNCHANGED scenario)
  /\ \A w \in AnyWrapper : WF_vars(w \in Wrapper /\ Closer(w) /\ UNCHANGED scenario)

-----------------------------------------------------------------------------
Label == {"unborn", "body", "checking", "connecting", "waiting", "granted", "configuring",
          "statement", "recycling", "gathering", "closing", "done"}

Outcome == {"none", "ok", "raised", "cancelled", "abandoned"}

\* Every variable keeps its kind, an idle connection is checked out to nobody
\* and has no pending transaction, and only waiting tasks queue, once each.
TypeOK ==
  /\ scenario \in Scenarios /\ epoch \in [Wrapper -> 0 .. scenario.recycles]
  /\ pc \in [Task -> Label] /\ outcome \in [Task -> Outcome]
  /\ todo \in [Task -> Nat]
  /\ context \in [Task -> Wrapper \union {None}] /\ kept \in [Task -> Wrapper \union {None}]
  /\ cursor \in [Task -> Raw \union {None}]
  /\ closing \in [Wrapper -> {"no", "scheduled", "rollback"}]
  /\ wrapper \in [Wrapper -> [connection : Raw \union {None}, health_check_done : BOOLEAN,
                              errors_occurred : BOOLEAN, obsolete : BOOLEAN]]
  /\ raw \in [Raw -> [out : Wrapper \union {None}, alive : BOOLEAN, pending : BOOLEAN,
                      lost : Nat, failed : Nat]]
  /\ idle \subseteq {c \in Raw : raw[c].out = None /\ ~raw[c].pending}
  /\ waiting \in Seq(Task) /\ IsInjective(waiting)
  /\ \A t \in Task : pc[t] = "waiting" <=> t \in ToSet(waiting)

Over(t) == pc[t] = "done" \/ (pc[t] = "unborn" /\ pc[scenario.parents[t]] = "done")
Quiet ==
  (\A t \in Task : pc[t] \in {"unborn", "done"}) /\ \A w \in Wrapper : closing[w] = "no"

\* When the requests have ended, cancelled or not, every connection they and
\* the tasks they awaited took is back in the pool or closed, except that an
\* independent or temporary connection is lost when a cancellation arrives while
\* its task awaits the closing, whatever became of the task before.
\* (A connection without a pool that nobody refers to is closed by Python.)
ConnectionsComeBack ==
  Quiet => \A c \in Raw : raw[c].out # None =>
    \/ \E t \in Task :
         /\ outcome[t] = "abandoned" /\ raw[c].out = Awaited(t)
         /\ \A w \in Wrapper : wrapper[w].connection = c => w = Independent(t)
    \/ ~scenario.pooled /\ \A w \in Wrapper : wrapper[w].connection # c

\* A statement runs on the connection that the wrapper of its task holds, and
\* on one no other wrapper holds and the pool does not lend.
StatementsStayHome ==
  \A t \in Task : pc[t] = "statement" =>
    /\ {w \in Wrapper : wrapper[w].connection = cursor[t]} = {context[t]}
    /\ cursor[t] \notin idle

\* No statement is sent on a connection that was already lost when the program
\* last recycled it, if health checks are on, nor on one on which a statement
\* had failed before it.
RecycledConnectionWorks ==
  \A t \in Task :
    LET c == raw[cursor[t]] IN
    pc[t] = "statement" /\ ~c.alive =>
      /\ scenario.checks => c.lost = epoch[context[t]]
      /\ c.failed \in {0, epoch[context[t]] + 1}

\* Every task ends: the pool's timeout breaks the circle in which requests
\* hold the connections that the tasks they await are waiting for.
EveryTaskEnds == \A t \in AnyTask : <>(t \in Task => Over(t))

=============================================================================
