---------------------------- MODULE SharedWrapper ----------------------------
(***************************************************************************)
(* One BaseAsyncDatabaseWrapper shared by several asyncio tasks, at the    *)
(* grain of the event loop: a task runs until an await really suspends it, *)
(* and only there another task runs or a cancellation arrives.             *)
(*                                                                         *)
(* A flow is one execution of                                              *)
(*     async with aatomic(): aon_commit(hook); write; ...; write           *)
(* or, when it is Bare, of one write with no block around it.  TaskOf says *)
(* which task executes it.  A flow with a Parent is awaited after the      *)
(* first write of its parent: inline when both belong to the same task, as *)
(* a task of its own otherwise.  Flows of one task that have the same      *)
(* parent follow each other.                                               *)
(*                                                                         *)
(* What suspends a task: opening a connection, a command on its way to the *)
(* server, and the lock of the psycopg connection while another task uses  *)
(* it.  set_autocommit(), and commit() or rollback() with no transaction   *)
(* begun, do not suspend when the lock is free.                            *)
(***************************************************************************)
EXTENDS Naturals, Sequences, SequencesExt

CONSTANT
  Scenarios   \* the programs that are run, each a record:
              \*   tasks         the task of each flow, a sequence
              \*   parents       the flow that awaits a flow in its block, 0 for none
              \*   bare          the flows that are a statement without a block
              \*   writes        bound: statements in each block
              \*   savepoint     aatomic(savepoint=...)
              \*   connected     the wrapper already holds a connection
              \*   cancellation  "none", "task" (the exception ends the task's blocks) or
              \*                 "timeout" (the parent may go on, as after asyncio.timeout())

ASSUME ScenarioAssumption == \A s \in Scenarios :
  /\ s.tasks \in Seq(Nat) \ {<<>>} /\ s.parents \in Seq(Nat) /\ Len(s.parents) = Len(s.tasks)
  /\ \A f \in DOMAIN s.parents : s.parents[f] # 0 =>
       s.parents[f] < f /\ s.parents[f] \notin s.bare /\ s.parents[s.parents[f]] = 0
  /\ s.bare \subseteq DOMAIN s.tasks /\ s.writes \in Nat \ {0}
  /\ s.savepoint \in BOOLEAN /\ s.connected \in BOOLEAN
  /\ s.cancellation \in {"none", "task", "timeout"}

\* The use that __aenter__ means to enforce: one task has all the blocks, and
\* awaits what other tasks do on its wrapper.
OwnedByOneTask(s) == \A f, g \in DOMAIN s.parents :
  s.parents[f] = 0 /\ s.parents[g] = 0 => s.tasks[f] = s.tasks[g]

OneOwner == \A s \in Scenarios : OwnedByOneTask(s)

VARIABLE scenario   \* never changes

TaskOf == scenario.tasks
Parent == scenario.parents
Bare == scenario.bare
Writes == scenario.writes
Savepoint == scenario.savepoint
Cancellation == scenario.cancellation

Flow == DOMAIN TaskOf
Children(f) == {g \in Flow : Parent[g] = f}
Root(f) == IF Parent[f] = 0 THEN f ELSE Parent[f]
Rows(f) == 1 .. (IF f \in Bare THEN 1 ELSE Writes)
None == 0

\* Each flow opens at most one connection; one more is there from the start.
Raw == 1 .. Len(TaskOf) + 1

\* "settle" is the COMMIT of aconnect(), "commit" that of a block.
Command == {"configure", "settle", "off", "savepoint", "row", "release", "rollback_to", "tidy",
            "commit", "rollback", "on"}
Commits == {"settle", "commit"}
Label == Command \union
  {"start", "connecting", "bare", "autocommit", "block", "entered", "hook", "body", "children",
   "exit", "finally", "done"}

VARIABLES
  running,   \* the flow whose task holds the event loop, None between two steps
  pc,        \* where each flow is
  at,        \* the psycopg connection its pending call was made on, None without one
  sid,       \* the local of __aexit__
  leaving,   \* how the flow's block is being left: "ok", "raised" or "cancelled"
  outcome,   \* how the flow ended, as the program sees it
  wrote,     \* how many statements the program saw succeed
  connection, autocommit, in_atomic_block, _task_connection_owner, savepoint_ids,
  atomic_blocks, commit_on_exit, needs_rollback, run_on_commit,
  run_commit_hooks_on_set_autocommit_on,
  raw,       \* every psycopg connection and the server's side of it
  committed, \* the durable rows, as <<flow, number>>
  fired      \* the flows whose hook ran

flags == <<in_atomic_block, commit_on_exit, needs_rollback>>
stack == <<savepoint_ids, atomic_blocks>>
hooks == <<run_on_commit, run_commit_hooks_on_set_autocommit_on, fired>>
wrapper == <<connection, autocommit, _task_connection_owner, flags, stack, hooks>>
server == <<raw, committed>>
program == <<sid, leaving, outcome, wrote>>
vars == <<scenario, running, pc, at, program, wrapper, server>>

\* psycopg opens a connection with autocommit off.
Opened(on) == [autocommit |-> on, tx |-> "idle", rows |-> {}, saved |-> <<>>,
                queue |-> <<>>]

Init ==
  /\ scenario \in Scenarios
  /\ running = None
  /\ pc = [f \in Flow |-> "start"] /\ at = [f \in Flow |-> None]
  /\ sid = [f \in Flow |-> None] /\ leaving = [f \in Flow |-> "ok"]
  /\ outcome = [f \in Flow |-> "none"] /\ wrote = [f \in Flow |-> 0]
  /\ connection = IF scenario.connected THEN Len(TaskOf) + 1 ELSE None
  /\ autocommit = scenario.connected /\ _task_connection_owner = TaskOf[1]
  /\ in_atomic_block = FALSE /\ commit_on_exit = TRUE /\ needs_rollback = FALSE
  /\ savepoint_ids = <<>> /\ atomic_blocks = <<>>
  /\ run_on_commit = {} /\ run_commit_hooks_on_set_autocommit_on = FALSE /\ fired = {}
  /\ raw = [c \in Raw |-> Opened(scenario.connected)] /\ committed = {}

-----------------------------------------------------------------------------
(* The event loop.                                                         *)

Goto(f, label) == pc' = [pc EXCEPT ![f] = label] /\ running' = f

Suspend(f, label) == pc' = [pc EXCEPT ![f] = label] /\ running' = None

End(f, how) == Suspend(f, "done") /\ outcome' = [outcome EXCEPT ![f] = how]

Here(f, label) == running = f /\ pc[f] = label

LeaveWith(f, how) == leaving' = [leaving EXCEPT ![f] = how]

-----------------------------------------------------------------------------
(* The psycopg connection: commands queue for its lock; rows are those of  *)
(* the transaction as <<flow, n>>, and saved its savepoints, each with the *)
(* rows it was made after.                                                 *)

MarkOf(r, s) == {i \in DOMAIN r.saved : r.saved[i].by = s}

Refuses(r, cmd, s) ==
  \/ cmd \in {"row", "savepoint", "release", "tidy"} /\ r.tx = "inerror"
  \/ cmd = "savepoint" /\ r.autocommit
  \/ cmd \in {"release", "tidy", "rollback_to"} /\ MarkOf(r, s) = {}
  \/ cmd \in {"off", "on"} /\ r.tx # "idle"

Ended(r) == [r EXCEPT !.tx = "idle", !.rows = {}, !.saved = <<>>]

After(r, cmd, f, s) ==
  LET begun == [r EXCEPT !.tx = "intrans"]
      m == CHOOSE i \in MarkOf(r, s) : TRUE
  IN CASE cmd = "row" ->
            IF r.autocommit THEN r ELSE [begun EXCEPT !.rows = @ \union {<<f, wrote[f] + 1>>}]
       [] cmd = "savepoint" ->
            [begun EXCEPT !.saved = Append(@, [by |-> f, rows |-> r.rows])]
       [] cmd \in {"release", "tidy"} -> [begun EXCEPT !.saved = SubSeq(@, 1, m - 1)]
       [] cmd = "rollback_to" ->
            [begun EXCEPT !.rows = r.saved[m].rows, !.saved = SubSeq(@, 1, m)]
       [] cmd \in Commits \union {"rollback"} -> Ended(r)
       [] cmd \in {"off", "on"} -> [r EXCEPT !.autocommit = (cmd = "on")]
       [] cmd = "configure" -> r

AfterError(r, cmd) ==
  IF cmd \in Commits \union {"rollback"} THEN Ended(r)
  ELSE IF cmd \in {"off", "on"} \/ r.autocommit THEN r
  ELSE [r EXCEPT !.tx = "inerror"]

\* COMMIT of an aborted transaction is answered with ROLLBACK and no error.
Published(r, cmd, f) ==
  CASE cmd = "row" /\ r.autocommit -> {<<f, wrote[f] + 1>>}
    [] cmd \in Commits /\ r.tx # "inerror" -> r.rows
    [] OTHER -> {}

\* The call is made on what self.connection is at this moment.
Send(f) ==
  /\ running = f /\ pc[f] \in Command /\ at[f] = None
  /\ at' = [at EXCEPT ![f] = connection]
  /\ raw' = [raw EXCEPT ![connection].queue = Append(@, f)]
  /\ LET r == raw[connection]
         instant == \/ pc[f] \in {"off", "on"}
                    \/ pc[f] \in Commits \union {"rollback"} /\ r.tx = "idle"
     IN running' = IF instant /\ r.queue = <<>> THEN f ELSE None
  /\ UNCHANGED <<pc, program, wrapper, committed>>

Pending(f, cmd) == pc[f] = cmd /\ at[f] # None /\ running \in {None, f}

Answer(f, cmd, ok) ==
  LET r == raw[at[f]] IN
  /\ Pending(f, cmd) /\ Head(r.queue) = f
  /\ ok = ~Refuses(r, cmd, sid[f])
  /\ raw' = [raw EXCEPT ![at[f]] =
               [(IF ok THEN After(r, cmd, f, sid[f]) ELSE AfterError(r, cmd))
                  EXCEPT !.queue = Tail(@)]]
  /\ committed' = IF ok THEN committed \union Published(r, cmd, f) ELSE committed
  /\ at' = [at EXCEPT ![f] = None]

-----------------------------------------------------------------------------
(* __aenter__.                                                             *)

\* A task's flows follow each other; a child starts while its parent awaits it.
Ready(f) ==
  /\ running = None /\ pc[f] = "start"
  /\ Parent[f] # None => pc[Parent[f]] = "children"
  /\ \A g \in Flow : g < f /\ TaskOf[g] = TaskOf[f] /\ Parent[g] = Parent[f] => pc[g] = "done"

\* Mutant of Foreign: the guard against nested tasks is gone.
ForeignNever(f) == FALSE

Foreign(f) == in_atomic_block /\ _task_connection_owner # TaskOf[f]

\* "Using a transaction in a nested task is forbidden."
EnterRefused(f) ==
  /\ Ready(f) /\ f \notin Bare
  /\ Foreign(f)
  /\ End(f, "refused")
  /\ UNCHANGED <<at, sid, leaving, wrote, wrapper, server>>

EnterNested(f) ==
  /\ Ready(f) /\ f \notin Bare
  /\ in_atomic_block /\ ~Foreign(f)
  /\ Goto(f, "block")
  /\ UNCHANGED <<at, program, wrapper, server>>

\* aconnect() up to the await of aget_new_connection().
Connect(f) ==
  /\ in_atomic_block' = FALSE /\ needs_rollback' = FALSE
  /\ savepoint_ids' = <<>> /\ atomic_blocks' = <<>>
  /\ Suspend(f, "connecting")

EnterOutermost(f) ==
  /\ Ready(f) /\ f \notin Bare
  /\ ~in_atomic_block
  /\ _task_connection_owner' = TaskOf[f]
  /\ commit_on_exit' = TRUE
  /\ IF connection = None
       THEN Connect(f)
       ELSE /\ needs_rollback' = FALSE
            /\ UNCHANGED <<in_atomic_block, stack>> /\ Goto(f, "autocommit")
  /\ UNCHANGED <<at, program, connection, autocommit, hooks, server>>

\* acursor() and execute() do not ask which task they run in.
EnterBare(f) ==
  /\ Ready(f) /\ f \in Bare
  /\ IF connection = None
       THEN Connect(f) /\ UNCHANGED commit_on_exit
       ELSE UNCHANGED <<flags, stack>> /\ Goto(f, "bare")
  /\ UNCHANGED <<at, program, connection, autocommit, _task_connection_owner, hooks, server>>

ConnectedLabel(f) == IF f \in Bare THEN "bare" ELSE "autocommit"

RunHooks ==
  /\ fired' = fired \union {k.flow : k \in run_on_commit}
  /\ run_on_commit' = {} /\ run_commit_hooks_on_set_autocommit_on' = FALSE

\* aconnect() resumes: aset_autocommit(True) does not suspend on a connection
\* nobody else knows, and is refused when another task has entered a block.
ConnectionOpened(f) ==
  /\ running = None /\ pc[f] = "connecting"
  /\ connection' = f
  /\ raw' = [raw EXCEPT ![f] = Opened(~in_atomic_block)]
  /\ IF in_atomic_block
       THEN End(f, "error") /\ UNCHANGED <<autocommit, hooks>>
       ELSE /\ autocommit' = TRUE
            /\ UNCHANGED outcome
            /\ \/ Goto(f, "configure")
                  /\ IF run_commit_hooks_on_set_autocommit_on THEN RunHooks ELSE UNCHANGED hooks
               \/ Goto(f, ConnectedLabel(f))
                  /\ IF run_commit_hooks_on_set_autocommit_on THEN RunHooks
                     ELSE run_on_commit' = {}
                          /\ UNCHANGED <<run_commit_hooks_on_set_autocommit_on, fired>>
  /\ UNCHANGED <<at, sid, leaving, wrote, _task_connection_owner, flags, stack, committed>>

\* The session's settings are committed if the wrapper is not in autocommit mode,
\* as when another task has begun a transaction meanwhile.
Configured(f) ==
  /\ Answer(f, "configure", TRUE)
  /\ run_on_commit' = IF autocommit THEN {} ELSE run_on_commit
  /\ Goto(f, IF autocommit THEN ConnectedLabel(f) ELSE "settle")
  /\ UNCHANGED <<program, connection, autocommit, _task_connection_owner, flags, stack,
                 run_commit_hooks_on_set_autocommit_on, fired>>

\* The commit of whatever self.connection is by then.
Settled(f) ==
  /\ Answer(f, "settle", TRUE)
  /\ run_on_commit' = {}
  /\ Goto(f, ConnectedLabel(f))
  /\ UNCHANGED <<program, connection, autocommit, _task_connection_owner, flags, stack,
                 run_commit_hooks_on_set_autocommit_on, fired>>

\* aget_autocommit() has answered; in_atomic_block is read again afterwards.
SeeAutocommit(f) ==
  /\ Here(f, "autocommit")
  /\ IF autocommit
       THEN UNCHANGED flags
       ELSE in_atomic_block' = TRUE /\ commit_on_exit' = FALSE /\ UNCHANGED needs_rollback
  /\ Goto(f, IF in_atomic_block' THEN "block" ELSE "off")
  /\ UNCHANGED <<at, program, connection, autocommit, _task_connection_owner, stack, hooks,
                 server>>

BeginTransaction(f) ==
  /\ \E ok \in BOOLEAN :
       /\ Answer(f, "off", ok)
       /\ IF ok THEN /\ autocommit' = FALSE /\ in_atomic_block' = TRUE
                     /\ Goto(f, "entered") /\ UNCHANGED outcome
                ELSE End(f, "error") /\ UNCHANGED <<autocommit, in_atomic_block>>
  /\ UNCHANGED <<sid, leaving, wrote, connection, _task_connection_owner, commit_on_exit,
                 needs_rollback, stack, hooks>>

\* asavepoint() does nothing in autocommit mode.
EnterBlock(f) ==
  /\ Here(f, "block")
  /\ IF Savepoint /\ ~needs_rollback /\ ~autocommit
       THEN Goto(f, "savepoint") /\ UNCHANGED savepoint_ids
       ELSE Goto(f, "entered") /\ savepoint_ids' = Append(savepoint_ids, None)
  /\ UNCHANGED <<at, program, connection, autocommit, _task_connection_owner, flags,
                 atomic_blocks, hooks, server>>

SavepointCreated(f) ==
  /\ \E ok \in BOOLEAN :
       /\ Answer(f, "savepoint", ok)
       /\ IF ok THEN /\ savepoint_ids' = Append(savepoint_ids, f)
                     /\ Goto(f, "entered") /\ UNCHANGED outcome
                ELSE End(f, "error") /\ UNCHANGED savepoint_ids
  /\ UNCHANGED <<sid, leaving, wrote, connection, autocommit, _task_connection_owner, flags,
                 atomic_blocks, hooks>>

Entered(f) ==
  /\ Here(f, "entered")
  /\ atomic_blocks' = IF in_atomic_block THEN Append(atomic_blocks, f) ELSE atomic_blocks
  /\ Goto(f, "hook")
  /\ UNCHANGED <<at, program, connection, autocommit, _task_connection_owner, flags,
                 savepoint_ids, hooks, server>>

-----------------------------------------------------------------------------
(* The body of the block: one hook, Writes statements, its children.       *)

OnCommit(f) ==
  /\ Here(f, "hook")
  /\ IF in_atomic_block
       THEN /\ run_on_commit' = run_on_commit \union {[flow |-> f, sids |-> ToSet(savepoint_ids)]}
            /\ UNCHANGED <<fired, leaving>> /\ Goto(f, "body")
       ELSE /\ UNCHANGED run_on_commit
            /\ IF autocommit
                 THEN fired' = fired \union {f} /\ UNCHANGED leaving /\ Goto(f, "body")
                 ELSE UNCHANGED fired /\ LeaveWith(f, "raised") /\ Goto(f, "exit")
  /\ UNCHANGED <<at, sid, outcome, wrote, connection, autocommit, _task_connection_owner, flags,
                 stack, run_commit_hooks_on_set_autocommit_on, server>>

AwaitsChildren(f) == wrote[f] = 1 /\ \E g \in Children(f) : pc[g] # "done"

\* validate_no_broken_transaction() raises before a statement is sent.
Body(f) ==
  /\ Here(f, "body")
  /\ \/ AwaitsChildren(f) /\ Suspend(f, "children") /\ UNCHANGED leaving
     \/ /\ ~AwaitsChildren(f) /\ wrote[f] < Writes
        /\ IF needs_rollback THEN LeaveWith(f, "raised") /\ Goto(f, "exit")
                             ELSE UNCHANGED leaving /\ Goto(f, "row")
     \/ /\ ~AwaitsChildren(f) /\ wrote[f] = Writes
        /\ \E how \in {"ok", "raised"} : LeaveWith(f, how)
        /\ Goto(f, "exit")
  /\ UNCHANGED <<at, sid, outcome, wrote, wrapper, server>>

BareStatement(f) ==
  /\ Here(f, "bare")
  /\ IF needs_rollback THEN End(f, "raised") ELSE Goto(f, "row") /\ UNCHANGED outcome
  /\ UNCHANGED <<at, sid, leaving, wrote, wrapper, server>>

RowWritten(f) ==
  /\ \E ok \in BOOLEAN :
       /\ Answer(f, "row", ok)
       /\ wrote' = IF ok THEN [wrote EXCEPT ![f] = @ + 1] ELSE wrote
       /\ IF f \in Bare
            THEN End(f, IF ok THEN "ok" ELSE "raised") /\ UNCHANGED leaving
            ELSE /\ UNCHANGED outcome
                 /\ IF ok THEN UNCHANGED leaving /\ Goto(f, "body")
                          ELSE LeaveWith(f, "raised") /\ Goto(f, "exit")
  /\ UNCHANGED <<sid, wrapper>>

\* The parent passes on the exception of a child, or has caught it.  The
\* cancellation of its own task is passed on, unless a timeout caught it.
ChildrenDone(f) ==
  /\ running = None /\ pc[f] = "children" /\ ~AwaitsChildren(f)
  /\ LET failed == {g \in Children(f) : outcome[g] # "ok"}
         own == {g \in failed : TaskOf[g] = TaskOf[f] /\ outcome[g] = "cancelled"}
     IN \/ /\ own = {} \/ Cancellation = "timeout"
           /\ UNCHANGED leaving /\ Goto(f, "body")
        \/ /\ failed # {}
           /\ LeaveWith(f, IF own # {} THEN "cancelled" ELSE "raised") /\ Goto(f, "exit")
  /\ UNCHANGED <<at, sid, outcome, wrote, wrapper, server>>

-----------------------------------------------------------------------------
(* __aexit__.                                                              *)

\* The savepoint methods do nothing in autocommit mode.
SavepointCall(label) == IF autocommit THEN "finally" ELSE label

\* Mutant of Clean: the exception is not looked at.
CleanUnlessMarked(f) == ~needs_rollback

Clean(f) == leaving[f] = "ok" /\ ~needs_rollback

\* Mutant of OutermostCall: no ROLLBACK is sent.
OutermostCallNoRollback(f) == IF Clean(f) THEN "commit" ELSE "finally"

OutermostCall(f) == IF Clean(f) THEN "commit" ELSE "rollback"

\* atomic_blocks.pop() on an empty list would raise: were it reachable, the flow
\* would be stuck here and EveryFlowEnds would tell.
Exit(f) ==
  /\ Here(f, "exit")
  /\ ~(in_atomic_block /\ atomic_blocks = <<>>)
  /\ LET nested == savepoint_ids # <<>>
         s == IF nested THEN Last(savepoint_ids) ELSE None
         inside == in_atomic_block /\ nested
     IN /\ atomic_blocks' = IF in_atomic_block THEN Front(atomic_blocks) ELSE atomic_blocks
        /\ savepoint_ids' = IF nested THEN Front(savepoint_ids) ELSE savepoint_ids
        /\ in_atomic_block' = inside
        /\ sid' = [sid EXCEPT ![f] = s]
        /\ needs_rollback' = (~Clean(f) /\ inside /\ s = None)
        /\ Goto(f, IF ~inside THEN OutermostCall(f)
                   ELSE IF s = None THEN "finally"
                   ELSE SavepointCall(IF Clean(f) THEN "release" ELSE "rollback_to"))
  /\ UNCHANGED <<at, leaving, outcome, wrote, connection, autocommit, _task_connection_owner,
                 commit_on_exit, hooks, server>>

Released(f) ==
  /\ \E ok \in BOOLEAN :
       /\ Answer(f, "release", ok)
       /\ IF ok THEN UNCHANGED leaving /\ Goto(f, "finally")
                ELSE LeaveWith(f, "raised") /\ Goto(f, SavepointCall("rollback_to"))
  /\ UNCHANGED <<sid, outcome, wrote, wrapper>>

RolledBackTo(f) ==
  /\ \E ok \in BOOLEAN :
       /\ Answer(f, "rollback_to", ok)
       /\ needs_rollback' = (needs_rollback \/ ~ok)
       /\ run_on_commit' = IF ok THEN {k \in run_on_commit : sid[f] \notin k.sids} ELSE run_on_commit
       /\ Goto(f, IF ok THEN SavepointCall("tidy") ELSE "finally")
  /\ UNCHANGED <<program, connection, autocommit, _task_connection_owner, in_atomic_block,
                 commit_on_exit, stack, run_commit_hooks_on_set_autocommit_on, fired>>

Tidied(f) ==
  /\ \E ok \in BOOLEAN :
       Answer(f, "tidy", ok) /\ needs_rollback' = (needs_rollback \/ ~ok)
  /\ Goto(f, "finally")
  /\ UNCHANGED <<program, connection, autocommit, _task_connection_owner, in_atomic_block,
                 commit_on_exit, stack, hooks>>

Committed(f) ==
  /\ Answer(f, "commit", TRUE)
  /\ run_commit_hooks_on_set_autocommit_on' = TRUE
  /\ Goto(f, "finally")
  /\ UNCHANGED <<program, connection, autocommit, _task_connection_owner, flags, stack,
                 run_on_commit, fired>>

\* Mutant of RolledBack: run_on_commit survives the rollback.
RolledBackKeepingHooks(f) ==
  /\ Answer(f, "rollback", TRUE)
  /\ needs_rollback' = FALSE
  /\ Goto(f, "finally")
  /\ UNCHANGED <<program, connection, autocommit, _task_connection_owner, in_atomic_block,
                 commit_on_exit, stack, hooks>>

RolledBack(f) ==
  /\ Answer(f, "rollback", TRUE)
  /\ needs_rollback' = FALSE /\ run_on_commit' = {}
  /\ Goto(f, "finally")
  /\ UNCHANGED <<program, connection, autocommit, _task_connection_owner, in_atomic_block,
                 commit_on_exit, stack, run_commit_hooks_on_set_autocommit_on, fired>>

Finally(f) ==
  /\ Here(f, "finally")
  /\ IF in_atomic_block
       THEN /\ in_atomic_block' = (savepoint_ids # <<>> \/ commit_on_exit)
            /\ End(f, leaving[f])
       ELSE UNCHANGED <<in_atomic_block, outcome>> /\ Goto(f, "on")
  /\ UNCHANGED <<at, sid, leaving, wrote, connection, autocommit, _task_connection_owner,
                 commit_on_exit, needs_rollback, stack, hooks, server>>

\* arun_and_clear_commit_hooks() refuses to run inside a block another task
\* has entered meanwhile.
AutocommitRestored(f) ==
  /\ \E ok \in BOOLEAN :
       /\ Answer(f, "on", ok)
       /\ autocommit' = (autocommit \/ ok)
       /\ IF ok /\ run_commit_hooks_on_set_autocommit_on /\ ~in_atomic_block
            THEN RunHooks ELSE UNCHANGED hooks
       /\ End(f, IF ~ok \/ (run_commit_hooks_on_set_autocommit_on /\ in_atomic_block)
                 THEN "error" ELSE leaving[f])
  /\ UNCHANGED <<sid, leaving, wrote, connection, _task_connection_owner, flags, stack>>

-----------------------------------------------------------------------------
(* A cancellation arrives at an await of the flow.  A call still queued is *)
(* not made; psycopg cancels a running one, which the server may already   *)
(* have carried out.                                                       *)

Cancellable(f) == Cancellation # "none" /\ running = None /\ leaving[f] # "cancelled"

CancelConnecting(f) ==
  /\ Cancellable(f) /\ pc[f] = "connecting"
  /\ End(f, "cancelled")
  /\ UNCHANGED <<at, sid, leaving, wrote, wrapper, server>>

CancelledCall(f) ==
  /\ at' = [at EXCEPT ![f] = None]
  /\ CASE pc[f] \in {"configure", "settle", "off", "savepoint", "on"} \/ f \in Bare ->
            End(f, "cancelled") /\ UNCHANGED leaving
       [] pc[f] = "row" /\ f \notin Bare ->
            LeaveWith(f, "cancelled") /\ Goto(f, "exit") /\ UNCHANGED outcome
       [] OTHER ->
            LeaveWith(f, "cancelled") /\ Goto(f, "finally") /\ UNCHANGED outcome
  /\ UNCHANGED <<sid, wrote, wrapper>>

\* Mutant of CancelQueued: the cancelled waiter keeps its place in the queue.
CancelQueuedStays(f) ==
  /\ Cancellable(f) /\ at[f] # None
  /\ Head(raw[at[f]].queue) # f
  /\ UNCHANGED server
  /\ CancelledCall(f)

CancelQueued(f) ==
  /\ Cancellable(f) /\ at[f] # None
  /\ LET queue == raw[at[f]].queue IN
     /\ Head(queue) # f
     /\ \E i \in DOMAIN queue :
          queue[i] = f /\ raw' = [raw EXCEPT ![at[f]].queue = RemoveAt(queue, i)]
  /\ UNCHANGED committed
  /\ CancelledCall(f)

CancelRunning(f) ==
  /\ Cancellable(f) /\ at[f] # None
  /\ pc[f] \notin {"off", "on"}
  /\ LET r == raw[at[f]]
         idle(q) == [q EXCEPT !.queue = Tail(@)]
     IN /\ Head(r.queue) = f
        /\ \/ /\ ~Refuses(r, pc[f], sid[f])
              /\ raw' = [raw EXCEPT ![at[f]] = idle(After(r, pc[f], f, sid[f]))]
              /\ committed' = committed \union Published(r, pc[f], f)
           \/ /\ raw' = [raw EXCEPT ![at[f]] = idle(AfterError(r, pc[f]))]
              /\ UNCHANGED committed
  /\ CancelledCall(f)

Cancel(f) == CancelConnecting(f) \/ CancelQueued(f) \/ CancelRunning(f)

Step(f) ==
  \/ EnterRefused(f) \/ EnterNested(f) \/ EnterOutermost(f) \/ EnterBare(f)
  \/ ConnectionOpened(f) \/ BareStatement(f)
  \/ Send(f) \/ Configured(f) \/ Settled(f) \/ SeeAutocommit(f) \/ BeginTransaction(f) \/ EnterBlock(f)
  \/ SavepointCreated(f) \/ Entered(f) \/ OnCommit(f) \/ Body(f) \/ RowWritten(f)
  \/ ChildrenDone(f) \/ Exit(f) \/ Released(f) \/ RolledBackTo(f)
  \/ Tidied(f) \/ Committed(f) \/ RolledBack(f) \/ Finally(f) \/ AutocommitRestored(f)

\* Ended, or never started because the block it belongs to has ended.
Over(f) == pc[f] = "done" \/ (pc[f] = "start" /\ Parent[f] # None /\ pc[Parent[f]] = "done")

Next == (\E f \in Flow : Step(f) \/ Cancel(f)) /\ UNCHANGED scenario

AnyFlow == UNION {DOMAIN s.tasks : s \in Scenarios}

Spec == Init /\ [][Next]_vars

\* The event loop resumes every task whose await has completed, the lock is
\* handed over in order, and the server answers.
FairSpec == Spec /\ \A f \in AnyFlow : WF_vars(f \in Flow /\ Step(f) /\ UNCHANGED scenario)

-----------------------------------------------------------------------------
ServerTypeOK ==
  /\ committed \subseteq Flow \X (1 .. Writes)
  /\ raw \in [Raw -> [autocommit : BOOLEAN, tx : {"idle", "intrans", "inerror"},
                      rows : SUBSET (Flow \X (1 .. Writes)),
                      saved : Seq([by : Flow, rows : SUBSET (Flow \X (1 .. Writes))]),
                      queue : Seq(Flow)]]

WrapperTypeOK ==
  /\ connection \in Raw \union {None} /\ autocommit \in BOOLEAN
  /\ _task_connection_owner \in ToSet(TaskOf)
  /\ in_atomic_block \in BOOLEAN /\ commit_on_exit \in BOOLEAN /\ needs_rollback \in BOOLEAN
  /\ savepoint_ids \in Seq(Flow \union {None}) /\ atomic_blocks \in Seq(Flow)
  /\ run_on_commit \subseteq [flow : Flow, sids : SUBSET (Flow \union {None})]
  /\ run_commit_hooks_on_set_autocommit_on \in BOOLEAN /\ fired \subseteq Flow

\* Every variable keeps its kind, and a call waits in the queue of the
\* connection it was made on.
TypeOK ==
  /\ scenario \in Scenarios
  /\ running \in Flow \union {None} /\ pc \in [Flow -> Label] /\ at \in [Flow -> Raw \union {None}]
  /\ sid \in [Flow -> Flow \union {None}] /\ leaving \in [Flow -> {"ok", "raised", "cancelled"}]
  /\ outcome \in [Flow -> {"none", "ok", "raised", "cancelled", "refused", "error"}]
  /\ wrote \in [Flow -> 0 .. Writes]
  /\ WrapperTypeOK /\ ServerTypeOK
  /\ \A f \in Flow, c \in Raw : at[f] = c <=> f \in ToSet(raw[c].queue)

Durable(f) == {n \in Rows(f) : <<f, n>> \in committed}

\* Tasks that do not await each other race to open the connection.  Of transactions
\* and hooks nothing is promised then, and the properties that speak of them leave
\* such programs out; calls are answered and everybody ends in any case.
Racing == ~scenario.connected /\ ~OwnedByOneTask(scenario)

\* The fate of a flow's rows is the outcome its program sees: all of them are
\* durable when it ended without an exception (inside a parent's block: when
\* the parent's are), none when it was refused or ended with an exception.
AllOrNothing ==
  ~Racing => \A f \in Flow : pc[f] = "done" =>
    /\ Durable(f) \in {{}, Rows(f)}
    /\ outcome[f] \in {"refused", "raised", "error"} => Durable(f) = {}
    /\ outcome[f] = "ok" /\ Parent[f] = None => Durable(f) # {}
    /\ outcome[f] = "ok" /\ Parent[f] # None /\ pc[Parent[f]] = "done" =>
         (Durable(f) # {} <=> Durable(Parent[f]) # {})

\* A transaction of the server only ever holds the rows of one outermost flow
\* and of the flows it awaits: what is said of the code,
TransactionNeverShared ==
  \A c \in Raw : \A r, s \in raw[c].rows : Root(r[1]) = Root(s[1])

\* and what is true of it, unless tasks race to open the connection.
TransactionNotShared == ~Racing => TransactionNeverShared

\* A hook runs only when the rows of its block are durable, unless its task was
\* cancelled: arollback() clears run_on_commit only after the server's answer.
HooksOnlyAfterCommit ==
  ~Racing => \A f \in fired : Durable(f) # {} \/ leaving[Root(f)] = "cancelled"

\* When every flow has ended, the wrapper and its connection are as before.
WrapperAtRest ==
  ~Racing /\ (\A f \in Flow : Over(f)) /\ connection # None =>
    /\ ~in_atomic_block /\ savepoint_ids = <<>> /\ atomic_blocks = <<>>
    /\ autocommit /\ raw[connection] = Opened(TRUE)

\* Every flow ends, whatever the others do and whoever is cancelled.
EveryFlowEnds == \A f \in AnyFlow : <>(f \in Flow => Over(f))

=============================================================================
