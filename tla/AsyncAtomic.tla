----------------------------- MODULE AsyncAtomic -----------------------------
(***************************************************************************)
(* AsyncAtomic (db/transaction.py) and the transaction half of             *)
(* BaseAsyncDatabaseWrapper (db/backends/base/base.py): one wrapper used   *)
(* by one task.                                                            *)
(*                                                                         *)
(* A single task runs one handler to its end before it calls the next, so  *)
(* every handler is one action.  What may happen at its awaits is the      *)
(* choice among the action's disjuncts: the server accepts, the server     *)
(* refuses, the connection turns out to be gone.  Handlers of several      *)
(* tasks interleaved at their awaits are another module's subject.         *)
(***************************************************************************)
EXTENDS PostgresSession, FiniteSets

CONSTANTS
  MaxDepth,    \* bound: blocks open at the same time
  MaxSid,      \* bound: savepoints ever created
  MaxEffect,   \* bound: rows written plus hooks registered
  AUTOCOMMIT,  \* settings_dict["AUTOCOMMIT"]
  Pooled,      \* OPTIONS["pool"] is set
  Kinds,       \* the aatomic(savepoint=, durable=) blocks the program uses
  Events       \* what may happen besides entering, leaving, writing, registering

EventKind == {
  "marked",    \* a statement inside async_mark_for_rollback_on_error fails
  "unmarked",  \* a statement outside it fails: a read, a raw cursor
  "refused",   \* the server refuses a COMMIT or a new connection
  "lost",      \* the server goes away
  "hook",      \* a hook that is not robust raises
  "close",     \* the program calls aclose()
  "manual"}    \* the program calls aset_autocommit(), acommit(), arollback()

AtomicBlock == [savepoint : BOOLEAN, durable : BOOLEAN]

ASSUME ConstantsAssumption ==
  /\ MaxDepth \in Nat /\ MaxSid \in Nat /\ MaxEffect \in Nat
  /\ AUTOCOMMIT \in BOOLEAN /\ Pooled \in BOOLEAN
  /\ Kinds \subseteq AtomicBlock
  /\ Events \subseteq EventKind

VARIABLES
  autocommit,             \* the attributes of the wrapper, under their own names
  in_atomic_block,
  savepoint_state,
  savepoint_ids,
  atomic_blocks,
  commit_on_exit,
  needs_rollback,
  closed_in_transaction,
  run_on_commit,
  run_commit_hooks_on_set_autocommit_on,
  issued,                 \* history: how many effects were asked for
  registered,             \* history: which of them are hooks
  fired,                  \* history: how often each hook ran
  open                    \* history: the program's blocks and what it did in each

stack == <<savepoint_ids, atomic_blocks>>
flags == <<in_atomic_block, commit_on_exit, needs_rollback, closed_in_transaction>>
hooks == <<run_on_commit, run_commit_hooks_on_set_autocommit_on, fired>>
counters == <<savepoint_state, issued, registered>>
vars == <<session, autocommit, stack, flags, hooks, counters, open>>

None == 0  \* "the absence of a savepoint" in savepoint_ids
Effect == 1 .. MaxEffect
SidOrNone == 0 .. MaxSid
Hook == [func : Effect, sids : SUBSET SidOrNone, robust : BOOLEAN]
Ledger == [work : SUBSET Effect, doomed : BOOLEAN]

Init ==
  /\ SessionInit
  /\ autocommit = FALSE /\ in_atomic_block = FALSE
  /\ savepoint_state = 0 /\ savepoint_ids = <<>> /\ atomic_blocks = <<>>
  /\ commit_on_exit = TRUE /\ needs_rollback = FALSE /\ closed_in_transaction = FALSE
  /\ run_on_commit = {} /\ run_commit_hooks_on_set_autocommit_on = FALSE
  /\ issued = 0 /\ registered = {} /\ fired = [e \in Effect |-> 0] /\ open = <<>>

-----------------------------------------------------------------------------
(* The program's side: what it did in each of its blocks.                  *)

Own(e) == open' = IF open = <<>> THEN open
                  ELSE [open EXCEPT ![Len(open)].work = @ \union {e}]

DoomTop == open' = IF open = <<>> THEN open
                   ELSE [open EXCEPT ![Len(open)].doomed = TRUE]

\* A block entered while the transaction waits for a rollback waits with it.
OpenBlock == open' = Append(open, [work   |-> {},
                                   doomed |-> open # <<>> /\ Last(open).doomed])

KeepBlock ==
  open' = IF Len(open) = 1 THEN <<>>
          ELSE [Front(open) EXCEPT ![Len(open) - 1].work = @ \union Last(open).work]

DiscardBlock(doomParent) ==
  open' = IF Len(open) = 1 THEN <<>>
          ELSE [Front(open) EXCEPT ![Len(open) - 1].doomed = @ \/ doomParent]

-----------------------------------------------------------------------------
(* arun_and_clear_commit_hooks() on the hooks P, called by                 *)
(* aset_autocommit(True).  Hooks run in the order of registration.  A      *)
(* robust hook's error is logged; any other ends the loop, and the hooks   *)
(* after it are gone while the flag stays up.                              *)

Ran(P) == [h \in Effect |-> IF \E k \in P : k.func = h THEN fired[h] + 1 ELSE fired[h]]

\* Mutant of RunHooks: the list is not cleared before its hooks run.
RunHooksAgain(P) ==
  /\ UNCHANGED run_on_commit
  /\ fired' = Ran(P)
  /\ run_commit_hooks_on_set_autocommit_on' = FALSE

RunHooks(P) ==
  /\ run_on_commit' = {}
  /\ \/ /\ fired' = Ran(P)
        /\ run_commit_hooks_on_set_autocommit_on' = FALSE
     \/ /\ "hook" \in Events
        /\ \E k \in P : ~k.robust /\ fired' = Ran({j \in P : j.func <= k.func})
        /\ run_commit_hooks_on_set_autocommit_on' = TRUE

HooksStay == UNCHANGED hooks

\* The hooks are cleared, then aset_autocommit(True) finds none to run.
ClearHooks ==
  /\ run_on_commit' = {}
  /\ run_commit_hooks_on_set_autocommit_on' = FALSE
  /\ UNCHANGED fired

-----------------------------------------------------------------------------
(* aensure_connection() on a wrapper without a connection: the first await *)
(* of every other handler, and a public method.  aconnect() ends with      *)
(* aset_autocommit(AUTOCOMMIT), which runs what run_on_commit still holds  *)
(* if the flag is up, and only then forgets run_on_commit.                 *)

MayConnect == connection = "none" /\ ~(in_atomic_block /\ closed_in_transaction)

ResetByConnect ==
  /\ in_atomic_block' = FALSE /\ needs_rollback' = FALSE /\ closed_in_transaction' = FALSE
  /\ savepoint_ids' = <<>> /\ atomic_blocks' = <<>>
  /\ UNCHANGED commit_on_exit

Connect ==
  /\ MayConnect
  /\ ResetByConnect
  /\ Connected
  /\ autocommit' = AUTOCOMMIT
  /\ IF AUTOCOMMIT /\ run_commit_hooks_on_set_autocommit_on
       THEN RunHooks(run_on_commit)
       ELSE run_on_commit' = {} /\ UNCHANGED <<run_commit_hooks_on_set_autocommit_on, fired>>
  /\ UNCHANGED <<committed, counters, open>>

ConnectRefused ==
  /\ "refused" \in Events
  /\ MayConnect
  /\ ResetByConnect
  /\ UNCHANGED <<session, autocommit, hooks, counters, open>>

-----------------------------------------------------------------------------
(* AsyncAtomic.__aenter__.  The guard against another task never fires: one *)
(* task owns the wrapper.                                                   *)

MayEnter(b) ==
  /\ Len(open) < MaxDepth
  /\ ~(b.durable /\ atomic_blocks # <<>>)

\* Already in a transaction: managed by an outer block, or by the program
\* itself with autocommit off ("pretend we're already in an atomic block").
Inside == in_atomic_block \/ (~autocommit /\ connection # "none")

PretendAtomic ==
  /\ in_atomic_block' = TRUE
  /\ commit_on_exit' = (in_atomic_block /\ commit_on_exit)
  /\ needs_rollback' = (in_atomic_block /\ needs_rollback)
  /\ UNCHANGED closed_in_transaction

WantsSavepoint(b) == b.savepoint /\ ~(in_atomic_block /\ needs_rollback)

NextSid == savepoint_state + 1

Entered(b, sid) ==
  /\ savepoint_ids' = Append(savepoint_ids, sid)
  /\ atomic_blocks' = Append(atomic_blocks, b)
  /\ OpenBlock

EnterSavepoint(b) ==
  /\ MayEnter(b) /\ Inside /\ WantsSavepoint(b) /\ NextSid <= MaxSid
  /\ Savepoint(NextSid)
  /\ savepoint_state' = NextSid
  /\ PretendAtomic
  /\ Entered(b, NextSid)
  /\ UNCHANGED <<autocommit, hooks, issued, registered>>

\* Mutant of EnterWithoutSavepoint: no None is pushed for the block.
EnterUnrecorded(b) ==
  /\ MayEnter(b) /\ Inside /\ ~WantsSavepoint(b)
  /\ PretendAtomic
  /\ atomic_blocks' = Append(atomic_blocks, b)
  /\ OpenBlock
  /\ UNCHANGED <<session, savepoint_ids, autocommit, hooks, counters>>

EnterWithoutSavepoint(b) ==
  /\ MayEnter(b) /\ Inside /\ ~WantsSavepoint(b)
  /\ PretendAtomic
  /\ Entered(b, None)
  /\ UNCHANGED <<session, autocommit, hooks, counters>>

\* SAVEPOINT fails and __aenter__ raises: the block is not entered.
EnterSavepointFails(b) ==
  /\ MayEnter(b) /\ Inside /\ WantsSavepoint(b) /\ NextSid <= MaxSid
  /\ Fail \/ (tx = "inerror" /\ Reject(autocommit))
  /\ savepoint_state' = NextSid
  /\ PretendAtomic
  /\ UNCHANGED <<autocommit, stack, hooks, issued, registered, open>>

\* aset_autocommit(False); the savepoint_ids of an outermost block stay empty.
EnterTransaction(b) ==
  /\ MayEnter(b) /\ ~in_atomic_block /\ autocommit /\ Quiet
  /\ in_atomic_block' = TRUE /\ commit_on_exit' = TRUE /\ needs_rollback' = FALSE
  /\ autocommit' = FALSE
  /\ atomic_blocks' = Append(atomic_blocks, b)
  /\ OpenBlock
  /\ UNCHANGED <<session, savepoint_ids, closed_in_transaction, hooks, counters>>

\* psycopg refuses to change autocommit on a connection known to be dead.
EnterTransactionFails(b) ==
  /\ MayEnter(b) /\ ~in_atomic_block /\ autocommit /\ connection = "dead"
  /\ commit_on_exit' = TRUE /\ needs_rollback' = FALSE
  /\ UNCHANGED <<session, autocommit, stack, in_atomic_block, closed_in_transaction,
                 hooks, counters, open>>

AEnter(b) ==
  \/ EnterSavepoint(b) \/ EnterWithoutSavepoint(b) \/ EnterSavepointFails(b)
  \/ EnterTransaction(b) \/ EnterTransactionFails(b)

-----------------------------------------------------------------------------
(* AsyncAtomic.__aexit__.  A nested block has an entry in savepoint_ids.   *)

Leave == /\ open # <<>>
         /\ atomic_blocks' = Front(atomic_blocks)
         /\ UNCHANGED counters

Sid == Last(savepoint_ids)

\* "Outermost block exit when autocommit was disabled."
LastManaged == Len(savepoint_ids) = 1 /\ ~commit_on_exit

LeaveNested ==
  /\ Leave
  /\ savepoint_ids # <<>> /\ ~closed_in_transaction
  /\ savepoint_ids' = Front(savepoint_ids)
  /\ in_atomic_block' = ~LastManaged
  /\ UNCHANGED <<autocommit, commit_on_exit, closed_in_transaction>>

LeaveOutermost ==
  /\ Leave
  /\ savepoint_ids = <<>> /\ ~closed_in_transaction
  /\ in_atomic_block' = FALSE
  /\ UNCHANGED <<savepoint_ids, commit_on_exit, closed_in_transaction>>

\* Mutant of ExitClosed: in_atomic_block is not unset prematurely.
ExitClosedStillAtomic ==
  /\ Leave
  /\ closed_in_transaction
  /\ savepoint_ids' = IF savepoint_ids = <<>> THEN <<>> ELSE Front(savepoint_ids)
  /\ IF savepoint_ids = <<>> \/ LastManaged
       THEN Disconnected /\ UNCHANGED committed
       ELSE UNCHANGED session
  /\ DiscardBlock(TRUE)
  /\ UNCHANGED <<autocommit, in_atomic_block, commit_on_exit, needs_rollback,
                 closed_in_transaction, hooks>>

\* The connection was closed inside the block: nothing is sent; the handle is
\* dropped at the outermost exit.
ExitClosed ==
  /\ Leave
  /\ closed_in_transaction
  /\ savepoint_ids' = IF savepoint_ids = <<>> THEN <<>> ELSE Front(savepoint_ids)
  /\ in_atomic_block' = (savepoint_ids # <<>>)
  /\ IF savepoint_ids = <<>> \/ LastManaged
       THEN Disconnected /\ UNCHANGED committed
       ELSE UNCHANGED session
  /\ DiscardBlock(TRUE)
  /\ UNCHANGED <<autocommit, commit_on_exit, needs_rollback, closed_in_transaction, hooks>>

ExitKeep ==
  /\ LeaveNested /\ Sid = None
  /\ KeepBlock
  /\ UNCHANGED <<session, needs_rollback, hooks>>

ExitRelease ==
  /\ LeaveNested /\ Sid # None
  /\ Release(Sid)
  /\ KeepBlock
  /\ UNCHANGED <<needs_rollback, hooks>>

\* Mutants of ForgetHooks: the hooks of the savepoint stay; all hooks go.
ForgetNoHooks(sid) == HooksStay

ForgetAllHooks(sid) ==
  run_on_commit' = {} /\ UNCHANGED <<run_commit_hooks_on_set_autocommit_on, fired>>

\* Remove any callbacks registered while this savepoint was active.
ForgetHooks(sid) ==
  /\ run_on_commit' = {k \in run_on_commit : sid \notin k.sids}
  /\ UNCHANGED <<run_commit_hooks_on_set_autocommit_on, fired>>

\* Mutant of ExitReleaseRefused: no attempt to roll back to the savepoint.
ExitReleaseGivesUp ==
  /\ LeaveNested /\ Sid # None
  /\ tx = "inerror"
  /\ needs_rollback' = TRUE
  /\ DiscardBlock(TRUE)
  /\ HooksStay
  /\ UNCHANGED session

\* RELEASE is refused because a statement failed unnoticed; rolling back to
\* the savepoint works and the error is raised again.
ExitReleaseRefused ==
  /\ LeaveNested /\ Sid # None
  /\ tx = "inerror"
  /\ RollbackTo(Sid)
  /\ ForgetHooks(Sid)
  /\ DiscardBlock(FALSE)
  /\ UNCHANGED needs_rollback

\* Mutant of ExitRollbackTo: needs_rollback is not reset.
ExitRollbackToStillMarked ==
  /\ LeaveNested /\ Sid # None
  /\ RollbackTo(Sid)
  /\ ForgetHooks(Sid)
  /\ DiscardBlock(FALSE)
  /\ UNCHANGED needs_rollback

ExitRollbackTo ==
  /\ LeaveNested /\ Sid # None
  /\ RollbackTo(Sid)
  /\ ForgetHooks(Sid)
  /\ needs_rollback' = FALSE
  /\ DiscardBlock(FALSE)

\* Neither RELEASE nor ROLLBACK TO gets through: the enclosing block has to
\* roll back.
ExitSavepointLost ==
  /\ LeaveNested /\ Sid # None
  /\ Fail
  /\ needs_rollback' = TRUE
  /\ DiscardBlock(TRUE)
  /\ HooksStay

\* Mutant of ExitMark: the enclosing block is not told.
ExitMarkForgotten ==
  /\ LeaveNested /\ Sid = None
  /\ needs_rollback' = FALSE
  /\ DiscardBlock(TRUE)
  /\ UNCHANGED <<session, hooks>>

\* Without a savepoint the enclosing block has to roll back.
ExitMark ==
  /\ LeaveNested /\ Sid = None
  /\ needs_rollback' = TRUE
  /\ DiscardBlock(TRUE)
  /\ UNCHANGED <<session, hooks>>

\* acommit(), then aset_autocommit(True) with the flag just raised.
ExitCommit ==
  /\ LeaveOutermost
  /\ Commit
  /\ autocommit' = TRUE
  /\ RunHooks(run_on_commit)
  /\ KeepBlock
  /\ UNCHANGED needs_rollback

\* The server rejects COMMIT (a deferred constraint); arollback() follows.
ExitCommitRefused ==
  /\ LeaveOutermost
  /\ "refused" \in Events /\ tx = "intrans"
  /\ Rollback
  /\ autocommit' = TRUE
  /\ ClearHooks
  /\ needs_rollback' = FALSE
  /\ DiscardBlock(FALSE)

\* Mutant of ExitRollback: autocommit is not turned on again.
ExitRollbackManual ==
  /\ LeaveOutermost
  /\ Rollback
  /\ ClearHooks
  /\ needs_rollback' = FALSE
  /\ DiscardBlock(FALSE)
  /\ UNCHANGED autocommit

ExitRollback ==
  /\ LeaveOutermost
  /\ Rollback
  /\ autocommit' = TRUE
  /\ ClearHooks
  /\ needs_rollback' = FALSE
  /\ DiscardBlock(FALSE)

\* COMMIT or ROLLBACK does not get through and arollback() raises too: aclose()
\* drops the connection and aset_autocommit(True) opens a new one, or fails to.
ExitConnectionLost ==
  /\ LeaveOutermost
  /\ connection = "dead" \/ (connection = "lost" /\ tx # "idle")
  /\ \/ Connected /\ autocommit' = TRUE /\ ClearHooks
     \/ /\ "refused" \in Events
        /\ Disconnected
        /\ run_on_commit' = {}
        /\ UNCHANGED <<autocommit, run_commit_hooks_on_set_autocommit_on, fired>>
  /\ needs_rollback' = FALSE
  /\ DiscardBlock(FALSE)
  /\ UNCHANGED committed

\* The connection breaks while COMMIT is under way: the server has committed,
\* the program is told otherwise, and the hooks are forgotten.
ExitCommitUnacknowledged ==
  /\ LeaveOutermost
  /\ "lost" \in Events
  /\ connection = "good" /\ tx = "intrans"
  /\ committed' = committed \union Pending
  /\ Connected /\ autocommit' = TRUE /\ ClearHooks
  /\ KeepBlock
  /\ UNCHANGED needs_rollback

Cleanly(raised) == ~raised /\ ~needs_rollback

AExit(raised) ==
  \/ ExitClosed
  \/ /\ Cleanly(raised)
     /\ \/ ExitKeep \/ ExitRelease \/ ExitReleaseRefused
        \/ ExitCommit \/ ExitCommitRefused \/ ExitCommitUnacknowledged
  \/ ~Cleanly(raised) /\ (ExitMark \/ ExitRollbackTo \/ ExitRollback)
  \/ ExitSavepointLost \/ ExitConnectionLost

-----------------------------------------------------------------------------
(* What the body of a block does: statements, hooks, aclose().             *)

New == issued + 1

\* validate_no_broken_transaction() lets nothing through while needs_rollback.
WriteRow ==
  /\ New <= MaxEffect /\ ~needs_rollback
  /\ Run(New, autocommit)
  /\ issued' = New
  /\ Own(New)
  /\ UNCHANGED <<autocommit, stack, flags, hooks, savepoint_state, registered>>

\* A statement fails; async_mark_for_rollback_on_error marks the transaction
\* when the statement ran inside it.
StatementFails(marked) ==
  /\ ~needs_rollback
  /\ \/ (IF marked THEN "marked" ELSE "unmarked") \in Events /\ Reject(autocommit)
     \/ Fail
  /\ needs_rollback' = (marked /\ in_atomic_block)
  /\ IF marked THEN DoomTop ELSE UNCHANGED open
  /\ UNCHANGED <<autocommit, stack, in_atomic_block, commit_on_exit, closed_in_transaction,
                 hooks, counters>>

\* Mutant of SidsNow: every sid the counter has issued, and one more.
SidsIssued == 0 .. NextSid

SidsNow == {savepoint_ids[i] : i \in DOMAIN savepoint_ids}

AOnCommit(robust) ==
  /\ New <= MaxEffect
  /\ in_atomic_block
  /\ run_on_commit' = run_on_commit \union {[func |-> New, sids |-> SidsNow, robust |-> robust]}
  /\ Ride(New)
  /\ Own(New)
  /\ issued' = New /\ registered' = registered \union {New}
  /\ UNCHANGED <<autocommit, stack, flags, run_commit_hooks_on_set_autocommit_on, fired,
                 savepoint_state>>

\* No transaction in progress and in autocommit mode: execute immediately.
AOnCommitNow ==
  /\ New <= MaxEffect
  /\ ~in_atomic_block /\ autocommit /\ connection # "none"
  /\ fired' = [fired EXCEPT ![New] = @ + 1]
  /\ committed' = committed \union {New}
  /\ issued' = New /\ registered' = registered \union {New}
  /\ UNCHANGED <<connection, tx, marks, frames, autocommit, stack, flags, run_on_commit,
                 run_commit_hooks_on_set_autocommit_on, savepoint_state, open>>

\* With a pool the handle goes back and is forgotten; without one it stays,
\* closed, until the outermost exit.
AClose ==
  /\ "close" \in Events
  /\ run_on_commit' = {}
  /\ IF closed_in_transaction \/ connection = "none"
       THEN UNCHANGED <<session, needs_rollback, closed_in_transaction>>
       ELSE /\ IF in_atomic_block /\ ~Pooled THEN Broken ELSE Disconnected
            /\ needs_rollback' = (in_atomic_block \/ needs_rollback)
            /\ closed_in_transaction' = in_atomic_block
            /\ UNCHANGED committed
  /\ DoomTop
  /\ UNCHANGED <<autocommit, stack, in_atomic_block, commit_on_exit, counters,
                 run_commit_hooks_on_set_autocommit_on, fired>>

-----------------------------------------------------------------------------
(* The transaction interface of the wrapper, outside any atomic block.     *)

Unmanaged == "manual" \in Events /\ ~in_atomic_block

ASetAutocommit(on) ==
  /\ Unmanaged /\ Quiet
  /\ autocommit' = on
  /\ IF on /\ run_commit_hooks_on_set_autocommit_on THEN RunHooks(run_on_commit) ELSE HooksStay
  /\ UNCHANGED <<session, stack, flags, counters, open>>

ACommit ==
  /\ Unmanaged
  /\ Commit
  /\ run_commit_hooks_on_set_autocommit_on' = TRUE
  /\ UNCHANGED <<autocommit, stack, flags, run_on_commit, fired, counters, open>>

ACommitFails ==
  /\ Unmanaged
  /\ Fail \/ ("refused" \in Events /\ tx = "intrans" /\ Rollback)
  /\ UNCHANGED <<autocommit, stack, flags, hooks, counters, open>>

ARollback ==
  /\ Unmanaged
  /\ Rollback
  /\ needs_rollback' = FALSE
  /\ run_on_commit' = {}
  /\ UNCHANGED <<autocommit, stack, in_atomic_block, commit_on_exit, closed_in_transaction,
                 run_commit_hooks_on_set_autocommit_on, fired, counters, open>>

ServerLost ==
  /\ "lost" \in Events
  /\ Lose
  /\ UNCHANGED <<autocommit, stack, flags, hooks, counters, open>>

Next ==
  \/ Connect \/ ConnectRefused
  \/ \E b \in Kinds : AEnter(b)
  \/ \E raised \in BOOLEAN : AExit(raised)
  \/ WriteRow \/ AOnCommitNow \/ AClose \/ ServerLost
  \/ \E marked \in BOOLEAN : StatementFails(marked)
  \/ \E robust \in BOOLEAN : AOnCommit(robust)
  \/ \E on \in BOOLEAN : ASetAutocommit(on)
  \/ ACommit \/ ACommitFails \/ ARollback

Spec == Init /\ [][Next]_vars

-----------------------------------------------------------------------------
FlagsTypeOK ==
  /\ autocommit \in BOOLEAN /\ in_atomic_block \in BOOLEAN /\ commit_on_exit \in BOOLEAN
  /\ needs_rollback \in BOOLEAN /\ closed_in_transaction \in BOOLEAN

StackTypeOK ==
  /\ savepoint_state \in 0 .. MaxSid
  /\ savepoint_ids \in Seq(SidOrNone)
  /\ atomic_blocks \in Seq(Kinds)
  /\ open \in Seq(Ledger)

HooksTypeOK ==
  /\ run_on_commit \subseteq Hook
  /\ run_commit_hooks_on_set_autocommit_on \in BOOLEAN
  /\ issued \in 0 .. MaxEffect
  /\ registered \subseteq 1 .. issued
  /\ fired \in [Effect -> Nat]

\* The attributes of the wrapper and the session's state keep their kinds: sids
\* within the counter that issues them, one frame more than savepoints, every
\* hook in run_on_commit one that was registered with sids that exist.
TypeOK == SessionTypeOK(1 .. MaxSid, Effect) /\ FlagsTypeOK /\ StackTypeOK /\ HooksTypeOK

\* The sids of s come in the order in which they were issued, blocks without a
\* savepoint aside.
InOrder(s) == \A i, j \in DOMAIN s : i < j /\ s[j] # None => s[i] < s[j]

\* The savepoints the wrapper still has to release are the ones the server has,
\* in the same order.
SavepointsMatchServer ==
  connection = "good" =>
    /\ ToSet(marks) = ToSet(savepoint_ids) \ {None}
    /\ InOrder(marks) /\ InOrder(savepoint_ids)

\* While the transaction can still commit, every hook waiting in run_on_commit
\* belongs to pending work: what a savepoint takes back on the server, the
\* filter of asavepoint_rollback takes out of run_on_commit.
PendingHooksRideWithPendingWork ==
  Usable /\ in_atomic_block =>
    {k.func : k \in run_on_commit} = registered \intersect Pending

\* A hook runs only when the work of its transaction is durable.
HooksOnlyForCommittedWork == \A h \in Effect : fired[h] > 0 => h \in committed

\* However a block is left and however often the wrapper connects again, a hook
\* runs at most once.
HooksRunOnce == \A h \in Effect : fired[h] <= 1

\* Once the program is outside every block, exactly the hooks of committed work ran.
HooksOfCommittedWorkRan ==
  open = <<>> => registered \intersect committed = {h \in Effect : fired[h] > 0}

\* Outside every block nothing of a transaction is left behind, on either side.
NothingLeftBehind ==
  open = <<>> =>
    /\ ~in_atomic_block /\ savepoint_ids = <<>> /\ atomic_blocks = <<>>
    /\ connection \in {"good", "lost"} => autocommit /\ tx = "idle" /\ Pending = {}

\* Leaving the outermost block without an exception, when nothing in it failed,
\* makes everything done in it durable.
CleanExitCommits ==
  [][AExit(FALSE) /\ Len(open) = 1 /\ ~open[1].doomed => open[1].work \subseteq committed']_vars

\* A block entered in a transaction the program manages itself never commits
\* that transaction and never turns autocommit on.
ManualTransactionIsLeftAlone ==
  [][in_atomic_block /\ ~commit_on_exit => UNCHANGED <<committed, autocommit>>]_vars

\* Outside every block a wrapper whose connection is gone can connect again.
ReconnectIsPossible == open = <<>> /\ connection = "none" => MayConnect

\* A block of the program is a block of the abstract specification.
Blocks == INSTANCE NestedTransaction WITH
  blocks <- open, durable <- committed, fired <- {h \in Effect : fired[h] > 0}

\* The flags, savepoints and error paths of __aenter__ and __aexit__ implement
\* nested transactions.
NestedTransactionSpec == Blocks!Spec

=============================================================================
