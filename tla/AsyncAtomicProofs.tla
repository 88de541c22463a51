-------------------------- MODULE AsyncAtomicProofs --------------------------
(***************************************************************************)
(* What holds of AsyncAtomic for every bound, every setting and every set  *)
(* of events.                                                              *)
(***************************************************************************)
EXTENDS AsyncAtomic, SequenceTheorems, TLAPS

(* A prefix of a sequence is a sequence of the same kind.                  *)
LEMMA PrefixType ==
  ASSUME NEW S, NEW s \in Seq(S), NEW n \in Nat, n <= Len(s)
  PROVE  /\ SubSeq(s, 1, n) \in Seq(S)
         /\ Len(SubSeq(s, 1, n)) = n
         /\ \A i \in 1 .. n : SubSeq(s, 1, n)[i] = s[i]
<1>1. \A i \in 1 .. n : s[i] \in S
  BY ElementOfSeq
<1> QED
  BY <1>1, SubSeqProperties

\* The sequence without its last element: its kind, its length, its elements.
LEMMA FrontProp ==
  ASSUME NEW S, NEW s \in Seq(S), s # <<>>
  PROVE  /\ Front(s) \in Seq(S)
         /\ Len(Front(s)) = Len(s) - 1
         /\ \A i \in 1 .. Len(s) - 1 : Front(s)[i] = s[i]
<1>1. Len(s) \in Nat /\ Len(s) >= 1
  BY EmptySeq, LenProperties
<1> DEFINE n == Len(s) - 1
<1>2. n \in Nat /\ n <= Len(s)
  BY <1>1
<1>3. /\ SubSeq(s, 1, n) \in Seq(S)
      /\ Len(SubSeq(s, 1, n)) = n
      /\ \A i \in 1 .. n : SubSeq(s, 1, n)[i] = s[i]
  <2> HIDE DEF n
  <2> QED  BY <1>2, PrefixType
<1> QED
  BY <1>3 DEF Front

\* The last element of a sequence is of the kind of its elements.
LEMMA LastType ==
  ASSUME NEW S, NEW s \in Seq(S), s # <<>>
  PROVE  Last(s) \in S
BY EmptySeq, ElementOfSeq DEF Last

(* Changing the last block of the ledger.                                  *)
LEMMA TopType ==
  ASSUME NEW s \in Seq(Ledger), s # <<>>
  PROVE  /\ \A e \in Effect : [s EXCEPT ![Len(s)].work = @ \union {e}] \in Seq(Ledger)
         /\ [s EXCEPT ![Len(s)].doomed = TRUE] \in Seq(Ledger)
<1>1. Len(s) \in 1 .. Len(s) /\ s[Len(s)] \in Ledger
  BY EmptySeq, ElementOfSeq
<1>2. ASSUME NEW e \in Effect
      PROVE  [s EXCEPT ![Len(s)].work = @ \union {e}] \in Seq(Ledger)
  <2>1. [s[Len(s)] EXCEPT !.work = @ \union {e}] \in Ledger
    BY <1>1 DEF Ledger
  <2> QED
    BY <1>1, <2>1, ExceptSeq
<1>3. [s EXCEPT ![Len(s)].doomed = TRUE] \in Seq(Ledger)
  <2>1. [s[Len(s)] EXCEPT !.doomed = TRUE] \in Ledger
    BY <1>1 DEF Ledger
  <2> QED
    BY <1>1, <2>1, ExceptSeq
<1> QED
  BY <1>2, <1>3

(* The same for a block that is left: its parent gets its work, or its doom. *)
LEMMA ParentType ==
  ASSUME NEW s \in Seq(Ledger), Len(s) > 1, NEW w \in SUBSET Effect, NEW d \in BOOLEAN
  PROVE  /\ [Front(s) EXCEPT ![Len(s) - 1].work = @ \union w] \in Seq(Ledger)
         /\ [Front(s) EXCEPT ![Len(s) - 1].doomed = @ \/ d] \in Seq(Ledger)
<1> DEFINE n == Len(s) - 1
<1>1. Len(s) \in Nat /\ s # <<>>
  BY EmptySeq, LenProperties
<1>2. n \in 1 .. n /\ Front(s) \in Seq(Ledger) /\ Len(Front(s)) = n
  BY <1>1, FrontProp
<1>3. Front(s)[n] \in Ledger
  BY <1>2, ElementOfSeq
<1>4. [Front(s)[n] EXCEPT !.work = @ \union w] \in Ledger
  BY <1>3 DEF Ledger
<1>5. [Front(s)[n] EXCEPT !.doomed = @ \/ d] \in Ledger
  BY <1>3 DEF Ledger
<1> HIDE DEF n
<1>6. [Front(s) EXCEPT ![n].work = @ \union w] \in Seq(Ledger)
  BY <1>2, <1>4, ExceptSeq
<1>7. [Front(s) EXCEPT ![n].doomed = @ \/ d] \in Seq(Ledger)
  BY <1>2, <1>5, ExceptSeq
<1> QED
  BY <1>6, <1>7 DEF n

-----------------------------------------------------------------------------
(* The session's operations keep its type.                                 *)

SType == SessionTypeOK(1 .. MaxSid, Effect)

\* A session without a transaction has one empty frame, so its typing is kept.
LEMMA EmptyFrames ==
  /\ <<>> \in Seq(1 .. MaxSid) /\ Len(<<>>) = 0
  /\ <<{}>> \in Seq(SUBSET Effect) /\ Len(<<{}>>) = 1
OBVIOUS

\* Adding an effect to the top frame keeps the number and the kind of the frames.
LEMMA AddToTopType ==
  ASSUME SType, NEW e \in Effect, AddToTop(e)
  PROVE  frames' \in Seq(SUBSET Effect) /\ Len(frames') = Len(frames)
<1>1. Len(frames) \in 1 .. Len(frames)
  BY LenProperties DEF SType, SessionTypeOK
<1>2. frames[Len(frames)] \union {e} \in SUBSET Effect
  BY <1>1, ElementOfSeq DEF SType, SessionTypeOK
<1> QED
  BY <1>1, <1>2, ExceptSeq DEF AddToTop, SType, SessionTypeOK

\* Pending effects are effects.
LEMMA PendingType ==
  ASSUME SType
  PROVE  Pending \subseteq Effect
<1>1. \A i \in DOMAIN frames : frames[i] \in SUBSET Effect
  BY ElementOfSeq, LenProperties DEF SType, SessionTypeOK
<1> QED
  BY <1>1 DEF Pending

(* The operations that empty the server's transaction.                     *)
LEMMA ResetType ==
  ASSUME SType,
         \/ Connected /\ UNCHANGED committed
         \/ Disconnected /\ UNCHANGED committed
         \/ Broken /\ UNCHANGED committed
         \/ Fail \/ Commit \/ Rollback
         \/ Connected /\ committed' = committed \union Pending
  PROVE  SType'
<1>1. /\ connection' \in Handle /\ tx' \in TxStatus
      /\ marks' = <<>> /\ frames' = <<{}>>
  BY DEF SType, SessionTypeOK, Connected, Disconnected, Broken, Fail, Commit, Rollback,
         NoTransaction, Handle, TxStatus
<1>2. committed' \subseteq Effect
  BY PendingType DEF SType, SessionTypeOK, Fail, Commit, Rollback
<1> QED
  BY <1>1, <1>2, EmptyFrames DEF SType, SessionTypeOK

\* Running a statement keeps the typing of the session.
LEMMA StatementType ==
  ASSUME SType, NEW e \in Effect, NEW auto \in BOOLEAN,
         Run(e, auto) \/ Reject(auto) \/ Ride(e)
  PROVE  SType'
<1>1. CASE Run(e, auto)
  BY <1>1, AddToTopType DEF Run, SType, SessionTypeOK, TxStatus
<1>2. CASE Reject(auto)
  BY <1>2 DEF Reject, SType, SessionTypeOK, TxStatus
<1>3. CASE Ride(e)
  BY <1>3, AddToTopType DEF Ride, SType, SessionTypeOK
<1> QED
  BY <1>1, <1>2, <1>3

\* A rejected statement only changes the transaction status.
LEMMA RejectType ==
  ASSUME SType, Reject(autocommit)
  PROVE  SType'
BY DEF Reject, SType, SessionTypeOK, TxStatus

\* Losing the server keeps the typing of the session.
LEMMA LoseType ==
  ASSUME SType, Lose
  PROVE  SType'
<1>1. CASE tx = "idle"
  BY <1>1 DEF Lose, SType, SessionTypeOK, Handle
<1>2. CASE tx # "idle"
  <2>1. marks' = <<>> /\ frames' = <<{}>>
    BY <1>2 DEF Lose, NoTransaction
  <2>2. connection' \in Handle /\ tx' \in TxStatus /\ committed' \subseteq Effect
    BY DEF Lose, SType, SessionTypeOK, Handle
  <2> QED
    BY <2>1, <2>2, EmptyFrames DEF SType, SessionTypeOK
<1> QED
  BY <1>1, <1>2

\* A new savepoint comes with a new frame.
LEMMA SavepointType ==
  ASSUME SType, NEW sid \in 1 .. MaxSid, Savepoint(sid)
  PROVE  SType'
BY DEF Savepoint, SType, SessionTypeOK, TxStatus

\* Releasing a savepoint, or rolling back to it, leaves one frame more than savepoints.
LEMMA ReleaseType ==
  ASSUME SType, NEW sid, Release(sid) \/ RollbackTo(sid)
  PROVE  SType'
<1>1. PICK i \in DOMAIN marks :
         /\ marks' = SubSeq(marks, 1, i - 1)
         /\ \/ frames' = Append(SubSeq(frames, 1, i - 1),
                               UNION {frames[j] : j \in i .. Len(frames)})
            \/ frames' = SubSeq(frames, 1, i)
  BY DEF Release, RollbackTo
<1>2. i \in 1 .. Len(marks) /\ Len(marks) \in Nat
  BY LenProperties DEF SType, SessionTypeOK
<1>3. i - 1 \in Nat /\ i - 1 <= Len(marks) /\ i \in Nat /\ i - 1 <= Len(frames) /\ i <= Len(frames)
  BY <1>2 DEF SType, SessionTypeOK
<1>4. marks' \in Seq(1 .. MaxSid) /\ Len(marks') = i - 1
  BY <1>1, <1>3, PrefixType DEF SType, SessionTypeOK
<1>5. frames' \in Seq(SUBSET Effect) /\ Len(frames') = i
  <2>1. CASE frames' = SubSeq(frames, 1, i)
    BY <2>1, <1>3, PrefixType DEF SType, SessionTypeOK
  <2>2. CASE frames' = Append(SubSeq(frames, 1, i - 1),
                              UNION {frames[j] : j \in i .. Len(frames)})
    <3>1. SubSeq(frames, 1, i - 1) \in Seq(SUBSET Effect) /\ Len(SubSeq(frames, 1, i - 1)) = i - 1
      BY <1>3, PrefixType DEF SType, SessionTypeOK
    <3>2. \A j \in i .. Len(frames) : frames[j] \in SUBSET Effect
      BY <1>2, ElementOfSeq DEF SType, SessionTypeOK
    <3>3. UNION {frames[j] : j \in i .. Len(frames)} \in SUBSET Effect
      BY <3>2
    <3> QED
      BY <2>2, <1>3, <3>1, <3>3
  <2> QED
    BY <1>1, <2>1, <2>2
<1>6. connection' \in Handle /\ tx' \in TxStatus /\ committed' \subseteq Effect
  BY DEF Release, RollbackTo, SType, SessionTypeOK, TxStatus, Handle
<1>7. Len(frames') = Len(marks') + 1
  BY <1>3, <1>4, <1>5
<1> QED
  BY <1>4, <1>5, <1>6, <1>7 DEF SType, SessionTypeOK

-----------------------------------------------------------------------------
(* The hooks' bookkeeping.                                                 *)

\* Running hooks keeps a count for each of them.
LEMMA RanType ==
  ASSUME fired \in [Effect -> Nat], NEW P
  PROVE  Ran(P) \in [Effect -> Nat]
BY DEF Ran

\* RunHooks keeps the typing of the hooks, whether or not one of them raises.
LEMMA RunHooksType ==
  ASSUME HooksTypeOK, NEW P,
         RunHooks(P) \/ ClearHooks \/ HooksStay \/ (\E sid : ForgetHooks(sid)),
         UNCHANGED <<issued, registered>>
  PROVE  HooksTypeOK'
<1>1. fired' \in [Effect -> Nat]
  BY RanType DEF HooksTypeOK, RunHooks, ClearHooks, HooksStay, hooks, ForgetHooks
<1>2. run_on_commit' \subseteq Hook /\ run_commit_hooks_on_set_autocommit_on' \in BOOLEAN
  BY DEF HooksTypeOK, RunHooks, ClearHooks, HooksStay, hooks, ForgetHooks
<1> QED
  BY <1>1, <1>2 DEF HooksTypeOK

(* What leaving a block does to the ledger.                                *)
LEMMA LedgerType ==
  ASSUME open \in Seq(Ledger), open # <<>>, NEW d \in BOOLEAN,
         KeepBlock \/ DiscardBlock(d)
  PROVE  open' \in Seq(Ledger)
<1> DEFINE n == Len(open)
<1>1. n \in Nat /\ n >= 1
  BY EmptySeq
<1>2. n # 1 => n > 1
  <2> HIDE DEF n
  <2> QED  BY <1>1
<1>3. Last(open).work \in SUBSET Effect
  BY LastType DEF Ledger
<1>4. CASE n = 1
  <2>1. open' = <<>>
    BY <1>4 DEF KeepBlock, DiscardBlock
  <2> QED
    BY <2>1, EmptySeq
<1>5. CASE n # 1
  <2>1. /\ [Front(open) EXCEPT ![Len(open) - 1].work = @ \union Last(open).work] \in Seq(Ledger)
        /\ [Front(open) EXCEPT ![Len(open) - 1].doomed = @ \/ d] \in Seq(Ledger)
    BY <1>2, <1>3, <1>5, ParentType
  <2>2. \/ open' = [Front(open) EXCEPT ![Len(open) - 1].work = @ \union Last(open).work]
        \/ open' = [Front(open) EXCEPT ![Len(open) - 1].doomed = @ \/ d]
    BY <1>5, Zenon DEF KeepBlock, DiscardBlock
  <2> QED
    BY <2>1, <2>2, Zenon
<1> QED
  BY <1>4, <1>5

\* Entering a block keeps the kinds of the stacks.
LEMMA EnteredType ==
  ASSUME StackTypeOK, NEW b \in Kinds, NEW sid \in SidOrNone, Entered(b, sid)
  PROVE  /\ savepoint_ids' \in Seq(SidOrNone)
         /\ atomic_blocks' \in Seq(Kinds)
         /\ open' \in Seq(Ledger)
<1>1. open # <<>> => Last(open).doomed \in BOOLEAN
  BY LastType DEF StackTypeOK, Ledger
<1>2. [work |-> {}, doomed |-> open # <<>> /\ Last(open).doomed] \in Ledger
  BY <1>1 DEF Ledger
<1> QED
  BY <1>2 DEF StackTypeOK, Entered, OpenBlock

-----------------------------------------------------------------------------
(* Every step keeps the type, one lemma per handler.                       *)

Parts == SType /\ FlagsTypeOK /\ StackTypeOK /\ HooksTypeOK

\* TypeOK with the typing of the session under its short name.
LEMMA TypeIsParts == TypeOK <=> Parts
BY DEF TypeOK, Parts, SType

\* aconnect() keeps the types, whether or not the server accepts.
LEMMA ConnectType ==
  ASSUME Parts, Connect \/ ConnectRefused
  PROVE  Parts'
<1>1. CASE Connect
  <2>1. SType'
    BY <1>1, ResetType DEF Connect, Parts
  <2>2. FlagsTypeOK'
    BY <1>1, ConstantsAssumption DEF Connect, ResetByConnect, Parts, FlagsTypeOK
  <2>3. StackTypeOK'
    BY <1>1 DEF Connect, ResetByConnect, Parts, StackTypeOK, counters
  <2>4. HooksTypeOK'
    <3>1. CASE RunHooks(run_on_commit)
      BY <1>1, <3>1, RunHooksType DEF Connect, Parts, counters
    <3>2. CASE run_on_commit' = {} /\ UNCHANGED <<run_commit_hooks_on_set_autocommit_on, fired>>
      BY <1>1, <3>2 DEF Connect, Parts, HooksTypeOK, counters
    <3> QED
      BY <1>1, <3>1, <3>2 DEF Connect
  <2> QED
    BY <2>1, <2>2, <2>3, <2>4 DEF Parts
<1>2. CASE ConnectRefused
  <2>1. SType'
    BY <1>2 DEF ConnectRefused, Parts, SType, SessionTypeOK, session
  <2>2. FlagsTypeOK'
    BY <1>2 DEF ConnectRefused, ResetByConnect, Parts, FlagsTypeOK
  <2>3. StackTypeOK'
    <3>1. savepoint_ids' = <<>> /\ atomic_blocks' = <<>>
      BY <1>2 DEF ConnectRefused, ResetByConnect
    <3>2. open' = open /\ savepoint_state' = savepoint_state
      BY <1>2 DEF ConnectRefused, counters
    <3> QED
      BY <3>1, <3>2, EmptySeq DEF Parts, StackTypeOK
  <2>4. HooksTypeOK'
    BY <1>2 DEF ConnectRefused, Parts, HooksTypeOK, hooks, counters
  <2> QED
    BY <2>1, <2>2, <2>3, <2>4 DEF Parts
<1> QED
  BY <1>1, <1>2

\* __aenter__ keeps the types.
LEMMA EnterType ==
  ASSUME Parts, NEW b \in Kinds, AEnter(b)
  PROVE  Parts'
<1>1. CASE EnterSavepoint(b)
  <2>1. NextSid \in 1 .. MaxSid /\ NextSid \in SidOrNone
    BY <1>1, ConstantsAssumption DEF EnterSavepoint, Parts, StackTypeOK, NextSid, SidOrNone
  <2>2. SType'
    BY <1>1, <2>1, SavepointType DEF EnterSavepoint, Parts
  <2>3. StackTypeOK'
    BY <1>1, <2>1, EnteredType DEF EnterSavepoint, Parts, StackTypeOK, SidOrNone
  <2>4. FlagsTypeOK' /\ HooksTypeOK'
    BY <1>1 DEF EnterSavepoint, PretendAtomic, Parts, FlagsTypeOK, HooksTypeOK, hooks
  <2> QED
    BY <2>2, <2>3, <2>4 DEF Parts
<1>2. CASE EnterWithoutSavepoint(b)
  <2>1. None \in SidOrNone
    BY ConstantsAssumption DEF None, SidOrNone
  <2>2. StackTypeOK'
    BY <1>2, <2>1, EnteredType DEF EnterWithoutSavepoint, Parts, StackTypeOK, counters
  <2>3. FlagsTypeOK' /\ HooksTypeOK' /\ SType'
    BY <1>2 DEF EnterWithoutSavepoint, PretendAtomic, Parts, FlagsTypeOK, HooksTypeOK, hooks,
                counters, SType, SessionTypeOK, session
  <2> QED
    BY <2>2, <2>3 DEF Parts
<1>3. CASE EnterSavepointFails(b)
  <2>1. SType'
    BY <1>3, ResetType, RejectType DEF EnterSavepointFails, Parts
  <2>2. FlagsTypeOK' /\ HooksTypeOK' /\ StackTypeOK'
    BY <1>3, ConstantsAssumption
       DEF EnterSavepointFails, PretendAtomic, Parts, FlagsTypeOK, HooksTypeOK, StackTypeOK,
           hooks, stack, NextSid
  <2> QED
    BY <2>1, <2>2 DEF Parts
<1>4. CASE EnterTransaction(b)
  <2>2. open # <<>> => Last(open).doomed \in BOOLEAN
    BY LastType DEF Parts, StackTypeOK, Ledger
  <2>3. [work |-> {}, doomed |-> open # <<>> /\ Last(open).doomed] \in Ledger
    BY <2>2 DEF Ledger
  <2>4. open' \in Seq(Ledger) /\ atomic_blocks' \in Seq(Kinds)
    BY <1>4, <2>3 DEF EnterTransaction, OpenBlock, Parts, StackTypeOK
  <2>5. FlagsTypeOK' /\ HooksTypeOK' /\ SType' /\ StackTypeOK'
    BY <1>4, <2>4 DEF EnterTransaction, Parts, FlagsTypeOK, HooksTypeOK, StackTypeOK, hooks,
                      counters, SType, SessionTypeOK, session
  <2> QED
    BY <2>5 DEF Parts
<1>5. CASE EnterTransactionFails(b)
  BY <1>5 DEF EnterTransactionFails, Parts, FlagsTypeOK, HooksTypeOK, StackTypeOK, hooks, stack,
              counters, SType, SessionTypeOK, session
<1> QED
  BY <1>1, <1>2, <1>3, <1>4, <1>5 DEF AEnter

\* What every way through __aexit__ has in common keeps the types.
LEMMA LeaveType ==
  ASSUME Parts, Leave, NEW d \in BOOLEAN, KeepBlock \/ DiscardBlock(d),
         savepoint_ids' \in {savepoint_ids, <<>>, Front(savepoint_ids)},
         savepoint_ids # <<>> \/ savepoint_ids' = <<>>
  PROVE  StackTypeOK'
<1>1. open' \in Seq(Ledger)
  BY LedgerType DEF Leave, Parts, StackTypeOK
<1>2. atomic_blocks' \in Seq(Kinds)
  <2>1. CASE atomic_blocks = <<>>
    <3>1. Front(atomic_blocks) = <<>>
      BY <2>1, SubSeqEmpty, EmptySeq DEF Front
    <3> QED
      BY <3>1 DEF Leave
  <2>2. CASE atomic_blocks # <<>>
    BY <2>2, FrontProp DEF Leave, Parts, StackTypeOK
  <2> QED
    BY <2>1, <2>2
<1>3. savepoint_ids' \in Seq(SidOrNone)
  <2>1. savepoint_ids # <<>> => Front(savepoint_ids) \in Seq(SidOrNone)
    BY FrontProp DEF Parts, StackTypeOK
  <2>2. <<>> \in Seq(SidOrNone) /\ savepoint_ids \in Seq(SidOrNone)
    BY EmptySeq DEF Parts, StackTypeOK
  <2> QED
    BY <2>1, <2>2, Zenon
<1> QED
  BY <1>1, <1>2, <1>3 DEF Leave, Parts, StackTypeOK, counters

(* The exits of a nested block.                                            *)
LEMMA ExitNestedType ==
  ASSUME Parts,
         \/ ExitClosed \/ ExitKeep \/ ExitRelease \/ ExitReleaseRefused
         \/ ExitMark \/ ExitRollbackTo \/ ExitSavepointLost
  PROVE  Parts'
<1>1. CASE ExitClosed
  <2>1. SType'
    <3>1. CASE savepoint_ids = <<>> \/ LastManaged
      BY <1>1, <3>1, ResetType DEF ExitClosed, Parts
    <3>2. CASE ~(savepoint_ids = <<>> \/ LastManaged)
      BY <1>1, <3>2 DEF ExitClosed, Parts, SType, SessionTypeOK, session
    <3> QED
      BY <3>1, <3>2
  <2>2. StackTypeOK'
    BY <1>1, LeaveType DEF ExitClosed
  <2>3. FlagsTypeOK' /\ HooksTypeOK'
    BY <1>1 DEF ExitClosed, Leave, Parts, FlagsTypeOK, HooksTypeOK, hooks, counters
  <2> QED
    BY <2>1, <2>2, <2>3 DEF Parts
<1>2. CASE ~ExitClosed
  <2>1. LeaveNested /\ savepoint_ids # <<>> /\ savepoint_ids' = Front(savepoint_ids)
    BY <1>2 DEF ExitKeep, ExitRelease, ExitReleaseRefused, ExitMark, ExitRollbackTo,
                ExitSavepointLost, LeaveNested
  <2>2. KeepBlock \/ DiscardBlock(TRUE) \/ DiscardBlock(FALSE)
    BY <1>2 DEF ExitKeep, ExitRelease, ExitReleaseRefused, ExitMark, ExitRollbackTo,
                ExitSavepointLost
  <2>3. StackTypeOK'
    BY <2>1, <2>2, LeaveType DEF LeaveNested
  <2>4. SType'
    BY <1>2, ReleaseType, ResetType
       DEF ExitKeep, ExitRelease, ExitReleaseRefused, ExitMark, ExitRollbackTo,
           ExitSavepointLost, Parts, SType, SessionTypeOK, session
  <2>5. needs_rollback' \in BOOLEAN
    BY <1>2 DEF ExitKeep, ExitRelease, ExitReleaseRefused, ExitMark, ExitRollbackTo,
                ExitSavepointLost, Parts, FlagsTypeOK
  <2>6. FlagsTypeOK'
    BY <2>1, <2>5 DEF LeaveNested, Parts, FlagsTypeOK
  <2>7. HooksStay \/ \E sid : ForgetHooks(sid)
    BY <1>2 DEF ExitKeep, ExitRelease, ExitReleaseRefused, ExitMark, ExitRollbackTo,
                ExitSavepointLost, HooksStay
  <2>8. HooksTypeOK'
    BY <2>1, <2>7, RunHooksType DEF LeaveNested, Leave, Parts, counters
  <2> QED
    BY <2>3, <2>4, <2>6, <2>8 DEF Parts
<1> QED
  BY <1>1, <1>2

(* The exits of an outermost block.                                        *)
LEMMA ExitOutermostType ==
  ASSUME Parts,
         \/ ExitCommit \/ ExitCommitRefused \/ ExitCommitUnacknowledged
         \/ ExitRollback \/ ExitConnectionLost
  PROVE  Parts'
<1>1. LeaveOutermost /\ savepoint_ids = <<>> /\ savepoint_ids' = <<>>
  BY DEF ExitCommit, ExitCommitRefused, ExitCommitUnacknowledged, ExitRollback,
         ExitConnectionLost, LeaveOutermost
<1>2. KeepBlock \/ DiscardBlock(FALSE)
  BY DEF ExitCommit, ExitCommitRefused, ExitCommitUnacknowledged, ExitRollback,
         ExitConnectionLost
<1>3. StackTypeOK'
  BY <1>1, <1>2, LeaveType DEF LeaveOutermost
<1>4. SType'
  BY ResetType DEF ExitCommit, ExitCommitRefused, ExitCommitUnacknowledged, ExitRollback,
                   ExitConnectionLost, Parts
<1>5. needs_rollback' \in BOOLEAN /\ autocommit' \in BOOLEAN
  BY DEF ExitCommit, ExitCommitRefused, ExitCommitUnacknowledged, ExitRollback,
         ExitConnectionLost, Parts, FlagsTypeOK
<1>6. FlagsTypeOK'
  BY <1>1, <1>5 DEF LeaveOutermost, Parts, FlagsTypeOK
<1>7. UNCHANGED <<issued, registered>>
  BY <1>1 DEF LeaveOutermost, Leave, counters
<1>8. HooksTypeOK'
  <2>1. CASE RunHooks(run_on_commit) \/ ClearHooks
    BY <1>7, <2>1, RunHooksType DEF Parts
  <2>2. CASE run_on_commit' = {} /\ UNCHANGED <<run_commit_hooks_on_set_autocommit_on, fired>>
    BY <1>7, <2>2 DEF Parts, HooksTypeOK
  <2> QED
    BY <2>1, <2>2 DEF ExitCommit, ExitCommitRefused, ExitCommitUnacknowledged, ExitRollback,
                      ExitConnectionLost
<1> QED
  BY <1>3, <1>4, <1>6, <1>8 DEF Parts

\* Statements, hooks and aclose() keep the types.
LEMMA BodyType ==
  ASSUME Parts,
         \/ WriteRow \/ AOnCommitNow \/ AClose \/ ServerLost
         \/ \E marked \in BOOLEAN : StatementFails(marked)
         \/ \E robust \in BOOLEAN : AOnCommit(robust)
  PROVE  Parts'
<1>1. CASE WriteRow
  <2>1. New \in Effect /\ New \in 0 .. MaxEffect
    BY <1>1, ConstantsAssumption DEF WriteRow, New, Effect, Parts, HooksTypeOK
  <2>2. SType'
    BY <1>1, <2>1, StatementType DEF WriteRow, Parts, FlagsTypeOK
  <2>3. open' \in Seq(Ledger)
    BY <1>1, <2>1, TopType DEF WriteRow, Own, Parts, StackTypeOK
  <2>4. registered' \subseteq 1 .. issued'
    BY <1>1 DEF WriteRow, New, Parts, HooksTypeOK
  <2>5. FlagsTypeOK' /\ StackTypeOK' /\ HooksTypeOK'
    BY <1>1, <2>1, <2>3, <2>4 DEF WriteRow, Parts, FlagsTypeOK, StackTypeOK, HooksTypeOK, flags, stack, hooks
  <2> QED
    BY <2>2, <2>5 DEF Parts
<1>2. CASE AOnCommitNow
  <2>1. New \in Effect /\ New \in 0 .. MaxEffect
    BY <1>2, ConstantsAssumption DEF AOnCommitNow, New, Effect, Parts, HooksTypeOK
  <2>2. SType'
    BY <1>2, <2>1 DEF AOnCommitNow, Parts, SType, SessionTypeOK
  <2>3. registered' \subseteq 1 .. issued'
    BY <1>2 DEF AOnCommitNow, New, Parts, HooksTypeOK
  <2>4. fired' \in [Effect -> Nat]
    BY <1>2, <2>1 DEF AOnCommitNow, Parts, HooksTypeOK
  <2>5. FlagsTypeOK' /\ StackTypeOK' /\ HooksTypeOK'
    BY <1>2, <2>1, <2>3, <2>4 DEF AOnCommitNow, Parts, FlagsTypeOK, StackTypeOK, HooksTypeOK, flags, stack
  <2> QED
    BY <2>2, <2>5 DEF Parts
<1>3. CASE AClose
  <2>1. SType'
    <3>1. CASE UNCHANGED session
      BY <3>1 DEF Parts, SType, SessionTypeOK, session
    <3>2. CASE (Broken \/ Disconnected) /\ UNCHANGED committed
      BY <3>2, ResetType DEF Parts
    <3> QED
      BY <1>3, <3>1, <3>2 DEF AClose
  <2>2. open' \in Seq(Ledger)
    BY <1>3, TopType DEF AClose, DoomTop, Parts, StackTypeOK
  <2>3. FlagsTypeOK' /\ StackTypeOK' /\ HooksTypeOK'
    BY <1>3, <2>2 DEF AClose, Parts, FlagsTypeOK, StackTypeOK, HooksTypeOK, stack, counters
  <2> QED
    BY <2>1, <2>3 DEF Parts
<1>4. CASE ServerLost
  <2>1. SType'
    BY <1>4, LoseType DEF ServerLost, Parts
  <2>2. FlagsTypeOK' /\ StackTypeOK' /\ HooksTypeOK'
    BY <1>4 DEF ServerLost, Parts, FlagsTypeOK, StackTypeOK, HooksTypeOK, flags, stack, hooks, counters
  <2> QED
    BY <2>1, <2>2 DEF Parts
<1>5. ASSUME NEW marked \in BOOLEAN, StatementFails(marked)
      PROVE  Parts'
  <2>1. SType'
    BY <1>5, RejectType, ResetType DEF StatementFails, Parts
  <2>2. open' \in Seq(Ledger)
    BY <1>5, TopType DEF StatementFails, DoomTop, Parts, StackTypeOK
  <2>3. FlagsTypeOK' /\ StackTypeOK' /\ HooksTypeOK'
    BY <1>5, <2>2 DEF StatementFails, Parts, FlagsTypeOK, StackTypeOK, HooksTypeOK, stack, hooks, counters
  <2> QED
    BY <2>1, <2>3 DEF Parts
<1>6. ASSUME NEW robust \in BOOLEAN, AOnCommit(robust)
      PROVE  Parts'
  <2>1. New \in Effect /\ New \in 0 .. MaxEffect
    BY <1>6, ConstantsAssumption DEF AOnCommit, New, Effect, Parts, HooksTypeOK
  <2>2. SType'
    BY <1>6, <2>1, StatementType DEF AOnCommit, Parts
  <2>3. open' \in Seq(Ledger)
    BY <1>6, <2>1, TopType DEF AOnCommit, Own, Parts, StackTypeOK
  <2>4. SidsNow \subseteq SidOrNone
    BY ElementOfSeq, LenProperties DEF SidsNow, Parts, StackTypeOK
  <2>5. run_on_commit' \subseteq Hook
    BY <1>6, <2>1, <2>4 DEF AOnCommit, Hook, Parts, HooksTypeOK
  <2>6. registered' \subseteq 1 .. issued'
    BY <1>6 DEF AOnCommit, New, Parts, HooksTypeOK
  <2>7. FlagsTypeOK' /\ StackTypeOK' /\ HooksTypeOK'
    BY <1>6, <2>1, <2>3, <2>5, <2>6 DEF AOnCommit, Parts, FlagsTypeOK, StackTypeOK, HooksTypeOK, flags, stack
  <2> QED
    BY <2>2, <2>7 DEF Parts
<1> QED
  BY <1>1, <1>2, <1>3, <1>4, <1>5, <1>6

\* The transaction interface of the wrapper keeps the types.
LEMMA ManualType ==
  ASSUME Parts,
         ACommit \/ ACommitFails \/ ARollback \/ \E on \in BOOLEAN : ASetAutocommit(on)
  PROVE  Parts'
<1>1. SType'
  BY ResetType DEF ACommit, ACommitFails, ARollback, ASetAutocommit, Parts, SType, SessionTypeOK, session
<1>2. FlagsTypeOK' /\ StackTypeOK'
  BY DEF ACommit, ACommitFails, ARollback, ASetAutocommit, Parts, FlagsTypeOK, StackTypeOK,
         flags, stack, counters
<1>3. HooksTypeOK'
  <2>1. UNCHANGED <<issued, registered>>
    BY DEF ACommit, ACommitFails, ARollback, ASetAutocommit, counters
  <2>2. CASE RunHooks(run_on_commit) \/ HooksStay
    BY <2>1, <2>2, RunHooksType DEF Parts
  <2>3. CASE /\ run_on_commit' \in {run_on_commit, {}}
             /\ run_commit_hooks_on_set_autocommit_on' \in BOOLEAN
             /\ fired' = fired
    BY <2>1, <2>3 DEF Parts, HooksTypeOK
  <2>4. run_commit_hooks_on_set_autocommit_on \in BOOLEAN
    BY DEF Parts, HooksTypeOK
  <2> QED
    BY <2>2, <2>3, <2>4 DEF ACommit, ACommitFails, ARollback, ASetAutocommit, HooksStay, hooks
<1> QED
  BY <1>1, <1>2, <1>3 DEF Parts

(* The attributes of the wrapper and the session keep their kinds.         *)
THEOREM TypeCorrect == Spec => []TypeOK
<1>1. Init => Parts
  <2> SUFFICES ASSUME Init PROVE Parts
    OBVIOUS
  <2>1. SType
    BY EmptyFrames DEF Init, SessionInit, SType, SessionTypeOK, Handle, TxStatus
  <2>2. FlagsTypeOK
    BY DEF Init, FlagsTypeOK
  <2>3. StackTypeOK
    BY ConstantsAssumption, EmptySeq DEF Init, StackTypeOK
  <2>4. HooksTypeOK
    <3>1. 0 \in 0 .. MaxEffect /\ [e \in Effect |-> 0] \in [Effect -> Nat]
      BY ConstantsAssumption
    <3> QED
      BY <3>1 DEF Init, HooksTypeOK
  <2> QED
    BY <2>1, <2>2, <2>3, <2>4 DEF Parts
<1>2. Parts /\ [Next]_vars => Parts'
  <2> SUFFICES ASSUME Parts, [Next]_vars PROVE Parts'
    OBVIOUS
  <2>1. CASE Next
    <3>1. ASSUME NEW raised \in BOOLEAN, AExit(raised) PROVE Parts'
      BY <3>1, ExitNestedType, ExitOutermostType DEF AExit
    <3> QED
      BY <2>1, <3>1, ConnectType, EnterType, BodyType, ManualType DEF Next
  <2>2. CASE UNCHANGED vars
    BY <2>2 DEF vars, session, stack, flags, hooks, counters, Parts, SType, SessionTypeOK,
                FlagsTypeOK, StackTypeOK, HooksTypeOK
  <2> QED
    BY <2>1, <2>2
<1> QED
  BY <1>1, <1>2, TypeIsParts, PTL DEF Spec

-----------------------------------------------------------------------------
(* The inductive invariant behind NothingLeftBehind, for a program that    *)
(* leaves transactions to atomic blocks.  The wrapper's two stacks follow  *)
(* the program's blocks (the outermost block has no entry in               *)
(* savepoint_ids); autocommit is off exactly inside the blocks; and a      *)
(* connection in autocommit holds nothing.                                 *)

Stacks ==
  /\ Len(atomic_blocks) = Len(open)
  /\ in_atomic_block <=> open # <<>>
  /\ open # <<>> => Len(savepoint_ids) + 1 = Len(open)
  /\ open = <<>> => savepoint_ids = <<>>

Modes ==
  /\ in_atomic_block => commit_on_exit /\ ~autocommit
  /\ connection # "none" /\ ~in_atomic_block => autocommit
  /\ closed_in_transaction => connection \in {"none", "dead"}
  /\ connection = "none" /\ in_atomic_block => closed_in_transaction
  /\ connection # "none" /\ ~in_atomic_block => ~closed_in_transaction

AutocommitIsEmpty ==
  connection \in {"good", "lost"} /\ autocommit =>
    tx = "idle" /\ marks = <<>> /\ frames = <<{}>>

Control == Stacks /\ Modes /\ AutocommitIsEmpty

\* A sequence is empty exactly when its length is zero.
LEMMA EmptyLen ==
  ASSUME NEW S, NEW s \in Seq(S)
  PROVE  Len(s) \in Nat /\ (s = <<>> <=> Len(s) = 0)
BY EmptySeq, LenProperties

\* Append makes a sequence one longer.
LEMMA AppendLen ==
  ASSUME NEW S, NEW s \in Seq(S), NEW e \in S
  PROVE  /\ Append(s, e) \in Seq(S) /\ Len(Append(s, e)) = Len(s) + 1
         /\ Append(s, e) # <<>>
<1>1. Append(s, e) \in Seq(S) /\ Len(Append(s, e)) = Len(s) + 1
  OBVIOUS
<1>2. Len(s) \in Nat
  BY EmptyLen
<1>3. Len(Append(s, e)) # 0
  BY <1>1, <1>2
<1> QED
  BY <1>1, <1>3, EmptyLen

(* Leaving a block makes the ledger one shorter.                           *)
LEMMA LedgerLen ==
  ASSUME open \in Seq(Ledger), open # <<>>, NEW d \in BOOLEAN,
         KeepBlock \/ DiscardBlock(d)
  PROVE  open' \in Seq(Ledger) /\ Len(open') = Len(open) - 1
<1> DEFINE n == Len(open)
<1>1. n \in Nat /\ n >= 1
  BY EmptySeq
<1>2. open' \in Seq(Ledger)
  BY LedgerType
<1>3. CASE n = 1
  <2>1. open' = <<>>
    BY <1>3 DEF KeepBlock, DiscardBlock
  <2> QED
    BY <1>2, <1>3, <2>1, EmptyLen
<1>4. CASE n # 1
  <2>1. Front(open) \in Seq(Ledger) /\ Len(Front(open)) = n - 1
    BY FrontProp
  <2>2. n - 1 \in 1 .. n - 1
    <3> HIDE DEF n
    <3> QED  BY <1>1, <1>4
  <2>3. DOMAIN Front(open) = 1 .. n - 1
    BY <2>1, LenProperties
  <2>4. PICK v : open' = [Front(open) EXCEPT ![n - 1] = v]
    BY <1>4, Zenon DEF KeepBlock, DiscardBlock
  <2>5. DOMAIN open' = 1 .. n - 1
    BY <2>3, <2>4
  <2>6. Len(open') \in Nat /\ DOMAIN open' = 1 .. Len(open')
    BY <1>2, LenProperties
  <2> HIDE DEF n
  <2>7. Len(open') = n - 1
    BY <1>1, <2>5, <2>6
  <2> QED
    BY <1>2, <2>7 DEF n
<1> QED
  BY <1>3, <1>4

\* Leaving a nested block keeps the stacks in step.
LEMMA NestedStacks ==
  ASSUME StackTypeOK, Stacks, Leave, NEW d \in BOOLEAN, KeepBlock \/ DiscardBlock(d),
         savepoint_ids # <<>>, savepoint_ids' = Front(savepoint_ids), in_atomic_block' = TRUE
  PROVE  Stacks'
<1> DEFINE n == Len(open)
           m == Len(savepoint_ids)
<1>1. n \in Nat /\ m \in Nat /\ m >= 1 /\ n = m + 1
  BY EmptyLen DEF StackTypeOK, Stacks
<1>2. Len(open') = n - 1 /\ open' \in Seq(Ledger)
  BY LedgerLen DEF StackTypeOK, Leave
<1>3. Len(savepoint_ids') = m - 1
  BY FrontProp DEF StackTypeOK
<1>4. atomic_blocks # <<>>
  BY <1>1, EmptyLen DEF Stacks, StackTypeOK
<1>5. Len(atomic_blocks') = n - 1
  BY <1>4, FrontProp DEF StackTypeOK, Stacks, Leave
<1> HIDE DEF n, m
<1>6. Len(open') # 0
  BY <1>1, <1>2
<1>7. open' # <<>>
  BY <1>2, <1>6, EmptyLen
<1>8. Len(savepoint_ids') + 1 = Len(open')
  BY <1>1, <1>2, <1>3
<1> QED
  BY <1>2, <1>5, <1>7, <1>8 DEF Stacks

\* Leaving the outermost block empties all three stacks.
LEMMA OutermostStacks ==
  ASSUME StackTypeOK, Stacks, Leave, NEW d \in BOOLEAN, KeepBlock \/ DiscardBlock(d),
         savepoint_ids = <<>>, savepoint_ids' = <<>>, in_atomic_block' = FALSE
  PROVE  Stacks' /\ open' = <<>>
<1>1. Len(open) = 1 /\ open # <<>>
  BY EmptyLen DEF StackTypeOK, Stacks, Leave
<1>2. open' = <<>>
  BY <1>1 DEF KeepBlock, DiscardBlock
<1>3. atomic_blocks \in Seq(Kinds) /\ Len(atomic_blocks) = 1
  BY <1>1 DEF StackTypeOK, Stacks
<1>4. atomic_blocks # <<>>
  BY <1>3, EmptyLen
<1>5. Len(atomic_blocks') = 0
  BY <1>3, <1>4, FrontProp DEF Leave
<1>6. Len(open') = 0
  BY <1>2
<1> QED
  BY <1>2, <1>5, <1>6 DEF Stacks

\* Entering a block keeps the stacks in step.
LEMMA EnterStacks ==
  ASSUME StackTypeOK, Stacks, NEW b \in Kinds, in_atomic_block' = TRUE,
         \/ in_atomic_block /\ \E sid \in SidOrNone : Entered(b, sid)
         \/ ~in_atomic_block /\ OpenBlock /\ atomic_blocks' = Append(atomic_blocks, b)
                             /\ savepoint_ids' = savepoint_ids
  PROVE  Stacks'
<1> DEFINE n == Len(open)
           m == Len(savepoint_ids)
<1>1. n \in Nat /\ m \in Nat
  BY EmptyLen DEF StackTypeOK
<1>2. open # <<>> => Last(open).doomed \in BOOLEAN
  BY LastType DEF StackTypeOK, Ledger
<1>3. [work |-> {}, doomed |-> open # <<>> /\ Last(open).doomed] \in Ledger
  BY <1>2 DEF Ledger
<1>4. Len(open') = n + 1 /\ open' # <<>>
  BY <1>3, AppendLen DEF StackTypeOK, Entered, OpenBlock
<1>5. Len(atomic_blocks') = n + 1
  BY AppendLen DEF StackTypeOK, Entered, Stacks
<1>6. CASE in_atomic_block /\ \E sid \in SidOrNone : Entered(b, sid)
  <2>1. Len(savepoint_ids') = m + 1
    BY <1>6, AppendLen DEF StackTypeOK, Entered
  <2>2. m + 1 = n
    BY <1>6 DEF Stacks
  <2> HIDE DEF n, m
  <2>3. Len(savepoint_ids') + 1 = Len(open')
    BY <1>1, <1>4, <2>1, <2>2
  <2> QED
    BY <1>4, <1>5, <2>3 DEF Stacks
<1>7. CASE ~in_atomic_block /\ savepoint_ids' = savepoint_ids
  <2>1. open = <<>> /\ savepoint_ids = <<>>
    BY <1>7 DEF Stacks
  <2>2. n = 0 /\ Len(savepoint_ids') = 0
    BY <1>7, <2>1
  <2> HIDE DEF n
  <2>3. Len(savepoint_ids') + 1 = Len(open')
    BY <1>4, <2>2
  <2> QED
    BY <1>4, <1>5, <2>3 DEF Stacks
<1> QED
  BY <1>6, <1>7

(* Stacks, Modes and AutocommitIsEmpty survive every step.                 *)

Managed == AUTOCOMMIT = TRUE /\ "manual" \notin Events

\* aconnect() preserves the invariant: it only runs outside every block.
LEMMA ConnectControl ==
  ASSUME TypeOK, Control, Managed, Connect \/ ConnectRefused
  PROVE  Control'
<1>1. ~in_atomic_block /\ open = <<>>
  BY DEF Connect, ConnectRefused, MayConnect, Control, Modes, Stacks
<1>2. open' = <<>> /\ Len(atomic_blocks') = Len(open')
  BY <1>1 DEF Connect, ConnectRefused, ResetByConnect
<1>3. Stacks'
  BY <1>1, <1>2 DEF Connect, ConnectRefused, ResetByConnect, Stacks
<1>4. Modes' /\ AutocommitIsEmpty'
  BY <1>1 DEF Connect, ConnectRefused, MayConnect, ResetByConnect, Connected, NoTransaction, Control,
              Modes, AutocommitIsEmpty, Managed, session
<1> QED
  BY <1>3, <1>4 DEF Control

\* __aenter__ preserves the invariant.
LEMMA EnterControl ==
  ASSUME TypeOK, Control, Managed, NEW b \in Kinds, AEnter(b)
  PROVE  Control'
<1>1. Inside => in_atomic_block
  BY DEF Inside, Control, Modes
<1>2. CASE EnterSavepoint(b) \/ EnterWithoutSavepoint(b)
  <2>1. in_atomic_block /\ in_atomic_block' /\ PretendAtomic /\ autocommit' = autocommit
    BY <1>1, <1>2 DEF EnterSavepoint, EnterWithoutSavepoint, PretendAtomic
  <2>2. \E sid \in SidOrNone : Entered(b, sid)
    <3>1. NextSid <= MaxSid => NextSid \in SidOrNone
      BY ConstantsAssumption DEF TypeOK, StackTypeOK, NextSid, SidOrNone
    <3>2. None \in SidOrNone
      BY ConstantsAssumption DEF None, SidOrNone
    <3> QED
      BY <1>2, <3>1, <3>2 DEF EnterSavepoint, EnterWithoutSavepoint
  <2>3. Stacks'
    BY <2>1, <2>2, EnterStacks DEF Control, TypeOK, PretendAtomic
  <2>4. connection' = connection
    BY <1>2 DEF EnterSavepoint, EnterWithoutSavepoint, Savepoint, session
  <2>5. Modes' /\ AutocommitIsEmpty'
    BY <2>1, <2>4 DEF PretendAtomic, Control, Modes, AutocommitIsEmpty
  <2> QED
    BY <2>3, <2>5 DEF Control
<1>3. CASE EnterSavepointFails(b)
  <2>1. in_atomic_block /\ in_atomic_block' /\ PretendAtomic /\ UNCHANGED <<autocommit, stack, open>>
    BY <1>1, <1>3 DEF EnterSavepointFails, PretendAtomic
  <2>2. Stacks'
    BY <2>1 DEF Control, Stacks, stack
  <2>3. connection' \in {connection, "dead"} /\ connection # "none"
    BY <1>3 DEF EnterSavepointFails, Fail, Broken, Reject
  <2>4. Modes' /\ AutocommitIsEmpty'
    BY <2>1, <2>3 DEF PretendAtomic, Control, Modes, AutocommitIsEmpty
  <2> QED
    BY <2>2, <2>4 DEF Control
<1>4. CASE EnterTransaction(b)
  <2>1. in_atomic_block' = TRUE /\ ~in_atomic_block
    BY <1>4 DEF EnterTransaction
  <2>2. Stacks'
    BY <1>4, <2>1, EnterStacks DEF EnterTransaction, Control, TypeOK
  <2>3. Modes' /\ AutocommitIsEmpty'
    BY <1>4 DEF EnterTransaction, Quiet, session, Control, Modes, AutocommitIsEmpty
  <2> QED
    BY <2>2, <2>3 DEF Control
<1>5. CASE EnterTransactionFails(b)
  BY <1>5 DEF EnterTransactionFails, session, stack, Control, Stacks, Modes, AutocommitIsEmpty
<1> QED
  BY <1>2, <1>3, <1>4, <1>5 DEF AEnter

\* Every way through __aexit__ preserves the invariant.
LEMMA ExitControl ==
  ASSUME TypeOK, Control, Managed, NEW raised \in BOOLEAN, AExit(raised)
  PROVE  Control'
<1>1. Leave /\ open # <<>> /\ in_atomic_block /\ commit_on_exit /\ ~autocommit
  BY DEF AExit, ExitClosed, ExitKeep, ExitRelease, ExitReleaseRefused, ExitMark, ExitRollbackTo,
         ExitSavepointLost, ExitCommit, ExitCommitRefused, ExitCommitUnacknowledged, ExitRollback,
         ExitConnectionLost, LeaveNested, LeaveOutermost, Leave, Control, Stacks, Modes
<1>2. KeepBlock \/ DiscardBlock(TRUE) \/ DiscardBlock(FALSE)
  BY DEF AExit, ExitClosed, ExitKeep, ExitRelease, ExitReleaseRefused, ExitMark, ExitRollbackTo,
         ExitSavepointLost, ExitCommit, ExitCommitRefused, ExitCommitUnacknowledged, ExitRollback,
         ExitConnectionLost
<1>3. CASE ExitClosed
  <2>1. Stacks'
    <3>1. CASE savepoint_ids = <<>>
      <4>1. savepoint_ids' = <<>> /\ in_atomic_block' = FALSE
        BY <1>3, <3>1 DEF ExitClosed
      <4> QED
        BY <1>1, <1>2, <3>1, <4>1, OutermostStacks DEF Control, TypeOK
    <3>2. CASE savepoint_ids # <<>>
      <4>1. savepoint_ids' = Front(savepoint_ids) /\ in_atomic_block' = TRUE
        BY <1>3, <3>2 DEF ExitClosed
      <4> QED
        BY <1>1, <1>2, <3>2, <4>1, NestedStacks DEF Control, TypeOK
    <3> QED
      BY <3>1, <3>2
  <2>2. Modes' /\ AutocommitIsEmpty'
    BY <1>1, <1>3 DEF ExitClosed, LastManaged, Disconnected, NoTransaction, session, Control, Modes,
                      AutocommitIsEmpty
  <2> QED
    BY <2>1, <2>2 DEF Control
<1>4. CASE LeaveNested
  <2>1. savepoint_ids # <<>> /\ savepoint_ids' = Front(savepoint_ids) /\ in_atomic_block' = TRUE
    BY <1>1, <1>4 DEF LeaveNested, LastManaged
  <2>2. Stacks'
    BY <1>1, <1>2, <2>1, NestedStacks DEF Control, TypeOK
  <2>3. ~closed_in_transaction /\ connection # "none"
    BY <1>1, <1>4 DEF LeaveNested, Control, Modes
  <2>4. connection' \in {connection, "dead"}
    BY <1>4, <2>1 DEF AExit, ExitClosed, ExitKeep, ExitRelease, ExitReleaseRefused, ExitMark, ExitRollbackTo,
         ExitSavepointLost, ExitCommit, ExitCommitRefused, ExitCommitUnacknowledged, ExitRollback,
         ExitConnectionLost, LeaveNested, LeaveOutermost, Release, RollbackTo, Fail, Broken, session
  <2>5. Modes' /\ AutocommitIsEmpty'
    BY <1>1, <1>4, <2>1, <2>3, <2>4 DEF LeaveNested, Control, Modes, AutocommitIsEmpty
  <2> QED
    BY <2>2, <2>5 DEF Control
<1>5. CASE LeaveOutermost
  <2>1. savepoint_ids = <<>> /\ savepoint_ids' = <<>> /\ in_atomic_block' = FALSE
    BY <1>5 DEF LeaveOutermost
  <2>2. Stacks'
    BY <1>1, <1>2, <2>1, OutermostStacks DEF Control, TypeOK
  <2>3. ~closed_in_transaction' /\ connection # "none"
    BY <1>1, <1>5 DEF LeaveOutermost, Control, Modes
  <2>4. \/ connection' = "none"
        \/ autocommit' /\ tx' = "idle" /\ NoTransaction /\ connection' \in {"good", "lost"}
    BY <2>1, <2>3, <1>5, Zenon
       DEF AExit, ExitClosed, ExitKeep, ExitRelease, ExitReleaseRefused, ExitMark, ExitRollbackTo,
         ExitSavepointLost, ExitCommit, ExitCommitRefused, ExitCommitUnacknowledged, ExitRollback,
         ExitConnectionLost, LeaveNested, LeaveOutermost, Commit, Rollback, Quiet, Connected, Disconnected
  <2>5. Modes' /\ AutocommitIsEmpty'
    BY <2>1, <2>3, <2>4 DEF NoTransaction, Modes, AutocommitIsEmpty
  <2> QED
    BY <2>2, <2>5 DEF Control
<1> QED
  BY <1>3, <1>4, <1>5
     DEF AExit, ExitKeep, ExitRelease, ExitReleaseRefused, ExitMark, ExitRollbackTo,
         ExitSavepointLost, ExitCommit, ExitCommitRefused, ExitCommitUnacknowledged, ExitRollback,
         ExitConnectionLost

(* Statements, hooks and aclose() leave the stacks alone.                  *)
LEMMA TopLen ==
  ASSUME open \in Seq(Ledger),
         (\E e \in Effect : Own(e)) \/ DoomTop \/ open' = open
  PROVE  Len(open') = Len(open) /\ (open' = <<>> <=> open = <<>>)
<1>1. CASE open' = open
  BY <1>1
<1>2. CASE open # <<>> /\ \E e \in Effect : Own(e)
  <2>1. PICK v : open' = [open EXCEPT ![Len(open)] = v]
    BY <1>2, Zenon DEF Own
  <2>2. DOMAIN open' = DOMAIN open /\ open' \in Seq(Ledger)
    BY <1>2, <2>1, TopType DEF Own
  <2> QED
    BY <2>2, LenProperties, EmptyLen
<1>3. CASE open # <<>> /\ DoomTop
  <2>1. PICK v : open' = [open EXCEPT ![Len(open)] = v]
    BY <1>3, Zenon DEF DoomTop
  <2>2. DOMAIN open' = DOMAIN open /\ open' \in Seq(Ledger)
    BY <1>3, <2>1, TopType DEF DoomTop
  <2> QED
    BY <2>2, LenProperties, EmptyLen
<1> QED
  BY <1>1, <1>2, <1>3 DEF Own, DoomTop

\* What happens inside or between blocks preserves the invariant.
LEMMA BodyControl ==
  ASSUME TypeOK, Control,
         \/ WriteRow \/ AOnCommitNow \/ AClose \/ ServerLost
         \/ \E marked \in BOOLEAN : StatementFails(marked)
         \/ \E robust \in BOOLEAN : AOnCommit(robust)
  PROVE  Control'
<1>1. UNCHANGED <<savepoint_ids, atomic_blocks, in_atomic_block, commit_on_exit, autocommit>>
  BY DEF WriteRow, AOnCommitNow, AClose, ServerLost, StatementFails, AOnCommit, stack, flags
<1>2. (\E e \in Effect : Own(e)) \/ DoomTop \/ open' = open
  <2>1. New <= MaxEffect => New \in Effect
    BY ConstantsAssumption DEF New, Effect, TypeOK, HooksTypeOK
  <2> QED
    BY <2>1 DEF WriteRow, AOnCommitNow, AClose, ServerLost, StatementFails, AOnCommit
<1>3. Len(open') = Len(open) /\ (open' = <<>> <=> open = <<>>)
  BY <1>2, TopLen DEF TypeOK, StackTypeOK
<1>4. Stacks'
  BY <1>1, <1>3 DEF Control, Stacks
<1>5. Modes' /\ AutocommitIsEmpty'
  <2>1. CASE WriteRow
    <3>1. UNCHANGED <<connection, closed_in_transaction>>
      BY <2>1 DEF WriteRow, Run, flags
    <3>2. autocommit => UNCHANGED <<tx, marks, frames>>
      BY <2>1 DEF WriteRow, Run
    <3> QED
      BY <1>1, <3>1, <3>2 DEF Control, Modes, AutocommitIsEmpty
  <2>2. CASE AOnCommitNow
    BY <1>1, <2>2 DEF AOnCommitNow, Control, Modes, AutocommitIsEmpty, flags
  <2>3. CASE AClose
    BY <1>1, <2>3 DEF AClose, Broken, Disconnected, NoTransaction, session, Control, Modes, AutocommitIsEmpty
  <2>4. CASE ServerLost
    BY <1>1, <2>4 DEF ServerLost, Lose, Control, Modes, AutocommitIsEmpty, flags
  <2>5. ASSUME NEW marked \in BOOLEAN, StatementFails(marked)
        PROVE  Modes' /\ AutocommitIsEmpty'
    BY <1>1, <2>5 DEF StatementFails, Reject, Fail, Broken, NoTransaction, Control, Modes, AutocommitIsEmpty
  <2>6. ASSUME NEW robust \in BOOLEAN, AOnCommit(robust)
        PROVE  Modes' /\ AutocommitIsEmpty'
    BY <1>1, <2>6 DEF AOnCommit, Ride, Control, Modes, AutocommitIsEmpty, flags
  <2> QED
    BY <2>1, <2>2, <2>3, <2>4, <2>5, <2>6
<1> QED
  BY <1>4, <1>5 DEF Control

(* Control holds of every reachable state.                                 *)
LEMMA ControlInvariant ==
  ASSUME Managed
  PROVE  Spec => []Control
<1>1. Init => Control
  BY DEF Init, SessionInit, Control, Stacks, Modes, AutocommitIsEmpty
<1>2. TypeOK /\ Control /\ [Next]_vars => Control'
  <2> SUFFICES ASSUME TypeOK, Control, [Next]_vars PROVE Control'
    OBVIOUS
  <2>1. CASE Next
    <3>1. ~(ACommit \/ ACommitFails \/ ARollback \/ \E on \in BOOLEAN : ASetAutocommit(on))
      BY DEF Managed, ACommit, ACommitFails, ARollback, ASetAutocommit, Unmanaged
    <3> QED
      BY <2>1, <3>1, ConnectControl, EnterControl, ExitControl, BodyControl DEF Next
  <2>2. CASE UNCHANGED vars
    BY <2>2 DEF vars, session, stack, flags, Control, Stacks, Modes, AutocommitIsEmpty
  <2> QED
    BY <2>1, <2>2
<1> QED
  BY <1>1, <1>2, TypeCorrect, PTL DEF Spec

(* Whatever fails, gets lost or is closed inside them, atomic blocks leave *)
(* nothing behind: outside every block the wrapper is in no transaction,   *)
(* its stacks are empty, and a connection it still holds is in autocommit  *)
(* with nothing pending.                                                   *)
THEOREM LeavesNothingBehind ==
  ASSUME Managed
  PROVE  Spec => []NothingLeftBehind
<1>1. TypeOK /\ Control => NothingLeftBehind
  <2> SUFFICES ASSUME TypeOK, Control, open = <<>> PROVE NothingLeftBehind
    BY DEF NothingLeftBehind
  <2>1. ~in_atomic_block /\ savepoint_ids = <<>>
    BY DEF Control, Stacks
  <2>2. Len(atomic_blocks) = 0
    BY DEF Control, Stacks
  <2>3. atomic_blocks = <<>>
    BY <2>2, EmptyLen DEF TypeOK, StackTypeOK
  <2>4. ASSUME connection \in {"good", "lost"}
        PROVE  autocommit /\ tx = "idle" /\ Pending = {}
    <3>1. autocommit
      BY <2>1, <2>4 DEF Control, Modes
    <3>2. tx = "idle" /\ frames = <<{}>>
      BY <2>4, <3>1 DEF Control, AutocommitIsEmpty
    <3>3. \A i \in DOMAIN frames : frames[i] = {}
      BY <3>2
    <3>4. Pending = {}
      BY <3>3 DEF Pending
    <3> QED
      BY <3>1, <3>2, <3>4
  <2> QED
    BY <2>1, <2>3, <2>4 DEF NothingLeftBehind
<1> QED
  BY <1>1, TypeCorrect, ControlInvariant, PTL

-----------------------------------------------------------------------------
(* In every setting and with every event, the program's own acommit(),     *)
(* arollback() and aset_autocommit() included: savepoint_ids against the   *)
(* server's savepoints, transactions the program manages itself, and how   *)
(* often a hook runs.                                                      *)

(* How far the wrapper is inside blocks.  A block entered in a transaction *)
(* the program manages has an entry in savepoint_ids like a nested one; an *)
(* outermost block of the wrapper's own (commit_on_exit) has none.         *)
Nesting ==
  /\ ~in_atomic_block => savepoint_ids = <<>> /\ open = <<>>
  /\ in_atomic_block => ~autocommit
  /\ closed_in_transaction => connection \in {"none", "dead"}
  /\ connection = "none" /\ in_atomic_block => closed_in_transaction
  /\ in_atomic_block /\ commit_on_exit => Len(open) = Len(savepoint_ids) + 1
  /\ in_atomic_block /\ ~commit_on_exit => Len(open) = Len(savepoint_ids)

\* aconnect() only runs outside every block.
LEMMA ConnectNesting ==
  ASSUME TypeOK, Nesting, Connect \/ ConnectRefused
  PROVE  Nesting' /\ ~in_atomic_block
<1>1. ~in_atomic_block
  BY DEF Connect, ConnectRefused, MayConnect, Nesting
<1>2. in_atomic_block' = FALSE /\ savepoint_ids' = <<>> /\ open' = open
      /\ closed_in_transaction' = FALSE
  BY DEF Connect, ConnectRefused, ResetByConnect
<1> QED
  BY <1>1, <1>2 DEF Nesting

\* __aenter__ keeps the count of blocks and entries.
LEMMA EnterNesting ==
  ASSUME TypeOK, Nesting, NEW b \in Kinds, AEnter(b)
  PROVE  Nesting'
<1> DEFINE n == Len(open)
           m == Len(savepoint_ids)
<1>1. n \in Nat /\ m \in Nat
  BY EmptyLen DEF TypeOK, StackTypeOK
<1>2. ~in_atomic_block => n = 0 /\ m = 0
  BY DEF Nesting
<1>3. OpenBlock => Len(open') = n + 1
  <2>1. open # <<>> => Last(open).doomed \in BOOLEAN
    BY LastType DEF TypeOK, StackTypeOK, Ledger
  <2>2. [work |-> {}, doomed |-> open # <<>> /\ Last(open).doomed] \in Ledger
    BY <2>1 DEF Ledger
  <2> QED
    BY <2>2, AppendLen DEF OpenBlock, TypeOK, StackTypeOK
<1>4. CASE EnterSavepoint(b) \/ EnterWithoutSavepoint(b)
  <2>1. \E sid \in SidOrNone : Entered(b, sid)
    <3>1. NextSid <= MaxSid => NextSid \in SidOrNone
      BY ConstantsAssumption DEF TypeOK, StackTypeOK, NextSid, SidOrNone
    <3>2. None \in SidOrNone
      BY ConstantsAssumption DEF None, SidOrNone
    <3> QED
      BY <1>4, <3>1, <3>2 DEF EnterSavepoint, EnterWithoutSavepoint
  <2>2. Len(savepoint_ids') = m + 1 /\ Len(open') = n + 1
    BY <1>3, <2>1, AppendLen DEF Entered, TypeOK, StackTypeOK
  <2>3. Inside /\ PretendAtomic /\ UNCHANGED <<connection, autocommit>>
    BY <1>4 DEF EnterSavepoint, EnterWithoutSavepoint, Savepoint, session
  <2> HIDE DEF n, m
  <2>4. /\ in_atomic_block' = TRUE
        /\ commit_on_exit' => Len(open') = Len(savepoint_ids') + 1
        /\ ~commit_on_exit' => Len(open') = Len(savepoint_ids')
    BY <1>1, <1>2, <2>2, <2>3 DEF PretendAtomic, Nesting, n, m
  <2> QED
    BY <2>3, <2>4 DEF Inside, PretendAtomic, Nesting
<1>5. CASE EnterSavepointFails(b)
  <2>1. Inside /\ PretendAtomic /\ UNCHANGED <<autocommit, savepoint_ids, open>>
    BY <1>5 DEF EnterSavepointFails, stack
  <2>2. connection' \in {connection, "dead"} /\ connection # "none"
    BY <1>5 DEF EnterSavepointFails, Fail, Broken, Reject
  <2>3. /\ in_atomic_block' = TRUE
        /\ commit_on_exit' => Len(open') = Len(savepoint_ids') + 1
        /\ ~commit_on_exit' => Len(open') = Len(savepoint_ids')
    BY <1>2, <2>1 DEF PretendAtomic, Nesting
  <2> QED
    BY <2>1, <2>2, <2>3 DEF Inside, PretendAtomic, Nesting
<1>6. CASE EnterTransaction(b)
  <2>1. Len(open') = n + 1 /\ savepoint_ids' = savepoint_ids
    BY <1>3, <1>6 DEF EnterTransaction
  <2>2. Len(open') = Len(savepoint_ids') + 1
    BY <1>1, <1>2, <1>6, <2>1 DEF EnterTransaction
  <2> QED
    BY <1>6, <2>2 DEF EnterTransaction, Quiet, session, Nesting
<1>7. CASE EnterTransactionFails(b)
  BY <1>7 DEF EnterTransactionFails, session, stack, Nesting
<1> QED
  BY <1>4, <1>5, <1>6, <1>7 DEF AEnter

\* A block is left by one of three ways.
Ways == ExitClosed \/ LeaveNested \/ LeaveOutermost

\* Every way through __aexit__ takes one block from the ledger.
LEMMA ExitWays ==
  ASSUME TypeOK, NEW raised \in BOOLEAN, AExit(raised)
  PROVE  /\ Leave /\ Ways
         /\ Len(open') = Len(open) - 1 /\ open' \in Seq(Ledger)
<1>1. Leave /\ Ways
  BY DEF AExit, ExitClosed, ExitKeep, ExitRelease, ExitReleaseRefused, ExitMark, ExitRollbackTo,
         ExitSavepointLost, ExitCommit, ExitCommitRefused, ExitCommitUnacknowledged, ExitRollback,
         ExitConnectionLost, LeaveNested, LeaveOutermost, Ways
<1>2. KeepBlock \/ DiscardBlock(TRUE) \/ DiscardBlock(FALSE)
  BY DEF AExit, ExitClosed, ExitKeep, ExitRelease, ExitReleaseRefused, ExitMark, ExitRollbackTo,
         ExitSavepointLost, ExitCommit, ExitCommitRefused, ExitCommitUnacknowledged, ExitRollback,
         ExitConnectionLost
<1> QED
  BY <1>1, <1>2, LedgerLen DEF Leave, TypeOK, StackTypeOK

\* __aexit__ keeps the count of blocks and entries.
LEMMA ExitNesting ==
  ASSUME TypeOK, Nesting, NEW raised \in BOOLEAN, AExit(raised)
  PROVE  Nesting'
<1> DEFINE n == Len(open)
           m == Len(savepoint_ids)
<1>1. n \in Nat /\ m \in Nat /\ n # 0 /\ in_atomic_block /\ ~autocommit
  BY ExitWays, EmptyLen DEF TypeOK, StackTypeOK, Leave, Nesting
<1>2. Len(open') = n - 1 /\ (open' = <<>> <=> Len(open') = 0)
  BY ExitWays, EmptyLen
<1>3. savepoint_ids = <<>> => n = 1 /\ m = 0 /\ commit_on_exit
  BY <1>1, EmptyLen DEF Nesting, TypeOK, StackTypeOK
<1>4. savepoint_ids # <<>> => /\ Len(Front(savepoint_ids)) = m - 1
                              /\ Front(savepoint_ids) = <<>> <=> m = 1
  <2> SUFFICES ASSUME savepoint_ids # <<>>
               PROVE  /\ Len(Front(savepoint_ids)) = m - 1
                      /\ Front(savepoint_ids) = <<>> <=> m = 1
    OBVIOUS
  <2>1. Front(savepoint_ids) \in Seq(SidOrNone) /\ Len(Front(savepoint_ids)) = m - 1
    BY FrontProp DEF TypeOK, StackTypeOK
  <2>2. Front(savepoint_ids) = <<>> <=> Len(Front(savepoint_ids)) = 0
    BY <2>1, EmptyLen
  <2> HIDE DEF n, m
  <2> QED
    BY <1>1, <2>1, <2>2
<1>5. CASE ExitClosed
  <2>1. connection' \in {connection, "none"}
        /\ UNCHANGED <<autocommit, commit_on_exit, closed_in_transaction>> /\ closed_in_transaction
    BY <1>5 DEF ExitClosed, Disconnected, session
  <2>2. CASE savepoint_ids = <<>>
    <3>1. savepoint_ids' = <<>> /\ in_atomic_block' = FALSE /\ open' = <<>>
      <4>1. savepoint_ids' = <<>> /\ in_atomic_block' = FALSE
        BY <1>5, <2>2 DEF ExitClosed
      <4>2. open' = <<>>
        <5> HIDE DEF n, m
        <5> QED  BY <1>1, <1>2, <1>3, <2>2
      <4> QED
        BY <4>1, <4>2
    <3> QED
      BY <2>1, <3>1 DEF Nesting
  <2>3. CASE savepoint_ids # <<>>
    <3>1. Len(savepoint_ids') = m - 1 /\ in_atomic_block' = TRUE
      BY <1>4, <1>5, <2>3 DEF ExitClosed
    <3>2. /\ commit_on_exit' => Len(open') = Len(savepoint_ids') + 1
          /\ ~commit_on_exit' => Len(open') = Len(savepoint_ids')
      <4>1. commit_on_exit => n = m + 1
        BY <1>1 DEF Nesting
      <4>2. ~commit_on_exit => n = m
        BY <1>1 DEF Nesting
      <4> HIDE DEF n, m
      <4> QED
        BY <1>1, <1>2, <2>1, <3>1, <4>1, <4>2
    <3> QED
      BY <1>1, <2>1, <3>1, <3>2 DEF Nesting
  <2> QED
    BY <2>2, <2>3
<1>6. CASE LeaveNested
  <2>1. /\ savepoint_ids # <<>> /\ savepoint_ids' = Front(savepoint_ids)
        /\ in_atomic_block' = ~LastManaged
        /\ UNCHANGED <<autocommit, commit_on_exit, closed_in_transaction>>
        /\ ~closed_in_transaction /\ connection # "none"
    BY <1>1, <1>6 DEF LeaveNested, Nesting
  <2>2. connection' \in {connection, "dead"}
    BY <1>6, <2>1 DEF AExit, ExitClosed, ExitKeep, ExitRelease, ExitReleaseRefused, ExitMark, ExitRollbackTo,
         ExitSavepointLost, ExitCommit, ExitCommitRefused, ExitCommitUnacknowledged, ExitRollback,
         ExitConnectionLost, LeaveNested, LeaveOutermost, Release, RollbackTo, Fail, Broken, session
  <2>3. commit_on_exit => n = m + 1
    BY <1>1 DEF Nesting
  <2>4. ~commit_on_exit => n = m
    BY <1>1 DEF Nesting
  <2>5. CASE LastManaged
    <3>1. savepoint_ids' = <<>>
      BY <1>4, <2>1, <2>5 DEF LastManaged
    <3>2. open' = <<>>
      <4>1. n = 1
        BY <2>4, <2>5 DEF LastManaged
      <4> QED
        BY <1>2, <4>1
    <3> QED
      BY <2>1, <2>2, <2>5, <3>1, <3>2 DEF Nesting
  <2>6. CASE ~LastManaged
    <3>1. Len(savepoint_ids') = m - 1 /\ Len(open') = n - 1
      BY <1>2, <1>4, <2>1
    <3>2. /\ commit_on_exit => Len(open') = Len(savepoint_ids') + 1
          /\ ~commit_on_exit => Len(open') = Len(savepoint_ids')
      <4> HIDE DEF n, m
      <4> QED
        BY <1>1, <2>3, <2>4, <3>1
    <3> QED
      BY <1>1, <2>1, <2>2, <2>6, <3>2 DEF Nesting
  <2> QED
    BY <2>5, <2>6
<1>7. CASE LeaveOutermost
  <2>1. savepoint_ids' = <<>> /\ in_atomic_block' = FALSE /\ closed_in_transaction' = FALSE /\ n = 1
    BY <1>3, <1>7 DEF LeaveOutermost, TypeOK, FlagsTypeOK
  <2>2. open' = <<>>
    BY <1>2, <2>1
  <2> QED
    BY <2>1, <2>2 DEF Nesting
<1> QED
  BY <1>5, <1>6, <1>7, ExitWays DEF Ways

\* Statements, hooks, aclose() and the transaction interface leave the stacks alone.
LEMMA BodyNesting ==
  ASSUME TypeOK, Nesting,
         \/ WriteRow \/ AOnCommitNow \/ AClose \/ ServerLost
         \/ \E marked \in BOOLEAN : StatementFails(marked)
         \/ \E robust \in BOOLEAN : AOnCommit(robust)
  PROVE  Nesting'
<1>1. UNCHANGED <<savepoint_ids, in_atomic_block, commit_on_exit, autocommit>>
  BY DEF WriteRow, AOnCommitNow, AClose, ServerLost, StatementFails, AOnCommit, stack, flags
<1>2. (\E e \in Effect : Own(e)) \/ DoomTop \/ open' = open
  <2>1. New <= MaxEffect => New \in Effect
    BY ConstantsAssumption DEF New, Effect, TypeOK, HooksTypeOK
  <2> QED
    BY <2>1 DEF WriteRow, AOnCommitNow, AClose, ServerLost, StatementFails, AOnCommit
<1>3. Len(open') = Len(open) /\ (open' = <<>> <=> open = <<>>)
  BY <1>2, TopLen DEF TypeOK, StackTypeOK
<1>4. /\ closed_in_transaction' => connection' \in {"none", "dead"}
      /\ connection' = "none" /\ in_atomic_block' => closed_in_transaction'
  BY <1>1 DEF WriteRow, AOnCommitNow, AClose, ServerLost, StatementFails, AOnCommit, Run, Ride, Lose,
              Reject, Fail, Broken, Disconnected, session, flags, Nesting
<1> QED
  BY <1>1, <1>3, <1>4 DEF Nesting

\* The transaction interface is for the time outside every block.
LEMMA ManualNesting ==
  ASSUME Nesting, ACommit \/ ACommitFails \/ ARollback \/ \E on \in BOOLEAN : ASetAutocommit(on)
  PROVE  Nesting' /\ ~in_atomic_block
<1>1. ~in_atomic_block /\ UNCHANGED <<in_atomic_block, savepoint_ids, open, closed_in_transaction>>
  BY DEF ACommit, ACommitFails, ARollback, ASetAutocommit, Unmanaged, stack, flags
<1>2. connection' \in {connection, "dead"}
  BY DEF ACommit, ACommitFails, ARollback, ASetAutocommit, Commit, Rollback, Fail, Broken, session
<1> QED
  BY <1>1, <1>2 DEF Nesting

(* Nesting holds of every reachable state, whoever manages transactions.   *)
LEMMA NestingInvariant == Spec => []Nesting
<1>1. Init => Nesting
  BY DEF Init, SessionInit, Nesting
<1>2. TypeOK /\ Nesting /\ [Next]_vars => Nesting'
  <2> SUFFICES ASSUME TypeOK, Nesting, [Next]_vars PROVE Nesting'
    OBVIOUS
  <2>1. CASE Next
    BY <2>1, ConnectNesting, EnterNesting, ExitNesting, BodyNesting, ManualNesting DEF Next
  <2>2. CASE UNCHANGED vars
    BY <2>2 DEF vars, session, stack, flags, Nesting
  <2> QED
    BY <2>1, <2>2
<1> QED
  BY <1>1, <1>2, TypeCorrect, PTL DEF Spec

(* A transaction the program manages itself is never committed, and never  *)
(* put into autocommit, by a block entered in it: every such block has an  *)
(* entry in savepoint_ids, so none of them is left as an outermost one.    *)
THEOREM LeavesManualTransactionsAlone == Spec => ManualTransactionIsLeftAlone
<1>1. TypeOK /\ Nesting /\ [Next]_vars
        => [in_atomic_block /\ ~commit_on_exit => UNCHANGED <<committed, autocommit>>]_vars
  <2> SUFFICES ASSUME TypeOK, Nesting, Next, in_atomic_block, ~commit_on_exit
               PROVE  UNCHANGED <<committed, autocommit>>
    OBVIOUS
  <2>1. ASSUME NEW b \in Kinds, AEnter(b)
        PROVE  UNCHANGED <<committed, autocommit>>
    BY <2>1 DEF AEnter, EnterSavepoint, EnterWithoutSavepoint, EnterSavepointFails, EnterTransaction,
                EnterTransactionFails, Savepoint, Fail, Reject, session
  <2>2. ASSUME NEW raised \in BOOLEAN, AExit(raised)
        PROVE  UNCHANGED <<committed, autocommit>>
    <3>1. ~LeaveOutermost
      <4>1. Len(open) = Len(savepoint_ids) /\ open # <<>>
        BY <2>2, ExitWays DEF Leave, Nesting
      <4> QED
        BY <4>1, EmptyLen DEF LeaveOutermost, TypeOK, StackTypeOK
    <3> QED
      BY <2>2, <3>1
         DEF AExit, ExitClosed, ExitKeep, ExitRelease, ExitReleaseRefused, ExitMark, ExitRollbackTo,
             ExitSavepointLost, ExitCommit, ExitCommitRefused, ExitCommitUnacknowledged, ExitRollback,
             ExitConnectionLost, LeaveNested, Release, RollbackTo, Fail, session
  <2>3. ASSUME \/ WriteRow \/ AOnCommitNow \/ AClose \/ ServerLost
               \/ \E marked \in BOOLEAN : StatementFails(marked)
               \/ \E robust \in BOOLEAN : AOnCommit(robust)
        PROVE  UNCHANGED <<committed, autocommit>>
    BY <2>3 DEF WriteRow, AOnCommitNow, AClose, ServerLost, StatementFails, AOnCommit, Run, Ride, Lose,
                Reject, Fail, session, Nesting
  <2> QED
    BY <2>1, <2>2, <2>3, ConnectNesting, ManualNesting DEF Next
<1> QED
  BY <1>1, TypeCorrect, NestingInvariant, PTL DEF Spec, ManualTransactionIsLeftAlone

-----------------------------------------------------------------------------
(* The savepoints of the wrapper and of the server.                        *)

\* The connection still answers: it is good, or its loss goes unnoticed because
\* nothing is under way.
Alive == connection = "good" \/ Quiet

Sids ==
  /\ \A i \in DOMAIN savepoint_ids : savepoint_ids[i] <= savepoint_state
  /\ InOrder(savepoint_ids)

\* SavepointsMatchServer, for the time until the loss is noticed too.
Match == Alive => ToSet(marks) = ToSet(savepoint_ids) \ {None} /\ InOrder(marks)

(* What is left of the sids in order when the stack is cut below one.      *)
LEMMA CutSids ==
  ASSUME NEW S \in SUBSET Nat, NEW s \in Seq(S), InOrder(s), NEW i \in DOMAIN s
  PROVE  /\ InOrder(SubSeq(s, 1, i - 1))
         /\ s[i] # None => ToSet(SubSeq(s, 1, i - 1)) \ {None}
                             = {x \in ToSet(s) \ {None} : x < s[i]}
         /\ \A j \in DOMAIN SubSeq(s, 1, i - 1) : j \in DOMAIN s /\ SubSeq(s, 1, i - 1)[j] = s[j]
<1> DEFINE t == SubSeq(s, 1, i - 1)
<1>1. Len(s) \in Nat /\ i \in 1 .. Len(s) /\ DOMAIN s = 1 .. Len(s)
  BY LenProperties
<1>2. \A j \in DOMAIN s : s[j] \in Nat
  BY ElementOfSeq, LenProperties
<1>3. t \in Seq(S) /\ Len(t) = i - 1 /\ \A j \in 1 .. i - 1 : t[j] = s[j]
  BY <1>1, PrefixType
<1>4. DOMAIN t = 1 .. i - 1
  BY <1>3, LenProperties
<1> HIDE DEF t
<1>5. \A j \in DOMAIN t : j \in DOMAIN s /\ t[j] = s[j] /\ j < i
  BY <1>1, <1>3, <1>4
<1>6. InOrder(t)
  BY <1>5 DEF InOrder
<1>7. ASSUME s[i] # None
      PROVE  ToSet(t) \ {None} = {x \in ToSet(s) \ {None} : x < s[i]}
  <2>1. ASSUME NEW x \in ToSet(t) \ {None}
        PROVE  x \in ToSet(s) \ {None} /\ x < s[i]
    <3>1. PICK j \in DOMAIN t : x = t[j]
      BY DEF ToSet
    <3> QED
      BY <1>5, <1>7, <3>1 DEF ToSet, InOrder
  <2>2. ASSUME NEW x \in ToSet(s) \ {None}, x < s[i]
        PROVE  x \in ToSet(t)
    <3>1. PICK j \in DOMAIN s : x = s[j]
      BY DEF ToSet
    <3>2. ~(i < j) /\ j # i
      <4>1. i < j => s[i] < s[j]
        BY <3>1 DEF InOrder
      <4> QED
        BY <1>2, <2>2, <3>1, <4>1
    <3>3. j \in DOMAIN t
      BY <1>1, <1>4, <3>2
    <3> QED
      BY <1>5, <3>1, <3>3 DEF ToSet
  <2> QED
    BY <2>1, <2>2
<1> QED
  BY <1>5, <1>6, <1>7 DEF t

\* A new sid, larger than all before, or None.
LEMMA PushSid ==
  ASSUME NEW S \in SUBSET Nat, NEW s \in Seq(S), InOrder(s), NEW sid \in S,
         sid # None => \A i \in DOMAIN s : s[i] < sid
  PROVE  /\ InOrder(Append(s, sid))
         /\ ToSet(Append(s, sid)) = ToSet(s) \union {sid}
<1> DEFINE t == Append(s, sid)
           n == Len(s)
<1>1. n \in Nat /\ DOMAIN s = 1 .. n
  BY LenProperties
<1>2. /\ DOMAIN t = 1 .. n + 1 /\ t[n + 1] = sid
      /\ \A i \in 1 .. n : t[i] = s[i]
  BY AppendProperties, LenProperties
<1> HIDE DEF t, n
<1>3. InOrder(t)
  BY <1>1, <1>2 DEF InOrder
<1>4. ToSet(t) = ToSet(s) \union {sid}
  BY <1>1, <1>2 DEF ToSet
<1> QED
  BY <1>3, <1>4 DEF t

\* Taking the last entry off: what is left, with and without a savepoint.
LEMMA PopSid ==
  ASSUME TypeOK, Sids, savepoint_ids # <<>>
  PROVE  /\ InOrder(Front(savepoint_ids))
         /\ \A i \in DOMAIN Front(savepoint_ids) : Front(savepoint_ids)[i] <= savepoint_state
         /\ Sid = None => ToSet(Front(savepoint_ids)) \ {None} = ToSet(savepoint_ids) \ {None}
         /\ Sid # None => ToSet(Front(savepoint_ids)) \ {None}
                           = {x \in ToSet(savepoint_ids) \ {None} : x < Sid}
<1> DEFINE n == Len(savepoint_ids)
<1>1. /\ savepoint_ids \in Seq(SidOrNone) /\ SidOrNone \in SUBSET Nat
      /\ n \in DOMAIN savepoint_ids /\ Sid = savepoint_ids[n] /\ n \in Nat
      /\ DOMAIN savepoint_ids = 1 .. n
      /\ Front(savepoint_ids) = SubSeq(savepoint_ids, 1, n - 1)
  BY EmptySeq, LenProperties DEF TypeOK, StackTypeOK, SidOrNone, Sid, Last, Front
<1>2. /\ InOrder(Front(savepoint_ids))
      /\ Sid # None => ToSet(Front(savepoint_ids)) \ {None}
                         = {x \in ToSet(savepoint_ids) \ {None} : x < Sid}
      /\ \A j \in DOMAIN Front(savepoint_ids) :
            j \in DOMAIN savepoint_ids /\ Front(savepoint_ids)[j] = savepoint_ids[j]
  BY <1>1, CutSids DEF Sids
<1>3. ASSUME Sid = None
      PROVE  ToSet(Front(savepoint_ids)) \ {None} = ToSet(savepoint_ids) \ {None}
  <2>1. \A j \in 1 .. n - 1 : j \in DOMAIN Front(savepoint_ids)
    BY <1>1, FrontProp, LenProperties
  <2>2. \A j \in DOMAIN savepoint_ids : j # n => j \in 1 .. n - 1
    <3> HIDE DEF n
    <3> QED  BY <1>1
  <2>3. \A j \in DOMAIN savepoint_ids : savepoint_ids[j] # None => j \in DOMAIN Front(savepoint_ids)
    BY <1>1, <1>3, <2>1, <2>2
  <2> QED
    BY <1>2, <2>3 DEF ToSet
<1> QED
  BY <1>2, <1>3 DEF Sids

\* Releasing the wrapper's last savepoint, or rolling back to it, leaves the
\* server with the older ones.
LEMMA CutMarks ==
  ASSUME TypeOK, InOrder(marks), NEW sid, Release(sid) \/ RollbackTo(sid)
  PROVE  /\ sid \in 1 .. MaxSid /\ sid \in ToSet(marks)
         /\ InOrder(marks')
         /\ ToSet(marks') = {x \in ToSet(marks) \ {None} : x < sid}
<1>1. PICK i \in DOMAIN marks : marks[i] = sid /\ marks' = SubSeq(marks, 1, i - 1)
  BY DEF Release, RollbackTo
<1>2. marks \in Seq(1 .. MaxSid) /\ 1 .. MaxSid \in SUBSET Nat
  BY DEF TypeOK, SessionTypeOK
<1>3. \A j \in DOMAIN marks : marks[j] \in 1 .. MaxSid
  BY <1>2, ElementOfSeq, LenProperties
<1>4. /\ InOrder(marks')
      /\ marks[i] # None => ToSet(marks') \ {None} = {x \in ToSet(marks) \ {None} : x < marks[i]}
      /\ \A j \in DOMAIN marks' : j \in DOMAIN marks /\ marks'[j] = marks[j]
  BY <1>1, <1>2, CutSids
<1>5. marks[i] # None /\ \A j \in DOMAIN marks' : marks'[j] # None
  BY <1>3, <1>4 DEF None
<1>6. None \notin ToSet(marks')
  BY <1>5 DEF ToSet
<1>7. ToSet(marks') = {x \in ToSet(marks) \ {None} : x < sid}
  BY <1>1, <1>4, <1>5, <1>6, Zenon
<1>8. sid \in 1 .. MaxSid /\ sid \in ToSet(marks)
  BY <1>1, <1>3 DEF ToSet
<1> QED
  BY <1>4, <1>7, <1>8

\* Entering a block issues a sid that is larger than all before, or pushes None.
LEMMA EnterMatch ==
  ASSUME TypeOK, Sids, Match, NEW b \in Kinds, AEnter(b)
  PROVE  Sids' /\ Match'
<1>1. savepoint_ids \in Seq(SidOrNone) /\ marks \in Seq(1 .. MaxSid)
      /\ SidOrNone \in SUBSET Nat /\ 1 .. MaxSid \in SUBSET Nat /\ savepoint_state \in Nat
  BY DEF TypeOK, SessionTypeOK, StackTypeOK, SidOrNone
<1>2. \A i \in DOMAIN savepoint_ids : savepoint_ids[i] \in Nat /\ savepoint_ids[i] <= savepoint_state
  BY <1>1, ElementOfSeq, LenProperties DEF Sids
<1>0. \A x \in ToSet(savepoint_ids) : x \in Nat /\ x <= savepoint_state
  BY <1>2 DEF ToSet
<1>3. CASE EnterSavepoint(b)
  <2>1. NextSid \in 1 .. MaxSid /\ NextSid \in SidOrNone /\ NextSid # None
    BY <1>1, <1>3, ConstantsAssumption DEF EnterSavepoint, NextSid, SidOrNone, None
  <2>2. savepoint_ids' = Append(savepoint_ids, NextSid) /\ marks' = Append(marks, NextSid)
        /\ connection = "good" /\ connection' = "good" /\ savepoint_state' = NextSid
    BY <1>3 DEF EnterSavepoint, Entered, Savepoint, Usable
  <2>3. \A i \in DOMAIN savepoint_ids : savepoint_ids[i] < NextSid
    BY <1>1, <1>2 DEF NextSid
  <2>4. /\ InOrder(savepoint_ids')
        /\ ToSet(savepoint_ids') = ToSet(savepoint_ids) \union {NextSid}
    BY <1>1, <2>1, <2>2, <2>3, PushSid DEF Sids
  <2>5. \A i \in DOMAIN savepoint_ids' : savepoint_ids'[i] <= savepoint_state'
    <3>1. \A x \in ToSet(savepoint_ids') : x <= NextSid
      BY <1>1, <1>0, <2>1, <2>4 DEF NextSid
    <3> QED
      BY <2>2, <3>1 DEF ToSet
  <2>6. ToSet(marks) = ToSet(savepoint_ids) \ {None} /\ InOrder(marks)
    BY <2>2 DEF Match, Alive
  <2>7. \A i \in DOMAIN marks : marks[i] < NextSid
    BY <2>3, <2>6 DEF ToSet
  <2>8. InOrder(marks') /\ ToSet(marks') = ToSet(marks) \union {NextSid}
    <3>1. InOrder(Append(marks, NextSid)) /\ ToSet(Append(marks, NextSid)) = ToSet(marks) \union {NextSid}
      <4>1. PICK S \in SUBSET Nat : marks \in Seq(S) /\ NextSid \in S
        BY <1>1, <2>1
      <4> QED
        BY <2>6, <2>7, <4>1, PushSid
    <3> QED
      BY <2>2, <3>1
  <2>9. ToSet(marks') = ToSet(savepoint_ids') \ {None}
    BY <2>1, <2>4, <2>6, <2>8
  <2> QED
    BY <2>4, <2>5, <2>8, <2>9 DEF Sids, Match
<1>4. CASE EnterWithoutSavepoint(b)
  <2>1. None \in SidOrNone
    BY ConstantsAssumption DEF None, SidOrNone
  <2>2. savepoint_ids' = Append(savepoint_ids, None) /\ UNCHANGED <<session, savepoint_state>>
    BY <1>4 DEF EnterWithoutSavepoint, Entered, counters
  <2>3. InOrder(savepoint_ids') /\ ToSet(savepoint_ids') = ToSet(savepoint_ids) \union {None}
    BY <1>1, <2>1, <2>2, PushSid DEF Sids
  <2>4. \A i \in DOMAIN savepoint_ids' : savepoint_ids'[i] <= savepoint_state'
    <3>1. \A x \in ToSet(savepoint_ids') : x <= savepoint_state
      BY <1>1, <1>0, <2>3 DEF None
    <3> QED
      BY <2>2, <3>1 DEF ToSet
  <2>5. Match'
    BY <2>2, <2>3 DEF Match, Alive, Quiet, session
  <2> QED
    BY <2>3, <2>4, <2>5 DEF Sids
<1>5. CASE EnterSavepointFails(b)
  <2>1. savepoint_ids' = savepoint_ids /\ savepoint_state' = savepoint_state + 1
    BY <1>5 DEF EnterSavepointFails, stack, NextSid
  <2>2. Sids'
    BY <1>1, <1>2, <2>1 DEF Sids
  <2>3. Match'
    BY <1>5, <2>1 DEF EnterSavepointFails, Fail, Broken, Reject, Match, Alive, Quiet
  <2> QED
    BY <2>2, <2>3
<1>6. CASE EnterTransaction(b) \/ EnterTransactionFails(b)
  BY <1>6 DEF EnterTransaction, EnterTransactionFails, session, stack, counters, Sids, Match, Alive, Quiet
<1> QED
  BY <1>3, <1>4, <1>5, <1>6 DEF AEnter

\* Leaving a block: the wrapper pops an entry, the server the same savepoint.
LEMMA ExitMatch ==
  ASSUME TypeOK, Nesting, Sids, Match, NEW raised \in BOOLEAN, AExit(raised)
  PROVE  Sids' /\ Match'
<1>1. savepoint_state' = savepoint_state
  BY ExitWays DEF Leave, counters
<1>2. CASE ExitClosed
  <2>1. ~Alive /\ ~Alive'
    BY <1>2 DEF ExitClosed, Nesting, Alive, Quiet, Disconnected, session
  <2>2. savepoint_ids = <<>> => savepoint_ids' = savepoint_ids
    BY <1>2 DEF ExitClosed
  <2>3. savepoint_ids # <<>> => savepoint_ids' = Front(savepoint_ids)
    BY <1>2 DEF ExitClosed
  <2> QED
    BY <1>1, <2>1, <2>2, <2>3, PopSid DEF Match, Sids
<1>3. CASE LeaveNested
  <2>1. savepoint_ids # <<>> /\ savepoint_ids' = Front(savepoint_ids)
    BY <1>3 DEF LeaveNested
  <2>2. Sids'
    BY <1>1, <2>1, PopSid DEF Sids
  <2>3. Sid = None => ToSet(savepoint_ids') \ {None} = ToSet(savepoint_ids) \ {None}
    BY <2>1, PopSid
  <2>4. Sid # None => ToSet(savepoint_ids') \ {None} = {x \in ToSet(savepoint_ids) \ {None} : x < Sid}
    BY <2>1, PopSid
  <2>5. CASE ExitKeep \/ ExitMark
    BY <2>2, <2>3, <2>5 DEF ExitKeep, ExitMark, session, Match, Alive, Quiet
  <2>6. CASE ExitRelease \/ ExitReleaseRefused \/ ExitRollbackTo
    <3>1. Sid # None /\ (Release(Sid) \/ RollbackTo(Sid)) /\ Alive
      BY <2>6 DEF ExitRelease, ExitReleaseRefused, ExitRollbackTo, Release, RollbackTo, Usable, Alive
    <3>2. InOrder(marks') /\ ToSet(marks') = {x \in ToSet(marks) \ {None} : x < Sid}
      BY <3>1, CutMarks DEF Match
    <3>3. ToSet(marks') = {x \in ToSet(savepoint_ids) \ {None} : x < Sid}
      BY <3>1, <3>2 DEF Match
    <3> QED
      BY <2>2, <2>4, <3>1, <3>2, <3>3 DEF Match
  <2>7. CASE ExitSavepointLost
    BY <2>2, <2>7 DEF ExitSavepointLost, Fail, Broken, Match, Alive, Quiet
  <2> QED
    BY <1>3, <2>1, <2>5, <2>6, <2>7, <1>2
       DEF AExit, ExitCommit, ExitCommitRefused, ExitCommitUnacknowledged, ExitRollback,
           ExitConnectionLost, LeaveOutermost
<1>4. CASE LeaveOutermost
  <2>1. savepoint_ids = <<>> /\ savepoint_ids' = <<>>
    BY <1>4 DEF LeaveOutermost
  <2>2. marks' = <<>>
    BY <2>1, <1>4, Zenon
       DEF AExit, ExitClosed, ExitKeep, ExitRelease, ExitReleaseRefused, ExitMark, ExitRollbackTo,
         ExitSavepointLost, ExitCommit, ExitCommitRefused, ExitCommitUnacknowledged, ExitRollback,
         ExitConnectionLost, LeaveNested, LeaveOutermost, Commit, Rollback, Connected, Disconnected,
         NoTransaction
  <2> QED
    BY <1>1, <2>1, <2>2 DEF Sids, Match, InOrder, ToSet
<1> QED
  BY <1>2, <1>3, <1>4, ExitWays DEF Ways

\* Every other step leaves both stacks alone or empties them.
LEMMA OtherMatch ==
  ASSUME TypeOK, Nesting, Sids, Match,
         \/ Connect \/ ConnectRefused
         \/ WriteRow \/ AOnCommitNow \/ AClose \/ ServerLost
         \/ \E marked \in BOOLEAN : StatementFails(marked)
         \/ \E robust \in BOOLEAN : AOnCommit(robust)
         \/ ACommit \/ ACommitFails \/ ARollback
         \/ \E on \in BOOLEAN : ASetAutocommit(on)
  PROVE  Sids' /\ Match'
<1>1. CASE Connect \/ ConnectRefused
  BY <1>1, ConnectNesting
     DEF Connect, ConnectRefused, ResetByConnect, MayConnect, Connected, NoTransaction, session,
         Sids, Match, Alive, Quiet, InOrder, ToSet, counters, Nesting
<1>2. CASE \/ WriteRow \/ AOnCommitNow \/ AClose \/ ServerLost
           \/ \E marked \in BOOLEAN : StatementFails(marked)
           \/ \E robust \in BOOLEAN : AOnCommit(robust)
  <2>1. UNCHANGED <<savepoint_ids, savepoint_state>>
    BY <1>2 DEF WriteRow, AOnCommitNow, AClose, ServerLost, StatementFails, AOnCommit, stack, counters
  <2>2. Alive' => Alive /\ marks' = marks
    BY <1>2 DEF WriteRow, AOnCommitNow, AClose, ServerLost, StatementFails, AOnCommit, Run, Ride, Lose,
                Reject, Fail, Broken, Disconnected, session, Alive, Quiet, Usable
  <2> QED
    BY <2>1, <2>2 DEF Sids, Match
<1>3. CASE ACommit \/ ACommitFails \/ ARollback \/ \E on \in BOOLEAN : ASetAutocommit(on)
  <2>1. savepoint_ids = <<>> /\ savepoint_ids' = <<>>
    BY <1>3, ManualNesting DEF Nesting, ACommit, ACommitFails, ARollback, ASetAutocommit, stack
  <2>2. Alive' => marks' = <<>> \/ (Alive /\ marks' = marks)
    BY <1>3 DEF ACommit, ACommitFails, ARollback, ASetAutocommit, Commit, Rollback, Fail, Broken,
                NoTransaction, session, Alive, Quiet
  <2> QED
    BY <2>1, <2>2 DEF Sids, Match, InOrder, ToSet
<1> QED
  BY <1>1, <1>2, <1>3

(* Sids and Match hold of every reachable state.                           *)
LEMMA MatchInvariant == Spec => [](Sids /\ Match)
<1>1. Init => Sids /\ Match
  BY DEF Init, SessionInit, Sids, Match, InOrder, ToSet
<1>2. TypeOK /\ Nesting /\ Sids /\ Match /\ [Next]_vars => (Sids /\ Match)'
  <2> SUFFICES ASSUME TypeOK, Nesting, Sids, Match, [Next]_vars PROVE Sids' /\ Match'
    OBVIOUS
  <2>1. CASE Next
    BY <2>1, EnterMatch, ExitMatch, OtherMatch DEF Next
  <2>2. CASE UNCHANGED vars
    BY <2>2 DEF vars, session, stack, counters, Sids, Match, Alive, Quiet
  <2> QED
    BY <2>1, <2>2
<1> QED
  BY <1>1, <1>2, TypeCorrect, NestingInvariant, PTL DEF Spec

(* The savepoints the wrapper still has to release are the server's, in    *)
(* order, whatever failed, was refused or went unnoticed before.           *)
THEOREM SavepointsAgree == Spec => []SavepointsMatchServer
<1>1. Sids /\ Match => SavepointsMatchServer
  BY DEF Sids, Match, Alive, SavepointsMatchServer
<1> QED
  BY <1>1, MatchInvariant, PTL

-----------------------------------------------------------------------------
(* How often a hook runs.                                                  *)

\* A hook that waits has not run yet, and effects that were not asked for yet
\* neither wait nor ran.
RunAtMostOnce ==
  /\ \A h \in Effect : fired[h] <= 1 /\ (fired[h] > 0 => h <= issued)
  /\ \A k \in run_on_commit : fired[k.func] = 0 /\ k.func <= issued

\* Running the waiting hooks, all of them or the first ones, runs each once.
LEMMA RunOnce ==
  ASSUME TypeOK, RunAtMostOnce, issued' = issued,
         RunHooks(run_on_commit) \/ ClearHooks \/ HooksStay \/ (\E sid : ForgetHooks(sid))
         \/ (run_on_commit' = {} /\ fired' = fired)
  PROVE  RunAtMostOnce'
<1>1. fired \in [Effect -> Nat] /\ run_on_commit \subseteq Hook /\ issued \in Nat
  BY DEF TypeOK, HooksTypeOK
<1>2. ASSUME NEW P \in SUBSET run_on_commit, fired' = Ran(P)
      PROVE  \A h \in Effect : fired'[h] <= 1 /\ (fired'[h] > 0 => h <= issued')
  <2>1. \A h \in Effect : fired'[h] = IF \E k \in P : k.func = h THEN fired[h] + 1 ELSE fired[h]
    BY <1>2 DEF Ran
  <2> QED
    BY <1>1, <2>1 DEF RunAtMostOnce
<1>3. CASE RunHooks(run_on_commit)
  <2>1. PICK P \in SUBSET run_on_commit : fired' = Ran(P)
    BY <1>3 DEF RunHooks
  <2>2. run_on_commit' = {}
    BY <1>3 DEF RunHooks
  <2> QED
    BY <1>2, <2>1, <2>2 DEF RunAtMostOnce
<1>4. CASE fired' = fired /\ run_on_commit' \subseteq run_on_commit
  BY <1>4 DEF RunAtMostOnce
<1> QED
  BY <1>3, <1>4 DEF ClearHooks, HooksStay, hooks, ForgetHooks

\* A new effect has neither run nor does it wait.
LEMMA NewOnce ==
  ASSUME TypeOK, RunAtMostOnce, WriteRow \/ AOnCommitNow \/ \E robust \in BOOLEAN : AOnCommit(robust)
  PROVE  RunAtMostOnce'
<1>1. fired \in [Effect -> Nat] /\ run_on_commit \subseteq Hook /\ issued \in Nat
      /\ issued' = issued + 1 /\ New = issued + 1 /\ New \in Effect
  BY ConstantsAssumption DEF TypeOK, HooksTypeOK, WriteRow, AOnCommitNow, AOnCommit, New, Effect
<1>2. \A h \in Effect : h \in Nat /\ fired[h] \in Nat
  BY <1>1 DEF Effect
<1>3. fired[New] = 0
  BY <1>1, <1>2 DEF RunAtMostOnce
<1>4. \A k \in run_on_commit : k.func \in Effect /\ k.func \in Nat
  BY <1>1 DEF Hook, Effect
<1>5. CASE WriteRow
  BY <1>1, <1>2, <1>4, <1>5 DEF WriteRow, hooks, RunAtMostOnce
<1>6. CASE AOnCommitNow
  <2>1. \A h \in Effect : fired'[h] = IF h = New THEN 1 ELSE fired[h]
    BY <1>1, <1>3, <1>6 DEF AOnCommitNow
  <2>2. run_on_commit' = run_on_commit /\ \A k \in run_on_commit : k.func # New
    BY <1>1, <1>4, <1>6 DEF AOnCommitNow, RunAtMostOnce
  <2> QED
    BY <1>1, <1>2, <1>4, <2>1, <2>2 DEF RunAtMostOnce
<1>7. ASSUME NEW robust \in BOOLEAN, AOnCommit(robust)
      PROVE  RunAtMostOnce'
  <2>1. fired' = fired
        /\ run_on_commit' = run_on_commit \union {[func |-> New, sids |-> SidsNow, robust |-> robust]}
    BY <1>7 DEF AOnCommit
  <2> QED
    BY <1>1, <1>2, <1>3, <1>4, <2>1 DEF RunAtMostOnce
<1> QED
  BY <1>5, <1>6, <1>7

(* RunAtMostOnce holds of every reachable state: the list is cleared       *)
(* before its hooks run.                                                   *)
LEMMA RunAtMostOnceInvariant == Spec => []RunAtMostOnce
<1>1. Init => RunAtMostOnce
  BY DEF Init, RunAtMostOnce
<1>2. TypeOK /\ RunAtMostOnce /\ [Next]_vars => RunAtMostOnce'
  <2> SUFFICES ASSUME TypeOK, RunAtMostOnce, [Next]_vars PROVE RunAtMostOnce'
    OBVIOUS
  <2>1. CASE WriteRow \/ AOnCommitNow \/ \E robust \in BOOLEAN : AOnCommit(robust)
    BY <2>1, NewOnce
  <2>2. CASE UNCHANGED vars
    BY <2>2 DEF vars, hooks, counters, RunAtMostOnce
  <2>3. ASSUME NEW b \in Kinds, AEnter(b)
        PROVE  HooksStay /\ issued' = issued
    BY <2>3 DEF AEnter, EnterSavepoint, EnterWithoutSavepoint, EnterSavepointFails, EnterTransaction,
                EnterTransactionFails, HooksStay, counters
  <2>4. ASSUME NEW raised \in BOOLEAN, AExit(raised)
        PROVE  /\ issued' = issued
               /\ \/ RunHooks(run_on_commit) \/ ClearHooks \/ HooksStay \/ (\E sid : ForgetHooks(sid))
                  \/ (run_on_commit' = {} /\ fired' = fired)
    <3>1. issued' = issued
      BY <2>4, ExitWays DEF Leave, counters
    <3> QED
      BY <2>4, <3>1
         DEF AExit, ExitClosed, ExitKeep, ExitRelease, ExitReleaseRefused, ExitMark, ExitRollbackTo,
             ExitSavepointLost, ExitCommit, ExitCommitRefused, ExitCommitUnacknowledged, ExitRollback,
             ExitConnectionLost, HooksStay
  <2>5. CASE \/ Connect \/ ConnectRefused \/ AClose \/ ServerLost
             \/ \E marked \in BOOLEAN : StatementFails(marked)
             \/ ACommit \/ ACommitFails \/ ARollback
             \/ \E on \in BOOLEAN : ASetAutocommit(on)
    <3>1. issued' = issued
      BY <2>5 DEF Connect, ConnectRefused, AClose, ServerLost, StatementFails, ACommit, ACommitFails,
                  ARollback, ASetAutocommit, counters
    <3>2. \/ RunHooks(run_on_commit) \/ HooksStay
          \/ (run_on_commit' \in {run_on_commit, {}} /\ fired' = fired)
      BY <2>5 DEF Connect, ConnectRefused, AClose, ServerLost, StatementFails, ACommit, ACommitFails,
                  ARollback, ASetAutocommit, HooksStay, hooks
    <3>3. CASE run_on_commit' = run_on_commit /\ fired' = fired
      BY <3>1, <3>3 DEF RunAtMostOnce
    <3> QED
      BY <3>1, <3>2, <3>3, RunOnce
  <2> QED
    BY <2>1, <2>2, <2>3, <2>4, <2>5, RunOnce DEF Next
<1> QED
  BY <1>1, <1>2, TypeCorrect, PTL DEF Spec

(* However a block is left, however often the wrapper connects again and   *)
(* whatever the program does with autocommit, no hook runs twice: the list *)
(* is cleared before its hooks run.                                        *)
THEOREM HooksRunAtMostOnce == Spec => []HooksRunOnce
<1>1. RunAtMostOnce => HooksRunOnce
  BY DEF RunAtMostOnce, HooksRunOnce
<1> QED
  BY <1>1, RunAtMostOnceInvariant, PTL

=============================================================================
