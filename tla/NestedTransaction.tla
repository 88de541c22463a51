-------------------------- MODULE NestedTransaction --------------------------
(***************************************************************************)
(* What nested `async with aatomic()` blocks promise the program that uses *)
(* them, with no connection, no savepoint and no flag in sight.  A block   *)
(* owns the effects done in it.  Leaving a block either gives them to the  *)
(* enclosing block (to the database, for the outermost one) or takes them  *)
(* all back; a block whose work cannot be taken back alone dooms the       *)
(* enclosing one.  Nothing else ever becomes durable, and an on-commit     *)
(* hook only runs together with the commit of the block it belongs to.     *)
(***************************************************************************)
EXTENDS Naturals, Sequences, SequencesExt

CONSTANT Effect  \* rows written and hooks registered

VARIABLES
  blocks,   \* the blocks entered, innermost last
  durable,  \* the effects that survive
  fired     \* the hooks that ran

vars == <<blocks, durable, fired>>

Block == [work : SUBSET Effect, doomed : BOOLEAN]

TypeOK ==
  /\ blocks \in Seq(Block)
  /\ durable \subseteq Effect
  /\ fired \subseteq Effect

Init == blocks = <<>> /\ durable = {} /\ fired = {}

\* A block entered in a doomed one is doomed with it.
Enter ==
  /\ blocks' = Append(blocks, [work   |-> {},
                               doomed |-> blocks # <<>> /\ Last(blocks).doomed])
  /\ UNCHANGED <<durable, fired>>

Do(e) ==
  /\ blocks # <<>>
  /\ blocks' = [blocks EXCEPT ![Len(blocks)].work = @ \union {e}]
  /\ UNCHANGED <<durable, fired>>

\* Outside any block an effect is durable at once, a hook runs at once.
DoAlone(e) ==
  /\ blocks = <<>>
  /\ durable' = durable \union {e}
  /\ fired' \in {fired, fired \union {e}}
  /\ UNCHANGED blocks

\* A statement failed: the innermost block can only be taken back.
Doom ==
  /\ blocks # <<>>
  /\ blocks' = [blocks EXCEPT ![Len(blocks)].doomed = TRUE]
  /\ UNCHANGED <<durable, fired>>

\* Leaving a nested block and keeping its work.
Keep ==
  /\ Len(blocks) > 1
  /\ ~Last(blocks).doomed
  /\ blocks' = [Front(blocks) EXCEPT ![Len(blocks) - 1].work = @ \union Last(blocks).work]
  /\ UNCHANGED <<durable, fired>>

\* Leaving a nested block and taking its work back, alone or with the parent.
Discard ==
  /\ Len(blocks) > 1
  /\ \E doomParent \in BOOLEAN :
       blocks' = [Front(blocks) EXCEPT ![Len(blocks) - 1].doomed = @ \/ doomParent]
  /\ UNCHANGED <<durable, fired>>

\* Leaving the outermost block: everything or nothing.  The hooks that run
\* are among the effects that become durable in the same step.
Publish ==
  /\ Len(blocks) = 1
  /\ ~blocks[1].doomed
  /\ blocks' = <<>>
  /\ durable' = durable \union blocks[1].work
  /\ \E hooks \in SUBSET (blocks[1].work \ fired) : fired' = fired \union hooks

Abandon ==
  /\ Len(blocks) = 1
  /\ blocks' = <<>>
  /\ UNCHANGED <<durable, fired>>

Next ==
  \/ Enter \/ Doom \/ Keep \/ Discard \/ Publish \/ Abandon
  \/ \E e \in Effect : Do(e) \/ DoAlone(e)

Spec == Init /\ [][Next]_vars

=============================================================================
