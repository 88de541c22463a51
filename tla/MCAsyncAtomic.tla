---------------------------- MODULE MCAsyncAtomic ----------------------------
(***************************************************************************)
(* AsyncAtomic for TLC: the blocks a program may use, as sets the          *)
(* configurations choose from.                                             *)
(***************************************************************************)
EXTENDS AsyncAtomic

AllKinds == AtomicBlock

\* durable only decides whether a block may be entered; without it the state
\* space is half the size at every depth.
PlainKinds == [savepoint : BOOLEAN, durable : {FALSE}]

=============================================================================
