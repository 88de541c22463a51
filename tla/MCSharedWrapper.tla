--------------------------- MODULE MCSharedWrapper ---------------------------
(***************************************************************************)
(* SharedWrapper for TLC: the programs, which say who executes which flow  *)
(* and which flow awaits which.                                            *)
(***************************************************************************)
EXTENDS SharedWrapper

Program(tasks, parents, writes, connected, cancellation) ==
  [tasks |-> tasks, parents |-> parents, bare |-> {}, writes |-> writes,
   savepoint |-> TRUE, connected |-> connected, cancellation |-> cancellation]

\* The block of task 1 gathers two statements and a block as tasks 2 to 4;
\* another block of task 1 follows.
Family ==
  [Program(<<1, 2, 3, 4, 1>>, <<0, 1, 1, 1, 0>>, 2, FALSE, "task") EXCEPT !.bare = {2, 3}]

\* One task: a block with a nested block, and a block after it.
Alone == Program(<<1, 1, 1>>, <<0, 1, 0>>, 2, FALSE, "task")

\* Two tasks that race to open the connection, also while one of them is cancelled,
\* or find it open.
Fresh == Program(<<1, 2>>, <<0, 0>>, 1, FALSE, "none")
FreshCancelled == Program(<<1, 2>>, <<0, 0>>, 1, FALSE, "task")
Connected == Program(<<1, 2>>, <<0, 0>>, 2, TRUE, "none")

\* The first two are programs the theorems are about.
ASSUME MCAssumption == \A s \in {Family, Alone} : OwnedByOneTask(s)

SharedPrograms == {Family, Alone, Connected, Fresh, FreshCancelled}
FreshPrograms == {Fresh}

=============================================================================
