---------------------------- MODULE MCConnections ----------------------------
(***************************************************************************)
(* Connections for TLC: the programs and the settings they run with.       *)
(***************************************************************************)
EXTENDS Connections

Program(parents, kinds, statements, size) ==
  [parents |-> parents, kinds |-> kinds, todo |-> statements, first |-> TRUE,
   pooled |-> TRUE, size |-> size, manual |-> FALSE, checks |-> FALSE,
   recycles |-> 0, lossy |-> FALSE, cancellation |-> FALSE]

\* A request awaits a task that uses its wrapper and one with its own.
Fork == [Program(<<0, 1, 1>>, <<"request", "plain", "independent">>, <<1, 2, 1>>, 2)
           EXCEPT !.manual = TRUE, !.cancellation = TRUE]

\* A request that may not have queried yet, and a temporary connection.
Version == [Program(<<0, 1, 1>>, <<"request", "temporary", "independent">>, <<1, 1, 1>>, 1)
              EXCEPT !.first = FALSE, !.manual = TRUE, !.cancellation = TRUE]

\* Two requests hold the whole pool while they await independent tasks.
Exhausted == Program(<<0, 0, 1, 2>>, <<"request", "request", "independent", "independent">>,
                     <<1, 1, 1, 1>>, 2)

\* A worker that keeps its connection and recycles it between its jobs.
Worker(checks, manual) ==
  [Program(<<0, 1>>, <<"request", "plain">>, <<3, 1>>, 1)
     EXCEPT !.pooled = FALSE, !.checks = checks, !.manual = manual, !.recycles = 2,
            !.lossy = TRUE, !.cancellation = TRUE]

Programs == {Fork, Version, Exhausted} \union {Worker(c, m) : c \in BOOLEAN, m \in BOOLEAN}

ASSUME MCAssumption == OneUserEach /\ LooksUpFirst

=============================================================================
