--------------------------- MODULE PostgresSession ---------------------------
(***************************************************************************)
(* One PostgreSQL session as django-async-backend uses it through psycopg: *)
(* the handle kept in self.connection, the transaction status libpq        *)
(* reports, the server's savepoint stack, and the effects that are only    *)
(* pending or already durable.  Neither psycopg nor PostgreSQL is part of  *)
(* the repository; what is stated here is what base.py, transaction.py and *)
(* async_base.py rely on.                                                  *)
(*                                                                         *)
(* An effect is a natural number: a row written by the program, or the     *)
(* mark left by registering an on-commit hook.  The mark rides in the same *)
(* frame as the rows written at that moment, so "the transaction of this   *)
(* hook committed" is a fact about the server and not about the wrapper.   *)
(***************************************************************************)
EXTENDS Naturals, Sequences, SequencesExt

VARIABLES
  connection,  \* self.connection: "none", "good", "lost" or "dead"
  tx,          \* libpq's transaction status
  marks,       \* the server's savepoints, oldest first
  frames,      \* frames[1]: pending effects below marks[1]; frames[i+1]: above marks[i]
  committed    \* the durable effects

session == <<connection, tx, marks, frames, committed>>

\* "lost": the backend is gone and psycopg has not noticed yet.
\* "dead": psycopg knows that the connection is closed or broken.
Handle == {"none", "good", "lost", "dead"}
TxStatus == {"idle", "intrans", "inerror", "unknown"}

\* The typing of a session whose savepoints are in S and effects in E.
SessionTypeOK(S, E) ==
  /\ connection \in Handle /\ tx \in TxStatus
  /\ marks \in Seq(S)
  /\ frames \in Seq(SUBSET E) /\ Len(frames) = Len(marks) + 1
  /\ committed \subseteq E

SessionInit ==
  /\ connection = "none"
  /\ tx = "idle"
  /\ marks = <<>>
  /\ frames = <<{}>>
  /\ committed = {}

\* A statement the server would run now.
Usable == connection = "good" /\ tx # "inerror"

\* COMMIT and ROLLBACK outside a transaction never reach the server, so they
\* succeed on a connection whose loss has not been noticed.
Quiet == connection \in {"good", "lost"} /\ tx = "idle"

Pending == UNION {frames[i] : i \in DOMAIN frames}

NoTransaction == marks' = <<>> /\ frames' = <<{}>>

AddToTop(e) == frames' = [frames EXCEPT ![Len(frames)] = @ \union {e}]

-----------------------------------------------------------------------------
Connected == connection' = "good" /\ tx' = "idle" /\ NoTransaction

Disconnected == connection' = "none" /\ tx' = "idle" /\ NoTransaction

Broken == connection' = "dead" /\ tx' = "unknown" /\ NoTransaction

\* A statement is run; outside autocommit the first one begins the transaction.
Run(e, autocommit) ==
  /\ Usable
  /\ UNCHANGED <<connection, marks>>
  /\ IF autocommit
       THEN committed' = committed \union {e} /\ UNCHANGED <<tx, frames>>
       ELSE AddToTop(e) /\ tx' = "intrans" /\ UNCHANGED committed

\* The server rejects a statement: inside a transaction nothing but a rollback
\* is accepted afterwards.
Reject(autocommit) ==
  /\ connection = "good"
  /\ tx' = IF autocommit THEN tx ELSE "inerror"
  /\ UNCHANGED <<connection, marks, frames, committed>>

\* Using a connection that is gone.
Fail ==
  /\ connection \in {"lost", "dead"}
  /\ Broken
  /\ UNCHANGED committed

\* The row a registered hook stands for: it shares the fate of a row the
\* program would have written at that point.
Ride(e) ==
  /\ IF Usable \/ Quiet THEN AddToTop(e) ELSE UNCHANGED frames
  /\ UNCHANGED <<connection, tx, marks, committed>>

-----------------------------------------------------------------------------
Savepoint(sid) ==
  /\ Usable
  /\ tx' = "intrans"
  /\ marks' = Append(marks, sid)
  /\ frames' = Append(frames, {})
  /\ UNCHANGED <<connection, committed>>

\* RELEASE SAVEPOINT: the effects above the savepoint join those below it.
Release(sid) ==
  /\ Usable
  /\ \E i \in DOMAIN marks :
       /\ marks[i] = sid
       /\ marks' = SubSeq(marks, 1, i - 1)
       /\ frames' = Append(SubSeq(frames, 1, i - 1),
                           UNION {frames[j] : j \in i .. Len(frames)})
  /\ UNCHANGED <<connection, tx, committed>>

\* ROLLBACK TO SAVEPOINT followed by RELEASE SAVEPOINT: the effects above it
\* are gone and the transaction is usable again.
RollbackTo(sid) ==
  /\ connection = "good"
  /\ \E i \in DOMAIN marks :
       /\ marks[i] = sid
       /\ marks' = SubSeq(marks, 1, i - 1)
       /\ frames' = SubSeq(frames, 1, i)
  /\ tx' = "intrans"
  /\ UNCHANGED <<connection, committed>>

\* COMMIT of an aborted transaction is answered with ROLLBACK and no error.
Commit ==
  /\ connection = "good" \/ Quiet
  /\ committed' = IF tx = "inerror" THEN committed ELSE committed \union Pending
  /\ tx' = "idle"
  /\ NoTransaction
  /\ UNCHANGED connection

Rollback ==
  /\ connection = "good" \/ Quiet
  /\ tx' = "idle"
  /\ NoTransaction
  /\ UNCHANGED <<connection, committed>>

\* The server goes away.  What it held is gone; libpq still shows the old status.
Lose ==
  /\ connection = "good"
  /\ connection' = "lost"
  /\ IF tx = "idle" THEN UNCHANGED <<marks, frames>> ELSE NoTransaction
  /\ UNCHANGED <<tx, committed>>

=============================================================================
