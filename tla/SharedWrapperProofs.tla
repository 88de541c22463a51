------------------------- MODULE SharedWrapperProofs -------------------------
(***************************************************************************)
(* Theorems about SharedWrapper: that calls wait where they were made, for *)
(* any tasks; and for one task with all the blocks, whatever others do on  *)
(* its wrapper while it awaits them, that a transaction is its own and the *)
(* wrapper is left as it was.                                              *)
(***************************************************************************)
EXTENDS SharedWrapper, SequenceTheorems, TLAPS

\* The kinds of what belongs to the flows, and of the connections.
FlowTypes ==
  /\ running \in Flow \union {None} /\ pc \in [Flow -> Label] /\ at \in [Flow -> Raw \union {None}]
  /\ sid \in [Flow -> Flow \union {None}] /\ leaving \in [Flow -> {"ok", "raised", "cancelled"}]
  /\ outcome \in [Flow -> {"none", "ok", "raised", "cancelled", "refused", "error"}]
  /\ wrote \in [Flow -> 0 .. Writes]

RowIds == Flow \X (1 .. Writes)
Saved == [by : Flow, rows : SUBSET RowIds]
RawState == [autocommit : BOOLEAN, tx : {"idle", "intrans", "inerror"}, rows : SUBSET RowIds,
             saved : Seq(Saved), queue : Seq(Flow)]

\* A call waits in the queue of the connection it was made on, once.
Lines ==
  \A c \in Raw : /\ IsInjective(raw[c].queue)
                 /\ \A f \in Flow : at[f] = c <=> f \in ToSet(raw[c].queue)

\* A flow that is at work has a connection, which is nobody's own before.
Linked ==
  /\ \A f \in Flow : pc[f] \notin {"start", "connecting", "done"} => connection # None
  /\ in_atomic_block => connection # None
  /\ \A f \in Flow : at[f] # None => pc[f] \in Command
  /\ \A f \in Flow : pc[f] \in {"start", "connecting"} =>
       connection # f /\ \A g \in Flow : at[g] # f

\* How far a flow has come says what it has written.
Written ==
  \A f \in Flow :
    /\ f \in Bare => /\ pc[f] \in {"start", "connecting", "configure", "settle", "bare", "row", "done"}
                     /\ pc[f] # "done" => wrote[f] = 0
    /\ pc[f] = "bare" => f \in Bare
    /\ pc[f] = "row" => wrote[f] < Writes
    /\ pc[f] = "children" => wrote[f] = 1

Calls ==
  /\ scenario \in Scenarios /\ FlowTypes /\ WrapperTypeOK
  /\ raw \in [Raw -> RawState] /\ committed \subseteq RowIds /\ Lines
  /\ Linked /\ Written

-----------------------------------------------------------------------------
(* One owner.                                                              *)

Top(f) == Parent[f] = None

\* Flows of one task follow each other, and a child works while it is awaited.
InTurn ==
  /\ \A f, g \in Flow :
       Parent[f] = Parent[g] /\ TaskOf[f] = TaskOf[g] /\ f < g /\ pc[g] # "start" => pc[f] = "done"
  /\ \A f \in Flow :
       ~Top(f) /\ pc[f] \notin {"start", "done"} => pc[Parent[f]] = "children"

Before == {"start", "connecting", "configure", "bare", "autocommit", "off"}
Begun == {"entered", "hook", "body", "row", "children", "exit"}
Ending == {"commit", "rollback", "finally", "on"}
Opening == {"block", "savepoint"}
Closing == {"release", "rollback_to", "tidy", "finally"}

\* Where a flow may be.
Place(f) ==
  /\ Top(f) /\ f \notin Bare => pc[f] \in Before \union Begun \union Ending \union {"done"}
  /\ Top(f) /\ f \in Bare => pc[f] \in Before \union {"row", "done"}
  /\ ~Top(f) /\ f \notin Bare =>
       /\ pc[f] \in Opening \union (Begun \ {"children"}) \union Closing \union {"start", "done"}
       /\ pc[f] \notin {"start", "done"} => TaskOf[f] = TaskOf[Parent[f]]
  /\ ~Top(f) /\ f \in Bare => pc[f] \in {"start", "bare", "row", "done"}

\* The blocks that are open: one outermost, and one nested in it.
InBlock(f) == Top(f) /\ f \notin Bare /\ pc[f] \in Begun \union Ending
Nested(g) == ~Top(g) /\ g \notin Bare /\ pc[g] \in Begun

\* The server's side of a connection, without those who wait for it.
Alike(r, s) == r.autocommit = s.autocommit /\ r.tx = s.tx /\ r.rows = s.rows /\ r.saved = s.saved

\* Every row in it, and every row a savepoint keeps, is of f or of a flow f awaits.
OwnRows(r, f) ==
  /\ \A row \in r.rows : Root(row[1]) = f
  /\ \A i \in DOMAIN r.saved : \A row \in r.saved[i].rows : Root(row[1]) = f

\* Outside the outermost block nothing is left.
AtRest ==
  /\ ~in_atomic_block /\ savepoint_ids = <<>> /\ atomic_blocks = <<>> /\ ~needs_rollback
  /\ autocommit <=> connection # None
  /\ connection # None => Alike(raw[connection], Opened(TRUE))

\* The stacks are as deep as the blocks.
Deep(f) ==
  /\ (\A g \in Children(f) : ~Nested(g)) => Len(atomic_blocks) = 1 /\ savepoint_ids = <<>>
  /\ \A g \in Children(f) : Nested(g) =>
       Len(savepoint_ids) = 1 /\ Len(atomic_blocks) = IF pc[g] = "entered" THEN 1 ELSE 2

\* In the outermost block the transaction is its own.
Within(f) ==
  /\ ~autocommit /\ ~raw[connection].autocommit /\ OwnRows(raw[connection], f)
  /\ in_atomic_block <=> pc[f] \in Begun
  /\ pc[f] \in Begun \ {"entered"} => Deep(f)
  /\ pc[f] \in Ending \union {"entered"} => atomic_blocks = <<>> /\ savepoint_ids = <<>>
  /\ pc[f] \in Ending => ~needs_rollback
  /\ pc[f] \in {"finally", "on"} =>
       raw[connection].tx = "idle" /\ raw[connection].rows = {} /\ raw[connection].saved = <<>>

\* One task has the blocks, and one connection all the calls.
Owner ==
  /\ commit_on_exit
  /\ \A f \in Flow : Top(f) => _task_connection_owner = TaskOf[f]
  /\ \A c \in Raw : c # connection => raw[c].rows = {} /\ raw[c].queue = <<>>
  /\ \A f \in Flow : pc[f] = "connecting" => connection = None

Stage ==
  /\ InTurn /\ Owner /\ \A f \in Flow : Place(f)
  /\ (\A f \in Flow : ~InBlock(f)) => AtRest
  /\ \A f \in Flow : InBlock(f) => Within(f)

-----------------------------------------------------------------------------
(* The program, and sequences.                                             *)

\* What the assumption on the programs says of the one that is run.
LEMMA ProgramFacts ==
  ASSUME scenario \in Scenarios
  PROVE  /\ Len(TaskOf) \in Nat \ {0} /\ Flow = 1 .. Len(TaskOf) /\ 1 \in Flow
         /\ Raw = 1 .. Len(TaskOf) + 1 /\ Flow \subseteq Raw
         /\ None \notin Flow /\ None \notin Raw /\ Len(TaskOf) + 1 \in Raw \ Flow
         /\ Bare \subseteq Flow /\ Writes \in Nat \ {0}
         /\ \A f \in Flow : TaskOf[f] \in Nat /\ TaskOf[f] \in ToSet(TaskOf)
         /\ \A f \in Flow : Parent[f] # None =>
              /\ Parent[f] \in Flow \ Bare /\ Parent[f] < f /\ Parent[Parent[f]] = None
         /\ Savepoint \in BOOLEAN /\ scenario.connected \in BOOLEAN
         /\ Parent[1] = None
<1>1. /\ TaskOf \in Seq(Nat) \ {<<>>} /\ Parent \in Seq(Nat) /\ Len(Parent) = Len(TaskOf)
      /\ \A f \in DOMAIN Parent : Parent[f] # 0 =>
           Parent[f] < f /\ Parent[f] \notin Bare /\ Parent[Parent[f]] = 0
      /\ Bare \subseteq DOMAIN TaskOf /\ Writes \in Nat \ {0}
      /\ Savepoint \in BOOLEAN /\ scenario.connected \in BOOLEAN
  BY ScenarioAssumption DEF TaskOf, Parent, Bare, Writes, Savepoint
<1>2. /\ Len(TaskOf) \in Nat \ {0} /\ Flow = 1 .. Len(TaskOf) /\ DOMAIN Parent = Flow
      /\ \A f \in Flow : TaskOf[f] \in Nat /\ Parent[f] \in Nat
  BY <1>1, EmptySeq, LenProperties, ElementOfSeq DEF Flow
<1>3. \A f \in Flow : TaskOf[f] \in ToSet(TaskOf)
  BY DEF ToSet, Flow
<1>4. Parent[1] = None
  BY <1>1, <1>2 DEF None
<1>5. /\ Raw = 1 .. Len(TaskOf) + 1 /\ Flow \subseteq Raw /\ 1 \in Flow
      /\ None \notin Flow /\ None \notin Raw /\ Len(TaskOf) + 1 \in Raw \ Flow
  BY <1>2 DEF Raw, None
<1>6. Bare \subseteq Flow
  BY <1>1 DEF Flow
<1>7. \A f \in Flow : Parent[f] # None =>
        /\ Parent[f] \in Flow \ Bare /\ Parent[f] < f /\ Parent[Parent[f]] = None
  BY <1>1, <1>2 DEF None
<1> QED
  BY <1>1, <1>2, <1>3, <1>4, <1>5, <1>6, <1>7

\* Whoever joins a queue is the last in it.
LEMMA Appended ==
  ASSUME NEW S, NEW q \in Seq(S), IsInjective(q), NEW x \in S, x \notin ToSet(q)
  PROVE  /\ Append(q, x) \in Seq(S) /\ IsInjective(Append(q, x))
         /\ ToSet(Append(q, x)) = ToSet(q) \union {x}
<1> DEFINE p == Append(q, x)
<1>1. Len(q) \in Nat /\ DOMAIN q = 1 .. Len(q)
  BY LenProperties
<1>2. p \in Seq(S) /\ Len(p) = Len(q) + 1 /\ DOMAIN p = 1 .. Len(p)
  BY <1>1
<1>3. \A i \in 1 .. Len(p) : p[i] = IF i <= Len(q) THEN q[i] ELSE x
  BY <1>1
<1> HIDE DEF p
<1>4. \A i \in 1 .. Len(q) : q[i] # x
  BY <1>1 DEF ToSet
<1>5. IsInjective(p)
  BY <1>1, <1>2, <1>3, <1>4 DEF IsInjective
<1>6. Len(p) \in 1 .. Len(p) /\ p[Len(p)] = x
  BY <1>1, <1>2, <1>3
<1>7. ToSet(p) = ToSet(q) \union {x}
  BY <1>1, <1>2, <1>3, <1>6 DEF ToSet
<1> QED
  BY <1>2, <1>5, <1>7 DEF p

\* Whoever leaves it, from any place, leaves the others in it.
LEMMA Removed ==
  ASSUME NEW S, NEW q \in Seq(S), IsInjective(q), NEW i \in DOMAIN q
  PROVE  /\ RemoveAt(q, i) \in Seq(S) /\ IsInjective(RemoveAt(q, i))
         /\ ToSet(RemoveAt(q, i)) = ToSet(q) \ {q[i]}
<1> DEFINE p == RemoveAt(q, i)
           first == SubSeq(q, 1, i - 1)
           last == SubSeq(q, i + 1, Len(q))
<1>1. Len(q) \in Nat /\ DOMAIN q = 1 .. Len(q) /\ \A j \in 1 .. Len(q) : q[j] \in S
  BY LenProperties, ElementOfSeq
<1>2. i \in 1 .. Len(q) /\ i - 1 \in 0 .. Len(q) /\ i + 1 \in Int /\ i - 1 \in Int
  BY <1>1
<1>3. /\ first \in Seq(S) /\ Len(first) = i - 1
      /\ \A j \in 1 .. i - 1 : first[j] = q[j]
  BY <1>1, <1>2, SubSeqProperties
<1>4. /\ last \in Seq(S) /\ Len(last) = Len(q) - i
      /\ \A j \in 1 .. Len(q) - i : last[j] = q[j + i]
  BY <1>1, <1>2, SubSeqProperties
<1>5. p = first \o last
  BY DEF RemoveAt
<1> HIDE DEF first, last, p
<1>6. /\ p \in Seq(S) /\ Len(p) = Len(q) - 1 /\ DOMAIN p = 1 .. Len(q) - 1
      /\ \A j \in 1 .. Len(q) - 1 : p[j] = IF j < i THEN q[j] ELSE q[j + 1]
  <2>1. /\ p \in Seq(S) /\ Len(p) = Len(first) + Len(last)
        /\ \A j \in 1 .. Len(first) + Len(last) :
             p[j] = IF j <= Len(first) THEN first[j] ELSE last[j - Len(first)]
    BY <1>3, <1>4, <1>5, ConcatProperties
  <2>2. Len(p) = Len(q) - 1
    BY <1>1, <1>2, <1>3, <1>4, <2>1
  <2>3. DOMAIN p = 1 .. Len(q) - 1
    BY <2>1, <2>2, LenProperties
  <2>4. ASSUME NEW j \in 1 .. Len(q) - 1
        PROVE  p[j] = IF j < i THEN q[j] ELSE q[j + 1]
    <3>1. p[j] = IF j <= i - 1 THEN first[j] ELSE last[j - (i - 1)]
      BY <1>1, <1>2, <1>3, <1>4, <2>1
    <3>2. CASE j < i
      BY <1>1, <1>2, <1>3, <3>1, <3>2
    <3>3. CASE ~(j < i)
      <4>1. j - (i - 1) \in 1 .. Len(q) - i /\ (j - (i - 1)) + i = j + 1
        BY <1>1, <1>2, <3>3
      <4> QED
        BY <1>1, <1>2, <1>4, <3>1, <3>3, <4>1
    <3> QED
      BY <3>2, <3>3
  <2> QED
    BY <2>1, <2>2, <2>3, <2>4
<1>7. IsInjective(p)
  <2>1. SUFFICES ASSUME NEW a \in 1 .. Len(q) - 1, NEW b \in 1 .. Len(q) - 1, p[a] = p[b]
                 PROVE  a = b
    BY <1>6 DEF IsInjective
  <2>2. PICK k \in 1 .. Len(q) : k = (IF a < i THEN a ELSE a + 1) /\ q[k] = p[a]
    BY <1>1, <1>2, <1>6
  <2>3. PICK l \in 1 .. Len(q) : l = (IF b < i THEN b ELSE b + 1) /\ q[l] = p[b]
    BY <1>1, <1>2, <1>6
  <2>4. k = l
    BY <1>1, <2>1, <2>2, <2>3 DEF IsInjective
  <2> QED
    BY <1>1, <1>2, <2>2, <2>3, <2>4
<1>8. \A x : x \in ToSet(p) <=> x \in ToSet(q) /\ x # q[i]
  <2>1. ASSUME NEW x \in ToSet(p)
        PROVE  x \in ToSet(q) /\ x # q[i]
    <3>1. PICK j \in 1 .. Len(q) - 1 : x = p[j]
      BY <1>6, <2>1 DEF ToSet
    <3>2. PICK k \in 1 .. Len(q) : x = q[k] /\ k # i
      BY <1>1, <1>2, <1>6, <3>1
    <3> QED
      BY <1>1, <1>2, <3>2 DEF ToSet, IsInjective
  <2>2. ASSUME NEW x \in ToSet(q), x # q[i]
        PROVE  x \in ToSet(p)
    <3>1. PICK k \in 1 .. Len(q) : x = q[k] /\ k # i
      BY <1>1, <2>2 DEF ToSet
    <3>2. PICK j \in 1 .. Len(q) - 1 : j = IF k < i THEN k ELSE k - 1
      BY <1>1, <1>2, <3>1
    <3>3. p[j] = x
      BY <1>1, <1>2, <1>6, <3>1, <3>2
    <3> QED
      BY <1>6, <3>3 DEF ToSet
  <2> QED
    BY <2>1, <2>2
<1>9. ToSet(p) = ToSet(q) \ {q[i]}
  BY <1>8
<1> QED
  BY <1>6, <1>7, <1>9 DEF p

\* The first one leaves it.
LEMMA Served ==
  ASSUME NEW S, NEW q \in Seq(S), IsInjective(q), q # <<>>
  PROVE  /\ Tail(q) \in Seq(S) /\ IsInjective(Tail(q))
         /\ ToSet(Tail(q)) = ToSet(q) \ {Head(q)} /\ Head(q) \in S /\ Head(q) \in ToSet(q)
<1>1. DOMAIN q = 1 .. Len(q) /\ Len(q) \in Nat \ {0}
  BY LenProperties, EmptySeq
<1>2. 1 \in DOMAIN q /\ Head(q) = q[1] /\ q[1] \in S
  BY <1>1, ElementOfSeq
<1>3. Tail(q) = RemoveAt(q, 1)
  <2>1. Tail(q) = SubSeq(q, 2, Len(q))
    BY <1>1, TailIsSubSeq
  <2>2. SubSeq(q, 1, 1 - 1) = <<>>
    BY SubSeqEmpty
  <2>3. 1 + 1 = 2 /\ SubSeq(q, 1 + 1, Len(q)) \in Seq(S)
    BY <1>1, <2>1, HeadTailProperties
  <2> QED
    BY <2>1, <2>2, <2>3, ConcatEmptySeq DEF RemoveAt
<1>4. Head(q) \in ToSet(q)
  BY <1>2 DEF ToSet
<1>5. /\ RemoveAt(q, 1) \in Seq(S) /\ IsInjective(RemoveAt(q, 1))
      /\ ToSet(RemoveAt(q, 1)) = ToSet(q) \ {q[1]}
  BY <1>2, Removed
<1> QED
  BY <1>2, <1>3, <1>4, <1>5

-----------------------------------------------------------------------------
(* The connection and its queue.                                           *)

\* What a command leaves when it is carried out.
LEMMA AfterFacts ==
  ASSUME NEW r \in RawState, NEW f \in Flow, NEW s, NEW cmd \in Command,
         cmd = "row" => <<f, wrote[f] + 1>> \in RowIds, ~Refuses(r, cmd, s)
  PROVE  /\ After(r, cmd, f, s) \in RawState /\ After(r, cmd, f, s).queue = r.queue
         /\ Published(r, cmd, f) \subseteq RowIds
<1> DEFINE begun == [r EXCEPT !.tx = "intrans"]
           m == CHOOSE i \in MarkOf(r, s) : TRUE
<1>1. begun \in RawState /\ begun.queue = r.queue
  BY DEF RawState
<1>2. r.saved \in Seq(Saved) /\ r.rows \in SUBSET RowIds
  BY DEF RawState
<1>3. CASE cmd = "row"
  <2>1. After(r, cmd, f, s) =
          IF r.autocommit THEN r ELSE [begun EXCEPT !.rows = @ \union {<<f, wrote[f] + 1>>}]
    BY <1>3 DEF After, Commits
  <2>2. [begun EXCEPT !.rows = @ \union {<<f, wrote[f] + 1>>}] \in RawState
    BY <1>3 DEF RawState
  <2>3. Published(r, cmd, f) \subseteq RowIds
    BY <1>3 DEF Published, Commits
  <2> QED
    BY <1>3, <2>1, <2>2, <2>3 DEF RawState
<1>4. CASE cmd = "savepoint"
  <2>1. [by |-> f, rows |-> r.rows] \in Saved
    BY <1>2 DEF Saved
  <2>2. Append(r.saved, [by |-> f, rows |-> r.rows]) \in Seq(Saved)
    BY <1>2, <2>1
  <2>3. After(r, cmd, f, s) = [begun EXCEPT !.saved = Append(@, [by |-> f, rows |-> r.rows])]
    BY <1>4 DEF After, Commits
  <2> QED
    BY <1>1, <1>4, <2>2, <2>3 DEF RawState, Published, Commits
<1>5. CASE cmd \in {"release", "tidy", "rollback_to"}
  <2>1. m \in DOMAIN r.saved
    BY <1>5 DEF Refuses, MarkOf
  <2>2. m \in 1 .. Len(r.saved) /\ Len(r.saved) \in Nat
    BY <1>2, <2>1, LenProperties
  <2>3. \A i \in 1 .. Len(r.saved) : r.saved[i] \in Saved
    BY <1>2, ElementOfSeq
  <2>4. SubSeq(r.saved, 1, m - 1) \in Seq(Saved) /\ SubSeq(r.saved, 1, m) \in Seq(Saved)
    <3>1. \A i \in 1 .. m - 1 : r.saved[i] \in Saved
      BY <2>2, <2>3
    <3>2. \A i \in 1 .. m : r.saved[i] \in Saved
      BY <2>2, <2>3
    <3>3. m - 1 \in Int /\ m \in Int /\ m - 1 <= Len(r.saved) /\ m <= Len(r.saved)
      BY <2>2
    <3>4. SubSeq(r.saved, 1, m - 1) \in Seq(Saved)
      BY <1>2, <3>1, <3>3, SubSeqProperties
    <3> QED
      BY <1>2, <3>2, <3>3, <3>4, SubSeqProperties
  <2>5. r.saved[m].rows \in SUBSET RowIds
    BY <2>2, <2>3 DEF Saved
  <2>6. CASE cmd = "rollback_to"
    <3>1. After(r, cmd, f, s) = [begun EXCEPT !.rows = r.saved[m].rows, !.saved = SubSeq(@, 1, m)]
      BY <2>6 DEF After, Commits
    <3> QED
      BY <1>1, <2>4, <2>5, <2>6, <3>1 DEF RawState, Published, Commits
  <2>7. CASE cmd \in {"release", "tidy"}
    <3>1. After(r, cmd, f, s) = [begun EXCEPT !.saved = SubSeq(@, 1, m - 1)]
      BY <2>7 DEF After, Commits
    <3> QED
      BY <1>1, <2>4, <2>7, <3>1 DEF RawState, Published, Commits
  <2> QED
    BY <1>5, <2>6, <2>7
<1>6. CASE cmd \in {"settle", "commit", "rollback"}
  <2>1. After(r, cmd, f, s) = [r EXCEPT !.tx = "idle", !.rows = {}, !.saved = <<>>]
    BY <1>6 DEF After, Ended, Commits
  <2>2. <<>> \in Seq(Saved)
    OBVIOUS
  <2> QED
    BY <1>2, <1>6, <2>1, <2>2 DEF RawState, Published, Commits
<1>7. CASE cmd \in {"off", "on", "configure"}
  BY <1>7 DEF After, RawState, Published, Commits
<1> QED
  BY <1>3, <1>4, <1>5, <1>6, <1>7 DEF Command

\* What it leaves when it fails.
LEMMA ErrorFacts ==
  ASSUME NEW r \in RawState, NEW cmd \in Command
  PROVE  AfterError(r, cmd) \in RawState /\ AfterError(r, cmd).queue = r.queue
<1>1. <<>> \in Seq(Saved)
  OBVIOUS
<1> QED
  BY <1>1 DEF AfterError, Ended, RawState

\* A call that is over has left its queue, and only that changed in who waits.
LEMMA LinesLeft ==
  ASSUME scenario \in Scenarios, UNCHANGED scenario,
         raw \in [Raw -> RawState], at \in [Flow -> Raw \union {None}], Lines,
         NEW f \in Flow, at[f] # None, at' = [at EXCEPT ![f] = None],
         NEW r \in RawState, raw' = [raw EXCEPT ![at[f]] = r], IsInjective(r.queue),
         ToSet(r.queue) = ToSet(raw[at[f]].queue) \ {f}
  PROVE  raw' \in [Raw -> RawState] /\ at' \in [Flow -> Raw \union {None}] /\ Lines'
<1>1. at[f] \in Raw /\ raw' \in [Raw -> RawState] /\ at' \in [Flow -> Raw \union {None}]
  OBVIOUS
<1>2. None \notin Raw
  BY ProgramFacts
<1>3. ASSUME NEW c \in Raw
      PROVE  /\ IsInjective(raw'[c].queue)
             /\ \A g \in Flow : at'[g] = c <=> g \in ToSet(raw'[c].queue)
  <2>1. CASE c = at[f]
    BY <1>1, <1>2, <2>1 DEF Lines
  <2>2. CASE c # at[f]
    BY <1>1, <1>2, <2>2 DEF Lines
  <2> QED
    BY <2>1, <2>2
<1>4. Flow' = Flow /\ Raw' = Raw
  BY DEF Flow, Raw, TaskOf
<1> QED
  BY <1>1, <1>3, <1>4 DEF Lines

\* A call joins the queue of the connection.
LEMMA LinesJoined ==
  ASSUME scenario \in Scenarios, UNCHANGED scenario,
         raw \in [Raw -> RawState], at \in [Flow -> Raw \union {None}], Lines,
         NEW f \in Flow, at[f] = None, NEW c \in Raw, at' = [at EXCEPT ![f] = c],
         raw' = [raw EXCEPT ![c].queue = Append(@, f)]
  PROVE  raw' \in [Raw -> RawState] /\ at' \in [Flow -> Raw \union {None}] /\ Lines'
<1> DEFINE q == raw[c].queue
<1>1. q \in Seq(Flow) /\ IsInjective(q) /\ f \notin ToSet(q)
  BY ProgramFacts DEF RawState, Lines
<1>2. /\ Append(q, f) \in Seq(Flow) /\ IsInjective(Append(q, f))
      /\ ToSet(Append(q, f)) = ToSet(q) \union {f}
  BY <1>1, Appended
<1>3. raw' = [raw EXCEPT ![c] = [raw[c] EXCEPT !.queue = Append(q, f)]]
  OBVIOUS
<1>4. [raw[c] EXCEPT !.queue = Append(q, f)] \in RawState
  BY <1>2 DEF RawState
<1>5. raw' \in [Raw -> RawState] /\ at' \in [Flow -> Raw \union {None}]
  BY <1>3, <1>4
<1>6. raw'[c].queue = Append(q, f) /\ \A d \in Raw \ {c} : raw'[d] = raw[d]
  BY <1>3 DEF RawState
<1> HIDE DEF q
<1>7. IsInjective(raw'[c].queue) /\ \A g \in Flow : at'[g] = c <=> g \in ToSet(raw'[c].queue)
  <2>1. \A g \in Flow : at[g] = c <=> g \in ToSet(q)
    BY DEF Lines, q
  <2>2. \A g \in Flow : at'[g] = c <=> g \in ToSet(q) \union {f}
    BY <2>1
  <2> QED
    BY <1>2, <1>6, <2>2
<1>8. \A d \in Raw \ {c} :
        /\ IsInjective(raw'[d].queue)
        /\ \A g \in Flow : at'[g] = d <=> g \in ToSet(raw'[d].queue)
  BY <1>6, ProgramFacts DEF Lines
<1>9. \A d \in Raw :
        /\ IsInjective(raw'[d].queue)
        /\ \A g \in Flow : at'[g] = d <=> g \in ToSet(raw'[d].queue)
  BY <1>7, <1>8
<1>10. Flow' = Flow /\ Raw' = Raw
  BY DEF Flow, Raw, TaskOf
<1> QED
  BY <1>5, <1>9, <1>10 DEF Lines

\* Nobody has called.
LEMMA LinesSame ==
  ASSUME UNCHANGED <<scenario, at>>, Lines, \A c \in Raw : raw'[c].queue = raw[c].queue
  PROVE  Lines'
BY DEF Lines, Flow, Raw, TaskOf

-----------------------------------------------------------------------------
(* Types and calls, for any tasks.                                         *)

\* The program does not change.
LEMMA SameProgram ==
  ASSUME UNCHANGED scenario
  PROVE  /\ Flow' = Flow /\ Raw' = Raw /\ TaskOf' = TaskOf /\ Parent' = Parent /\ Bare' = Bare
         /\ Writes' = Writes /\ Savepoint' = Savepoint /\ Cancellation' = Cancellation
         /\ RowIds' = RowIds /\ Saved' = Saved /\ RawState' = RawState
BY DEF Flow, Raw, TaskOf, Parent, Bare, Writes, Savepoint, Cancellation, RowIds, Saved, RawState

\* Where a flow may have come to, and what it has written by then.
CameTo(f, label) ==
  /\ pc' = [pc EXCEPT ![f] = label] /\ label \in Label \ {"start"} /\ pc[f] # "done"
  /\ running' \in {f, None}
  /\ \/ wrote' = wrote
     \/ /\ f \notin Bare \/ label = "done"
        /\ \E n \in 0 .. Writes : wrote' = [wrote EXCEPT ![f] = n]
  /\ label = "connecting" => pc[f] = "start"
  /\ f \in Bare => label \in {"connecting", "configure", "settle", "bare", "row", "done"}
  /\ label = "bare" => f \in Bare
  /\ label = "row" => wrote'[f] < Writes
  /\ label = "children" => wrote'[f] = 1
  /\ label \notin {"connecting", "done"} => connection' # None

\* The rest of what a step leaves of its own.
Local(f) ==
  /\ sid' = sid \/ \E s \in Flow \union {None} : sid' = [sid EXCEPT ![f] = s]
  /\ leaving' = leaving
       \/ \E how \in {"ok", "raised", "cancelled"} : leaving' = [leaving EXCEPT ![f] = how]
  /\ outcome' = outcome
       \/ \E how \in {"ok", "raised", "cancelled", "refused", "error"} :
            outcome' = [outcome EXCEPT ![f] = how]

\* It calls on the connection of the wrapper, if at all.
Calling(f, label) ==
  /\ at' \in [Flow -> Raw \union {None}] /\ \A g \in Flow \ {f} : at'[g] = at[g]
  /\ at'[f] # None => at'[f] \in {at[f], connection} /\ label \in Command
  /\ connection' = connection \/ (connection' = f /\ label # "connecting")
  /\ in_atomic_block' => connection' # None

\* A flow has come further.
LEMMA FlowsMove ==
  ASSUME Calls, UNCHANGED scenario, NEW f \in Flow, NEW label, CameTo(f, label), Local(f),
         Calling(f, label)
  PROVE  FlowTypes' /\ Linked' /\ Written'
<1>1. FlowTypes'
  <2>1. pc' \in [Flow -> Label] /\ running' \in Flow \union {None}
    BY DEF Calls, FlowTypes, CameTo
  <2>2. sid' \in [Flow -> Flow \union {None}]
    BY DEF Calls, FlowTypes, Local
  <2>3. leaving' \in [Flow -> {"ok", "raised", "cancelled"}]
    BY DEF Calls, FlowTypes, Local
  <2>4. outcome' \in [Flow -> {"none", "ok", "raised", "cancelled", "refused", "error"}]
    BY DEF Calls, FlowTypes, Local
  <2>5. wrote' \in [Flow -> 0 .. Writes]
    BY DEF Calls, FlowTypes, CameTo
  <2> QED
    BY <2>1, <2>2, <2>3, <2>4, <2>5, SameProgram DEF Calling, FlowTypes
<1>2. Written'
  <2>1. \A g \in Flow \ {f} : pc'[g] = pc[g] /\ wrote'[g] = wrote[g]
    BY DEF Calls, FlowTypes, CameTo
  <2>2. pc'[f] = label
    BY DEF Calls, FlowTypes, CameTo
  <2>3. f \in Bare /\ label # "done" => wrote'[f] = 0
    <3>1. SUFFICES ASSUME f \in Bare, label # "done"
                   PROVE  wrote'[f] = 0
      OBVIOUS
    <3>2. pc[f] # "done"
      BY <3>1 DEF CameTo
    <3> QED
      BY <3>1, <3>2 DEF CameTo, Calls, Written
  <2> QED
    BY <2>1, <2>2, <2>3, SameProgram DEF Calls, CameTo, Written
<1>3. \A g \in Flow : pc'[g] \notin {"start", "connecting", "done"} => connection' # None
  BY ProgramFacts DEF Calls, FlowTypes, CameTo, Calling, Linked
<1>4. \A g \in Flow : at'[g] # None => pc'[g] \in Command
  BY DEF Calls, FlowTypes, CameTo, Calling, Linked
<1>5. ASSUME NEW g \in Flow, pc'[g] \in {"start", "connecting"}
      PROVE  connection' # g /\ \A h \in Flow : at'[h] # g
  BY <1>5, ProgramFacts DEF Calls, FlowTypes, CameTo, Calling, Linked
<1> QED
  BY <1>1, <1>2, <1>3, <1>4, <1>5, SameProgram DEF Calling, Linked

\* A block of another task refused by __aenter__ leaves every call where it was
\* made.
LEMMA EnterRefusedCalls ==
  ASSUME Calls, UNCHANGED scenario, NEW f \in Flow, EnterRefused(f)
  PROVE  Calls'
<1> DEFINE label == "done"
<1>0. pc[f] = "start" /\ at[f] = None
  BY DEF EnterRefused, Ready, End, Suspend, Calls, Linked, Written, Command
<1>1. CameTo(f, label)
  BY <1>0, ProgramFacts DEF EnterRefused, Ready, End, Suspend, Calls, CameTo, Label,
     Command, program, wrapper
<1>2. Local(f)
  BY DEF EnterRefused, Ready, End, Suspend, Calls, FlowTypes, Local, program
<1>3. Calling(f, label)
  BY <1>0 DEF EnterRefused, Ready, End, Suspend, Calls, FlowTypes, Linked, Calling, wrapper, flags
<1>4. FlowTypes' /\ Linked' /\ Written'
  BY <1>1, <1>2, <1>3, FlowsMove
<1>5. WrapperTypeOK'
  BY ProgramFacts, SameProgram
     DEF EnterRefused, Ready, End, Suspend, Calls, WrapperTypeOK, wrapper, flags, stack, hooks
<1>6. raw' \in [Raw -> RawState] /\ committed' \subseteq RowIds /\ Lines'
  BY LinesSame DEF EnterRefused, Ready, End, Suspend, Calls, server
<1> QED
  BY <1>4, <1>5, <1>6, SameProgram DEF Calls

\* A block entered inside another one leaves every call where it was made.
LEMMA EnterNestedCalls ==
  ASSUME Calls, UNCHANGED scenario, NEW f \in Flow, EnterNested(f)
  PROVE  Calls'
<1> DEFINE label == "block"
<1>0. pc[f] = "start" /\ at[f] = None /\ connection # None /\ f \notin Bare
  BY DEF EnterNested, Ready, Goto, Calls, Linked, Written, Command
<1>1. CameTo(f, label)
  BY <1>0, ProgramFacts DEF EnterNested, Ready, Goto, Calls, CameTo, Label, Command,
     program, wrapper
<1>2. Local(f)
  BY DEF EnterNested, Ready, Goto, Calls, FlowTypes, Local, program
<1>3. Calling(f, label)
  BY <1>0 DEF EnterNested, Ready, Goto, Calls, FlowTypes, Linked, Calling, wrapper, flags
<1>4. FlowTypes' /\ Linked' /\ Written'
  BY <1>1, <1>2, <1>3, FlowsMove
<1>5. WrapperTypeOK'
  BY ProgramFacts, SameProgram
     DEF EnterNested, Ready, Goto, Calls, WrapperTypeOK, wrapper, flags, stack, hooks
<1>6. raw' \in [Raw -> RawState] /\ committed' \subseteq RowIds /\ Lines'
  BY LinesSame DEF EnterNested, Ready, Goto, Calls, server
<1> QED
  BY <1>4, <1>5, <1>6, SameProgram DEF Calls

\* An outermost block entered, which may first connect, leaves every call where
\* it was made.
LEMMA EnterOutermostCalls ==
  ASSUME Calls, UNCHANGED scenario, NEW f \in Flow, EnterOutermost(f)
  PROVE  Calls'
<1> DEFINE label == IF connection = None THEN "connecting" ELSE "autocommit"
<1>0. pc[f] = "start" /\ at[f] = None /\ f \notin Bare
  BY DEF EnterOutermost, Ready, Connect, Suspend, Goto, Calls, Linked, Written, Command
<1>1. CameTo(f, label)
  BY <1>0, ProgramFacts DEF EnterOutermost, Ready, Connect, Suspend, Goto, Calls, CameTo,
     Label, Command, program, wrapper
<1>2. Local(f)
  BY DEF EnterOutermost, Ready, Connect, Suspend, Goto, Calls, FlowTypes, Local, program
<1>3. Calling(f, label)
  BY <1>0 DEF EnterOutermost, Ready, Connect, Suspend, Goto, Calls, FlowTypes, Linked,
     Calling, wrapper, flags
<1>4. FlowTypes' /\ Linked' /\ Written'
  BY <1>1, <1>2, <1>3, FlowsMove
<1>5. WrapperTypeOK'
  <2>1. savepoint_ids' \in Seq(Flow \union {None}) /\ atomic_blocks' \in Seq(Flow)
    <3>1. <<>> \in Seq(Flow \union {None}) /\ <<>> \in Seq(Flow)
      OBVIOUS
    <3> QED
      BY <3>1 DEF EnterOutermost, Connect, Calls, WrapperTypeOK, stack
  <2> QED
    BY <2>1, ProgramFacts, SameProgram
       DEF EnterOutermost, Ready, Connect, Suspend, Goto, Calls, WrapperTypeOK, flags, stack, hooks
<1>6. raw' \in [Raw -> RawState] /\ committed' \subseteq RowIds /\ Lines'
  BY LinesSame DEF EnterOutermost, Ready, Connect, Suspend, Goto, Calls, server
<1> QED
  BY <1>4, <1>5, <1>6, SameProgram DEF Calls

\* A statement outside the blocks, which may first connect, leaves every call
\* where it was made.
LEMMA EnterBareCalls ==
  ASSUME Calls, UNCHANGED scenario, NEW f \in Flow, EnterBare(f)
  PROVE  Calls'
<1> DEFINE label == IF connection = None THEN "connecting" ELSE "bare"
<1>0. pc[f] = "start" /\ at[f] = None /\ f \in Bare
  BY DEF EnterBare, Ready, Connect, Suspend, Goto, Calls, Linked, Written, Command
<1>1. CameTo(f, label)
  BY <1>0, ProgramFacts DEF EnterBare, Ready, Connect, Suspend, Goto, Calls, CameTo,
     Label, Command, program, wrapper
<1>2. Local(f)
  BY DEF EnterBare, Ready, Connect, Suspend, Goto, Calls, FlowTypes, Local, program
<1>3. Calling(f, label)
  BY <1>0 DEF EnterBare, Ready, Connect, Suspend, Goto, Calls, FlowTypes, Linked,
     Calling, wrapper, flags
<1>4. FlowTypes' /\ Linked' /\ Written'
  BY <1>1, <1>2, <1>3, FlowsMove
<1>5. WrapperTypeOK'
  <2>1. savepoint_ids' \in Seq(Flow \union {None}) /\ atomic_blocks' \in Seq(Flow)
    <3>1. <<>> \in Seq(Flow \union {None}) /\ <<>> \in Seq(Flow)
      OBVIOUS
    <3> QED
      BY <3>1 DEF EnterBare, Connect, Calls, WrapperTypeOK, stack
  <2> QED
    BY <2>1, ProgramFacts, SameProgram
       DEF EnterBare, Ready, Connect, Suspend, Goto, Calls, WrapperTypeOK, flags, stack, hooks
<1>6. raw' \in [Raw -> RawState] /\ committed' \subseteq RowIds /\ Lines'
  BY LinesSame DEF EnterBare, Ready, Connect, Suspend, Goto, Calls, server
<1> QED
  BY <1>4, <1>5, <1>6, SameProgram DEF Calls

\* A statement outside the blocks, refused or about to be sent, leaves every
\* call where it was made.
LEMMA BareStatementCalls ==
  ASSUME Calls, UNCHANGED scenario, NEW f \in Flow, BareStatement(f)
  PROVE  Calls'
<1> DEFINE label == IF needs_rollback THEN "done" ELSE "row"
<1>0. pc[f] = "bare" /\ at[f] = None /\ f \in Bare /\ connection # None /\ wrote[f] = 0
  BY DEF BareStatement, Here, End, Suspend, Goto, Calls, Linked, Written, Command
<1>1. CameTo(f, label)
  BY <1>0, ProgramFacts DEF BareStatement, Here, End, Suspend, Goto, Calls, CameTo,
     Label, Command, program, wrapper
<1>2. Local(f)
  BY DEF BareStatement, Here, End, Suspend, Goto, Calls, FlowTypes, Local, program
<1>3. Calling(f, label)
  BY <1>0 DEF BareStatement, Here, End, Suspend, Goto, Calls, FlowTypes, Linked, Calling,
     wrapper, flags
<1>4. FlowTypes' /\ Linked' /\ Written'
  BY <1>1, <1>2, <1>3, FlowsMove
<1>5. WrapperTypeOK'
  BY ProgramFacts, SameProgram
     DEF BareStatement, Here, End, Suspend, Goto, Calls, WrapperTypeOK, wrapper, flags, stack, hooks
<1>6. raw' \in [Raw -> RawState] /\ committed' \subseteq RowIds /\ Lines'
  BY LinesSame DEF BareStatement, Here, End, Suspend, Goto, Calls, server
<1> QED
  BY <1>4, <1>5, <1>6, SameProgram DEF Calls

\* The look at in_atomic_block after aget_autocommit() has answered
\* leaves every call where it was made.
LEMMA SeeAutocommitCalls ==
  ASSUME Calls, UNCHANGED scenario, NEW f \in Flow, SeeAutocommit(f)
  PROVE  Calls'
<1> DEFINE label == IF in_atomic_block' THEN "block" ELSE "off"
<1>0. pc[f] = "autocommit" /\ at[f] = None /\ f \notin Bare /\ connection # None
  BY DEF SeeAutocommit, Here, Goto, Calls, Linked, Written, Command
<1>1. CameTo(f, label)
  BY <1>0, ProgramFacts DEF SeeAutocommit, Here, Goto, Calls, CameTo, Label, Command,
     program, wrapper
<1>2. Local(f)
  BY DEF SeeAutocommit, Here, Goto, Calls, FlowTypes, Local, program
<1>3. Calling(f, label)
  BY <1>0 DEF SeeAutocommit, Here, Goto, Calls, FlowTypes, Linked, Calling, wrapper, flags
<1>4. FlowTypes' /\ Linked' /\ Written'
  BY <1>1, <1>2, <1>3, FlowsMove
<1>5. WrapperTypeOK'
  BY ProgramFacts, SameProgram
     DEF SeeAutocommit, Here, Goto, Calls, WrapperTypeOK, wrapper, flags, stack, hooks
<1>6. raw' \in [Raw -> RawState] /\ committed' \subseteq RowIds /\ Lines'
  BY LinesSame DEF SeeAutocommit, Here, Goto, Calls, server
<1> QED
  BY <1>4, <1>5, <1>6, SameProgram DEF Calls

\* An inner block that asks for a savepoint or notes that it has none leaves
\* every call where it was made.
LEMMA EnterBlockCalls ==
  ASSUME Calls, UNCHANGED scenario, NEW f \in Flow, EnterBlock(f)
  PROVE  Calls'
<1> DEFINE label == IF Savepoint /\ ~needs_rollback /\ ~autocommit THEN "savepoint" ELSE "entered"
<1>0. pc[f] = "block" /\ at[f] = None /\ f \notin Bare /\ connection # None
  BY DEF EnterBlock, Here, Goto, Calls, Linked, Written, Command
<1>1. CameTo(f, label)
  BY <1>0, ProgramFacts DEF EnterBlock, Here, Goto, Calls, CameTo, Label, Command, program, wrapper
<1>2. Local(f)
  BY DEF EnterBlock, Here, Goto, Calls, FlowTypes, Local, program
<1>3. Calling(f, label)
  BY <1>0 DEF EnterBlock, Here, Goto, Calls, FlowTypes, Linked, Calling, wrapper, flags
<1>4. FlowTypes' /\ Linked' /\ Written'
  BY <1>1, <1>2, <1>3, FlowsMove
<1>5. WrapperTypeOK'
  <2>1. savepoint_ids' \in Seq(Flow \union {None})
    <3>1. savepoint_ids \in Seq(Flow \union {None})
      BY DEF Calls, WrapperTypeOK
    <3>2. Append(savepoint_ids, None) \in Seq(Flow \union {None})
      BY <3>1
    <3> QED
      BY <3>1, <3>2 DEF EnterBlock
  <2> QED
    BY <2>1, ProgramFacts, SameProgram
       DEF EnterBlock, Calls, WrapperTypeOK, flags, hooks
<1>6. raw' \in [Raw -> RawState] /\ committed' \subseteq RowIds /\ Lines'
  BY LinesSame DEF EnterBlock, Here, Goto, Calls, server
<1> QED
  BY <1>4, <1>5, <1>6, SameProgram DEF Calls

\* The block put on atomic_blocks leaves every call where it was made.
LEMMA EnteredCalls ==
  ASSUME Calls, UNCHANGED scenario, NEW f \in Flow, Entered(f)
  PROVE  Calls'
<1> DEFINE label == "hook"
<1>0. pc[f] = "entered" /\ at[f] = None /\ f \notin Bare /\ connection # None
  BY DEF Entered, Here, Goto, Calls, Linked, Written, Command
<1>1. CameTo(f, label)
  BY <1>0, ProgramFacts DEF Entered, Here, Goto, Calls, CameTo, Label, Command, program, wrapper
<1>2. Local(f)
  BY DEF Entered, Here, Goto, Calls, FlowTypes, Local, program
<1>3. Calling(f, label)
  BY <1>0 DEF Entered, Here, Goto, Calls, FlowTypes, Linked, Calling, wrapper, flags
<1>4. FlowTypes' /\ Linked' /\ Written'
  BY <1>1, <1>2, <1>3, FlowsMove
<1>5. WrapperTypeOK'
  BY ProgramFacts, SameProgram
     DEF Entered, Here, Goto, Calls, WrapperTypeOK, wrapper, flags, stack, hooks
<1>6. raw' \in [Raw -> RawState] /\ committed' \subseteq RowIds /\ Lines'
  BY LinesSame DEF Entered, Here, Goto, Calls, server
<1> QED
  BY <1>4, <1>5, <1>6, SameProgram DEF Calls

\* A hook registered, run at once or refused leaves every call where it was
\* made.
LEMMA OnCommitCalls ==
  ASSUME Calls, UNCHANGED scenario, NEW f \in Flow, OnCommit(f)
  PROVE  Calls'
<1> DEFINE label == IF in_atomic_block \/ autocommit THEN "body" ELSE "exit"
<1>0. pc[f] = "hook" /\ at[f] = None /\ f \notin Bare /\ connection # None
  BY DEF OnCommit, Here, Goto, LeaveWith, Calls, Linked, Written, Command
<1>1. CameTo(f, label)
  BY <1>0, ProgramFacts DEF OnCommit, Here, Goto, LeaveWith, Calls, CameTo, Label,
     Command, program, wrapper
<1>2. Local(f)
  BY DEF OnCommit, Here, Goto, LeaveWith, Calls, FlowTypes, Local, program
<1>3. Calling(f, label)
  BY <1>0 DEF OnCommit, Here, Goto, LeaveWith, Calls, FlowTypes, Linked, Calling, wrapper, flags
<1>4. FlowTypes' /\ Linked' /\ Written'
  BY <1>1, <1>2, <1>3, FlowsMove
<1>5. WrapperTypeOK'
  <2>1. ToSet(savepoint_ids) \subseteq Flow \union {None}
    BY ElementOfSeq DEF Calls, WrapperTypeOK, ToSet
  <2>2. [flow |-> f, sids |-> ToSet(savepoint_ids)] \in [flow : Flow, sids : SUBSET (Flow \union {None})]
    BY <2>1
  <2>3. run_on_commit' \subseteq [flow : Flow, sids : SUBSET (Flow \union {None})]
    BY <2>2 DEF OnCommit, Calls, WrapperTypeOK
  <2> QED
    BY <2>3, ProgramFacts, SameProgram
       DEF OnCommit, Calls, WrapperTypeOK, flags, stack
<1>6. raw' \in [Raw -> RawState] /\ committed' \subseteq RowIds /\ Lines'
  BY LinesSame DEF OnCommit, Here, Goto, LeaveWith, Calls, server
<1> QED
  BY <1>4, <1>5, <1>6, SameProgram DEF Calls

\* The finally clause of __aexit__ leaves every call where it was made.
LEMMA FinallyCalls ==
  ASSUME Calls, UNCHANGED scenario, NEW f \in Flow, Finally(f)
  PROVE  Calls'
<1> DEFINE label == IF in_atomic_block THEN "done" ELSE "on"
<1>0. pc[f] = "finally" /\ at[f] = None /\ f \notin Bare /\ connection # None
  BY DEF Finally, Here, Goto, End, Suspend, Calls, Linked, Written, Command
<1>1. CameTo(f, label)
  BY <1>0, ProgramFacts DEF Finally, Here, Goto, End, Suspend, Calls, CameTo, Label,
     Command, program, wrapper
<1>2. Local(f)
  BY DEF Finally, Here, Goto, End, Suspend, Calls, FlowTypes, Local, program
<1>3. Calling(f, label)
  BY <1>0 DEF Finally, Here, Goto, End, Suspend, Calls, FlowTypes, Linked, Calling, wrapper, flags
<1>4. FlowTypes' /\ Linked' /\ Written'
  BY <1>1, <1>2, <1>3, FlowsMove
<1>5. WrapperTypeOK'
  BY ProgramFacts, SameProgram
     DEF Finally, Here, Goto, End, Suspend, Calls, WrapperTypeOK, wrapper, flags, stack, hooks
<1>6. raw' \in [Raw -> RawState] /\ committed' \subseteq RowIds /\ Lines'
  BY LinesSame DEF Finally, Here, Goto, End, Suspend, Calls, server
<1> QED
  BY <1>4, <1>5, <1>6, SameProgram DEF Calls

\* A cancellation during aconnect() leaves every call where it was made.
LEMMA CancelConnectingCalls ==
  ASSUME Calls, UNCHANGED scenario, NEW f \in Flow, CancelConnecting(f)
  PROVE  Calls'
<1> DEFINE label == "done"
<1>0. pc[f] = "connecting" /\ at[f] = None
  BY DEF CancelConnecting, Cancellable, End, Suspend, Calls, Linked, Written, Command
<1>1. CameTo(f, label)
  BY <1>0, ProgramFacts DEF CancelConnecting, Cancellable, End, Suspend, Calls, CameTo,
     Label, Command, program, wrapper
<1>2. Local(f)
  BY DEF CancelConnecting, Cancellable, End, Suspend, Calls, FlowTypes, Local, program
<1>3. Calling(f, label)
  BY <1>0 DEF CancelConnecting, Cancellable, End, Suspend, Calls, FlowTypes, Linked,
     Calling, wrapper, flags
<1>4. FlowTypes' /\ Linked' /\ Written'
  BY <1>1, <1>2, <1>3, FlowsMove
<1>5. WrapperTypeOK'
  BY ProgramFacts, SameProgram
     DEF CancelConnecting, Cancellable, End, Suspend, Calls, WrapperTypeOK, wrapper, flags, stack, hooks
<1>6. raw' \in [Raw -> RawState] /\ committed' \subseteq RowIds /\ Lines'
  BY LinesSame DEF CancelConnecting, Cancellable, End, Suspend, Calls, server
<1> QED
  BY <1>4, <1>5, <1>6, SameProgram DEF Calls

\* The next thing a block does in its body leaves every call where it was made.
LEMMA BodyCalls ==
  ASSUME Calls, UNCHANGED scenario, NEW f \in Flow, Body(f)
  PROVE  Calls'
<1>0. pc[f] = "body" /\ at[f] = None /\ f \notin Bare /\ connection # None
  BY DEF Body, Here, Calls, Linked, Written, Command
<1>1. PICK label \in {"children", "exit", "row"} :
        /\ pc' = [pc EXCEPT ![f] = label] /\ running' \in {f, None}
        /\ label = "children" => wrote[f] = 1
        /\ label = "row" => wrote[f] < Writes
  BY DEF Body, Goto, Suspend, AwaitsChildren
<1>2. CameTo(f, label)
  BY <1>0, <1>1, ProgramFacts DEF Body, Calls, CameTo, Label, Command, wrapper
<1>3. Local(f)
  BY DEF Body, LeaveWith, Calls, FlowTypes, Local
<1>4. Calling(f, label)
  BY <1>0 DEF Body, Calls, FlowTypes, Linked, Calling, wrapper, flags
<1>5. FlowTypes' /\ Linked' /\ Written'
  BY <1>2, <1>3, <1>4, FlowsMove
<1>6. WrapperTypeOK'
  BY SameProgram DEF Body, Calls, WrapperTypeOK, wrapper, flags, stack, hooks
<1>7. raw' \in [Raw -> RawState] /\ committed' \subseteq RowIds /\ Lines'
  BY LinesSame DEF Body, Calls, server
<1> QED
  BY <1>5, <1>6, <1>7, SameProgram DEF Calls

\* The end of what a block awaited leaves every call where it was made.
LEMMA ChildrenDoneCalls ==
  ASSUME Calls, UNCHANGED scenario, NEW f \in Flow, ChildrenDone(f)
  PROVE  Calls'
<1>0. pc[f] = "children" /\ at[f] = None /\ f \notin Bare /\ connection # None
  BY DEF ChildrenDone, Calls, Linked, Written, Command
<1>1. PICK label \in {"body", "exit"} : pc' = [pc EXCEPT ![f] = label] /\ running' = f
  BY DEF ChildrenDone, Goto
<1>2. CameTo(f, label)
  BY <1>0, <1>1, ProgramFacts DEF ChildrenDone, Calls, CameTo, Label, Command, wrapper
<1>3. Local(f)
  BY DEF ChildrenDone, LeaveWith, Calls, FlowTypes, Local
<1>4. Calling(f, label)
  BY <1>0 DEF ChildrenDone, Calls, FlowTypes, Linked, Calling, wrapper, flags
<1>5. FlowTypes' /\ Linked' /\ Written'
  BY <1>2, <1>3, <1>4, FlowsMove
<1>6. WrapperTypeOK'
  BY SameProgram DEF ChildrenDone, Calls, WrapperTypeOK, wrapper, flags, stack, hooks
<1>7. raw' \in [Raw -> RawState] /\ committed' \subseteq RowIds /\ Lines'
  BY LinesSame DEF ChildrenDone, Calls, server
<1> QED
  BY <1>5, <1>6, <1>7, SameProgram DEF Calls

\* What is left of a sequence without its last.
LEMMA FrontAndLast ==
  ASSUME NEW S, NEW q \in Seq(S), q # <<>>
  PROVE  Front(q) \in Seq(S) /\ Last(q) \in S /\ Len(Front(q)) = Len(q) - 1
<1> DEFINE n == Len(q) - 1
           p == SubSeq(q, 1, n)
<1>1. n \in Nat /\ \A i \in 1 .. n + 1 : q[i] \in S
  BY LenProperties, EmptySeq, ElementOfSeq
<1>2. n + 1 = Len(q)
  BY LenProperties
<1> HIDE DEF n
<1>3. p \in Seq(S) /\ Len(p) = IF 1 <= n THEN n - 1 + 1 ELSE 0
  <2>1. \A i \in 1 .. n : q[i] \in S
    BY <1>1
  <2> QED
    BY <1>1, <2>1, SubSeqProperties
<1> HIDE DEF p
<1>4. Len(p) = n
  BY <1>1, <1>3
<1>5. Front(q) = p /\ Last(q) = q[n + 1]
  BY <1>2 DEF Front, Last, p, n
<1> QED
  BY <1>1, <1>2, <1>3, <1>4, <1>5

\* The first part of __aexit__, up to its call, leaves every call where it was
\* made.
LEMMA ExitCalls ==
  ASSUME Calls, UNCHANGED scenario, NEW f \in Flow, Exit(f)
  PROVE  Calls'
<1>0. pc[f] = "exit" /\ at[f] = None /\ f \notin Bare /\ connection # None
  BY DEF Exit, Here, Calls, Linked, Written, Command
<1>1. PICK label \in {"commit", "rollback", "finally", "release", "rollback_to"} :
        pc' = [pc EXCEPT ![f] = label] /\ running' = f
  BY DEF Exit, Goto, SavepointCall, OutermostCall
<1>2. CameTo(f, label)
  BY <1>0, <1>1, ProgramFacts DEF Exit, Calls, CameTo, Label, Command
<1>3. savepoint_ids' \in Seq(Flow \union {None}) /\ sid' \in [Flow -> Flow \union {None}]
      /\ \E s \in Flow \union {None} : sid' = [sid EXCEPT ![f] = s]
  <2>1. savepoint_ids # <<>> =>
          Front(savepoint_ids) \in Seq(Flow \union {None}) /\ Last(savepoint_ids) \in Flow \union {None}
    BY FrontAndLast DEF Calls, WrapperTypeOK
  <2> QED
    BY <2>1 DEF Exit, Calls, WrapperTypeOK, FlowTypes
<1>4. atomic_blocks' \in Seq(Flow)
  BY FrontAndLast DEF Exit, Calls, WrapperTypeOK
<1>5. Local(f)
  BY <1>3 DEF Exit, Local
<1>6. Calling(f, label)
  BY <1>0 DEF Exit, Calls, FlowTypes, Linked, Calling
<1>7. FlowTypes' /\ Linked' /\ Written'
  BY <1>2, <1>5, <1>6, FlowsMove
<1>8. WrapperTypeOK'
  <2>1. in_atomic_block' \in BOOLEAN /\ needs_rollback' \in BOOLEAN
    BY DEF Exit, Calls, WrapperTypeOK
  <2> QED
    BY <1>3, <1>4, <2>1, SameProgram DEF Exit, Calls, WrapperTypeOK, hooks
<1>9. raw' \in [Raw -> RawState] /\ committed' \subseteq RowIds /\ Lines'
  BY LinesSame DEF Exit, Calls, server
<1> QED
  BY <1>7, <1>8, <1>9, SameProgram DEF Calls

\* A call that joins the queue of the connection leaves every call where it was
\* made.
LEMMA SendCalls ==
  ASSUME Calls, UNCHANGED scenario, NEW f \in Flow, Send(f)
  PROVE  Calls'
<1>0. /\ pc[f] \in Command /\ at[f] = None /\ connection \in Raw
      /\ wrote' = wrote /\ pc' = pc /\ UNCHANGED wrapper
  BY DEF Send, Calls, Linked, WrapperTypeOK, Command, program
<1>1. CameTo(f, pc[f])
  <2>1. pc' = [pc EXCEPT ![f] = pc[f]]
    BY <1>0 DEF Calls, FlowTypes
  <2>2. running' \in {f, None}
    BY DEF Send
  <2>3. connection' # None
    BY <1>0, ProgramFacts DEF Calls, wrapper
  <2> QED
    BY <1>0, <2>1, <2>2, <2>3 DEF Calls, Written, Label, Command, CameTo
<1>2. Local(f)
  BY DEF Send, Local, program
<1>3. raw' \in [Raw -> RawState] /\ at' \in [Flow -> Raw \union {None}] /\ Lines'
  BY <1>0, LinesJoined DEF Send, Calls, FlowTypes
<1>4. Calling(f, pc[f])
  BY <1>0, <1>3 DEF Send, Calls, FlowTypes, Linked, Calling, wrapper, flags
<1>5. FlowTypes' /\ Linked' /\ Written'
  BY <1>1, <1>2, <1>4, FlowsMove
<1>6. WrapperTypeOK'
  BY <1>0, SameProgram DEF Calls, WrapperTypeOK, wrapper, flags, stack, hooks
<1>7. committed' \subseteq RowIds
  BY DEF Send, Calls
<1> QED
  BY <1>3, <1>5, <1>6, <1>7, SameProgram DEF Calls

\* The connection opened, or refused inside a block, leaves every call where it
\* was made.
LEMMA ConnectionOpenedCalls ==
  ASSUME Calls, UNCHANGED scenario, NEW f \in Flow, ConnectionOpened(f)
  PROVE  Calls'
<1>0. pc[f] = "connecting" /\ at[f] = None /\ connection' = f /\ f \in Raw /\ f # None
  BY ProgramFacts DEF ConnectionOpened, Calls, Linked, Written, Command
<1>1. PICK label \in {"configure", "bare", "autocommit", "done"} :
        /\ pc' = [pc EXCEPT ![f] = label] /\ running' \in {f, None}
        /\ label = "bare" => f \in Bare
        /\ label = "autocommit" => f \notin Bare
  BY DEF ConnectionOpened, End, Suspend, Goto, ConnectedLabel
<1>2. CameTo(f, label)
  BY <1>0, <1>1, ProgramFacts DEF ConnectionOpened, Calls, CameTo, Label, Command
<1>3. Local(f)
  BY DEF ConnectionOpened, End, Suspend, Calls, FlowTypes, Local
<1>4. Calling(f, label)
  BY <1>0, <1>1 DEF ConnectionOpened, Calls, FlowTypes, Linked, Calling, flags
<1>5. FlowTypes' /\ Linked' /\ Written'
  BY <1>2, <1>3, <1>4, FlowsMove
<1>6. WrapperTypeOK'
  <2>1. autocommit' \in BOOLEAN
    BY DEF ConnectionOpened, Calls, WrapperTypeOK
  <2>2. /\ run_on_commit' \subseteq [flow : Flow, sids : SUBSET (Flow \union {None})]
        /\ run_commit_hooks_on_set_autocommit_on' \in BOOLEAN /\ fired' \subseteq Flow
    <3>1. CASE RunHooks
      <4>1. {k.flow : k \in run_on_commit} \subseteq Flow
        BY DEF Calls, WrapperTypeOK
      <4> QED
        BY <3>1, <4>1 DEF RunHooks, Calls, WrapperTypeOK
    <3>2. CASE /\ run_on_commit' \in {run_on_commit, {}}
               /\ UNCHANGED <<run_commit_hooks_on_set_autocommit_on, fired>>
      BY <3>2 DEF Calls, WrapperTypeOK
    <3> QED
      BY <3>1, <3>2 DEF ConnectionOpened, hooks
  <2> QED
    BY <1>0, <2>1, <2>2, SameProgram DEF ConnectionOpened, Calls, WrapperTypeOK, flags, stack
<1>7. Opened(~in_atomic_block) \in RawState /\ Opened(~in_atomic_block).queue = <<>>
  <2>1. <<>> \in Seq(Saved) /\ <<>> \in Seq(Flow)
    OBVIOUS
  <2> QED
    BY <2>1 DEF Opened, RawState
<1>8. raw' \in [Raw -> RawState] /\ committed' \subseteq RowIds
  BY <1>7 DEF ConnectionOpened, Calls
<1>9. \A c \in Raw : raw'[c].queue = raw[c].queue
  <2>1. raw[f].queue = <<>>
    <3>1. raw[f].queue \in Seq(Flow) /\ ToSet(raw[f].queue) \cap Flow = {}
      BY <1>0 DEF Calls, RawState, Lines, Linked
    <3> QED
      BY <3>1, ElementOfSeq, EmptySeq, LenProperties DEF ToSet
  <2> QED
    BY <1>0, <1>7, <2>1 DEF ConnectionOpened, Calls
<1>10. Lines'
  BY <1>9, LinesSame DEF ConnectionOpened, Calls
<1> QED
  BY <1>5, <1>6, <1>8, <1>10, SameProgram DEF Calls

\* A call that is answered has left its queue.
LEMMA AnswerCalls ==
  ASSUME Calls, UNCHANGED scenario, NEW f \in Flow, NEW cmd \in Command, NEW ok \in BOOLEAN,
         Answer(f, cmd, ok)
  PROVE  /\ pc[f] = cmd /\ at[f] # None /\ connection # None
         /\ at' = [at EXCEPT ![f] = None] /\ at' \in [Flow -> Raw \union {None}]
         /\ raw' \in [Raw -> RawState] /\ committed' \subseteq RowIds /\ Lines'
<1> DEFINE r == raw[at[f]]
           s == IF ok THEN After(r, cmd, f, sid[f]) ELSE AfterError(r, cmd)
<1>1. /\ pc[f] = cmd /\ at[f] # None /\ at' = [at EXCEPT ![f] = None] /\ Head(r.queue) = f
      /\ raw' = [raw EXCEPT ![at[f]] = [s EXCEPT !.queue = Tail(@)]]
      /\ ok = ~Refuses(r, cmd, sid[f])
      /\ committed' = IF ok THEN committed \union Published(r, cmd, f) ELSE committed
  BY DEF Answer, Pending
<1>2. at[f] \in Raw /\ r \in RawState /\ connection # None
  BY <1>1 DEF Calls, FlowTypes, Linked, Command
<1>3. cmd = "row" => <<f, wrote[f] + 1>> \in RowIds
  BY <1>1, ProgramFacts DEF Calls, FlowTypes, Written, RowIds
<1>4. s \in RawState /\ s.queue = r.queue /\ committed' \subseteq RowIds
  <2>1. CASE ok
    BY <1>1, <1>2, <1>3, <2>1, AfterFacts DEF Calls
  <2>2. CASE ~ok
    BY <1>1, <1>2, <2>2, ErrorFacts DEF Calls
  <2> QED
    BY <2>1, <2>2
<1>5. r.queue \in Seq(Flow) /\ IsInjective(r.queue) /\ f \in ToSet(r.queue)
  BY <1>2 DEF Calls, Lines, RawState
<1>6. r.queue # <<>>
  BY <1>5 DEF ToSet
<1>7. /\ Tail(r.queue) \in Seq(Flow) /\ IsInjective(Tail(r.queue))
      /\ ToSet(Tail(r.queue)) = ToSet(r.queue) \ {f}
  BY <1>1, <1>5, <1>6, Served
<1> DEFINE t == [s EXCEPT !.queue = Tail(@)]
<1>8. t \in RawState /\ t.queue = Tail(r.queue)
  BY <1>4, <1>7 DEF RawState
<1>9. raw' = [raw EXCEPT ![at[f]] = t]
  BY <1>1
<1> HIDE DEF t, s
<1>10. raw' \in [Raw -> RawState] /\ at' \in [Flow -> Raw \union {None}] /\ Lines'
  <2>1. IsInjective(t.queue) /\ ToSet(t.queue) = ToSet(raw[at[f]].queue) \ {f}
    BY <1>7, <1>8
  <2>2. /\ scenario \in Scenarios /\ raw \in [Raw -> RawState]
        /\ at \in [Flow -> Raw \union {None}] /\ Lines
    BY DEF Calls, FlowTypes
  <2> HIDE DEF r
  <2> QED
    BY <1>1, <1>8, <1>9, <2>1, <2>2, LinesLeft
<1> QED
  BY <1>1, <1>2, <1>4, <1>10

\* What is left to show of a step that takes an answer.
LEMMA AnswerMoves ==
  ASSUME Calls, UNCHANGED <<scenario, connection>>, NEW f \in Flow, NEW cmd \in Command,
         NEW ok \in BOOLEAN, Answer(f, cmd, ok),
         NEW label \in Label \ {"start", "connecting", "children"},
         pc' = [pc EXCEPT ![f] = label], running' \in {f, None},
         f \in Bare => label \in {"configure", "settle", "bare", "row", "done"},
         label = "bare" => f \in Bare, label = "row" => wrote'[f] < Writes,
         \/ wrote' = wrote
         \/ /\ f \notin Bare \/ label = "done"
            /\ \E n \in 0 .. Writes : wrote' = [wrote EXCEPT ![f] = n],
         Local(f), WrapperTypeOK'
  PROVE  Calls'
<1>1. /\ pc[f] = cmd /\ at[f] # None /\ connection # None
      /\ at' = [at EXCEPT ![f] = None] /\ at' \in [Flow -> Raw \union {None}]
      /\ raw' \in [Raw -> RawState] /\ committed' \subseteq RowIds /\ Lines'
  BY AnswerCalls
<1>2. CameTo(f, label)
  BY <1>1 DEF CameTo, Command
<1>3. Calling(f, label)
  BY <1>1, ProgramFacts DEF Calls, FlowTypes, Calling
<1>4. FlowTypes' /\ Linked' /\ Written'
  BY <1>2, <1>3, FlowsMove
<1> QED
  BY <1>1, <1>4, SameProgram DEF Calls

\* The configuration of a new connection leaves every call where it was made.
LEMMA ConfiguredCalls ==
  ASSUME Calls, UNCHANGED scenario, NEW f \in Flow, Configured(f)
  PROVE  Calls'
<1>1. PICK label \in {"settle", "bare", "autocommit"} :
        /\ pc' = [pc EXCEPT ![f] = label] /\ running' = f
        /\ label # "settle" => (label = "bare" <=> f \in Bare)
  BY DEF Configured, Goto, ConnectedLabel
<1>2. Local(f) /\ wrote' = wrote /\ Answer(f, "configure", TRUE)
  BY DEF Configured, Local, program
<1>3. WrapperTypeOK'
  BY SameProgram DEF Configured, Calls, WrapperTypeOK, flags, stack
<1>4. f \notin Bare \/ label \in {"settle", "bare"}
  BY <1>1
<1> QED
  BY <1>1, <1>2, <1>3, <1>4, AnswerMoves DEF Configured, Command, Label

\* and so does the COMMIT after it.
LEMMA SettledCalls ==
  ASSUME Calls, UNCHANGED scenario, NEW f \in Flow, Settled(f)
  PROVE  Calls'
<1>1. PICK label \in {"bare", "autocommit"} :
        /\ pc' = [pc EXCEPT ![f] = label] /\ running' = f
        /\ label = "bare" <=> f \in Bare
  BY DEF Settled, Goto, ConnectedLabel
<1>2. Local(f) /\ wrote' = wrote /\ Answer(f, "settle", TRUE)
  BY DEF Settled, Local, program
<1>3. WrapperTypeOK'
  BY SameProgram DEF Settled, Calls, WrapperTypeOK, flags, stack
<1>4. f \notin Bare \/ label = "bare"
  BY <1>1
<1> QED
  BY <1>1, <1>2, <1>3, <1>4, AnswerMoves DEF Settled, Command, Label

\* The answer to aset_autocommit(False) leaves every call where it was made.
LEMMA BeginTransactionCalls ==
  ASSUME Calls, UNCHANGED scenario, NEW f \in Flow, BeginTransaction(f)
  PROVE  Calls'
<1>1. PICK ok \in BOOLEAN :
        /\ Answer(f, "off", ok)
        /\ IF ok THEN /\ autocommit' = FALSE /\ in_atomic_block' = TRUE
                      /\ Goto(f, "entered") /\ UNCHANGED outcome
                 ELSE End(f, "error") /\ UNCHANGED <<autocommit, in_atomic_block>>
  BY DEF BeginTransaction
<1>2. PICK label \in {"entered", "done"} : pc' = [pc EXCEPT ![f] = label] /\ running' \in {f, None}
  BY <1>1 DEF Goto, End, Suspend
<1>3. Local(f) /\ wrote' = wrote
  BY <1>1 DEF BeginTransaction, Local, End
<1>4. WrapperTypeOK'
  BY <1>1, SameProgram DEF BeginTransaction, Calls, WrapperTypeOK, stack, hooks
<1>5. f \notin Bare
  BY <1>1 DEF Answer, Pending, Calls, Written
<1> QED
  BY <1>1, <1>2, <1>3, <1>4, <1>5, AnswerMoves DEF BeginTransaction, Command, Label

\* The answer to SAVEPOINT leaves every call where it was made.
LEMMA SavepointCreatedCalls ==
  ASSUME Calls, UNCHANGED scenario, NEW f \in Flow, SavepointCreated(f)
  PROVE  Calls'
<1>1. PICK ok \in BOOLEAN :
        /\ Answer(f, "savepoint", ok)
        /\ IF ok THEN /\ savepoint_ids' = Append(savepoint_ids, f)
                      /\ Goto(f, "entered") /\ UNCHANGED outcome
                 ELSE End(f, "error") /\ UNCHANGED savepoint_ids
  BY DEF SavepointCreated
<1>2. PICK label \in {"entered", "done"} : pc' = [pc EXCEPT ![f] = label] /\ running' \in {f, None}
  BY <1>1 DEF Goto, End, Suspend
<1>3. Local(f) /\ wrote' = wrote
  BY <1>1 DEF SavepointCreated, Local, End
<1>4. WrapperTypeOK'
  <2>1. savepoint_ids \in Seq(Flow \union {None})
    BY DEF Calls, WrapperTypeOK
  <2>2. Append(savepoint_ids, f) \in Seq(Flow \union {None})
    BY <2>1
  <2>3. savepoint_ids' \in Seq(Flow \union {None})
    BY <1>1, <2>1, <2>2
  <2> QED
    BY <2>3, SameProgram DEF SavepointCreated, Calls, WrapperTypeOK, flags, hooks
<1>5. f \notin Bare
  BY <1>1 DEF Answer, Pending, Calls, Written
<1> QED
  BY <1>1, <1>2, <1>3, <1>4, <1>5, AnswerMoves DEF SavepointCreated, Command, Label

\* The answer to a statement leaves every call where it was made.
LEMMA RowWrittenCalls ==
  ASSUME Calls, UNCHANGED scenario, NEW f \in Flow, RowWritten(f)
  PROVE  Calls'
<1>1. PICK ok \in BOOLEAN :
        /\ Answer(f, "row", ok)
        /\ wrote' = IF ok THEN [wrote EXCEPT ![f] = @ + 1] ELSE wrote
        /\ IF f \in Bare
             THEN End(f, IF ok THEN "ok" ELSE "raised") /\ UNCHANGED leaving
             ELSE /\ UNCHANGED outcome
                  /\ IF ok THEN UNCHANGED leaving /\ Goto(f, "body")
                           ELSE LeaveWith(f, "raised") /\ Goto(f, "exit")
  BY DEF RowWritten
<1>2. PICK label \in {"body", "exit", "done"} :
        /\ pc' = [pc EXCEPT ![f] = label] /\ running' \in {f, None}
        /\ f \in Bare => label = "done"
  BY <1>1 DEF Goto, End, Suspend
<1>3. Local(f)
  BY <1>1 DEF RowWritten, Local, End, LeaveWith
<1>4. WrapperTypeOK'
  BY SameProgram DEF RowWritten, Calls, WrapperTypeOK, wrapper, flags, stack, hooks
<1>5. \/ wrote' = wrote
      \/ \E n \in 0 .. Writes : wrote' = [wrote EXCEPT ![f] = n]
  <2>1. wrote[f] + 1 \in 0 .. Writes
    BY <1>1, ProgramFacts DEF Answer, Pending, Calls, FlowTypes, Written
  <2> QED
    BY <1>1, <2>1
<1> QED
  BY <1>1, <1>2, <1>3, <1>4, <1>5, AnswerMoves DEF RowWritten, Command, Label, wrapper

\* The answer to RELEASE SAVEPOINT leaves every call where it was made.
LEMMA ReleasedCalls ==
  ASSUME Calls, UNCHANGED scenario, NEW f \in Flow, Released(f)
  PROVE  Calls'
<1>1. PICK ok \in BOOLEAN :
        /\ Answer(f, "release", ok)
        /\ IF ok THEN UNCHANGED leaving /\ Goto(f, "finally")
                 ELSE LeaveWith(f, "raised") /\ Goto(f, SavepointCall("rollback_to"))
  BY DEF Released
<1>2. PICK label \in {"finally", "rollback_to"} : pc' = [pc EXCEPT ![f] = label] /\ running' = f
  BY <1>1 DEF Goto, SavepointCall
<1>3. Local(f) /\ wrote' = wrote
  BY <1>1 DEF Released, Local, LeaveWith
<1>4. WrapperTypeOK'
  BY SameProgram DEF Released, Calls, WrapperTypeOK, wrapper, flags, stack, hooks
<1>5. f \notin Bare
  BY <1>1 DEF Answer, Pending, Calls, Written
<1> QED
  BY <1>1, <1>2, <1>3, <1>4, <1>5, AnswerMoves DEF Released, Command, Label, wrapper

\* The answer to ROLLBACK TO SAVEPOINT leaves every call where it was made.
LEMMA RolledBackToCalls ==
  ASSUME Calls, UNCHANGED scenario, NEW f \in Flow, RolledBackTo(f)
  PROVE  Calls'
<1>1. PICK ok \in BOOLEAN :
        /\ Answer(f, "rollback_to", ok)
        /\ needs_rollback' = (needs_rollback \/ ~ok)
        /\ run_on_commit' =
             IF ok THEN {k \in run_on_commit : sid[f] \notin k.sids} ELSE run_on_commit
        /\ Goto(f, IF ok THEN SavepointCall("tidy") ELSE "finally")
  BY DEF RolledBackTo
<1>2. PICK label \in {"finally", "tidy"} : pc' = [pc EXCEPT ![f] = label] /\ running' = f
  BY <1>1 DEF Goto, SavepointCall
<1>3. Local(f) /\ wrote' = wrote
  BY DEF RolledBackTo, Local, program
<1>4. WrapperTypeOK'
  <2>1. needs_rollback' \in BOOLEAN /\ run_on_commit' \subseteq run_on_commit
    BY <1>1
  <2> QED
    BY <2>1, SameProgram DEF RolledBackTo, Calls, WrapperTypeOK, stack
<1>5. f \notin Bare
  BY <1>1 DEF Answer, Pending, Calls, Written
<1> QED
  BY <1>1, <1>2, <1>3, <1>4, <1>5, AnswerMoves DEF RolledBackTo, Command, Label

\* The answer to the RELEASE that follows a ROLLBACK TO leaves every call where
\* it was made.
LEMMA TidiedCalls ==
  ASSUME Calls, UNCHANGED scenario, NEW f \in Flow, Tidied(f)
  PROVE  Calls'
<1>1. PICK ok \in BOOLEAN : Answer(f, "tidy", ok) /\ needs_rollback' = (needs_rollback \/ ~ok)
  BY DEF Tidied
<1>2. Local(f) /\ wrote' = wrote /\ pc' = [pc EXCEPT ![f] = "finally"] /\ running' = f
  BY DEF Tidied, Local, program, Goto
<1>3. WrapperTypeOK'
  <2>1. needs_rollback' \in BOOLEAN
    BY <1>1
  <2> QED
    BY <2>1, SameProgram DEF Tidied, Calls, WrapperTypeOK, stack, hooks
<1>4. f \notin Bare
  BY <1>1 DEF Answer, Pending, Calls, Written
<1> QED
  BY <1>1, <1>2, <1>3, <1>4, AnswerMoves DEF Tidied, Command, Label

\* The answer to COMMIT leaves every call where it was made.
LEMMA CommittedCalls ==
  ASSUME Calls, UNCHANGED scenario, NEW f \in Flow, Committed(f)
  PROVE  Calls'
<1>1. /\ Answer(f, "commit", TRUE) /\ Local(f) /\ wrote' = wrote
      /\ pc' = [pc EXCEPT ![f] = "finally"] /\ running' = f
  BY DEF Committed, Local, program, Goto
<1>2. WrapperTypeOK'
  BY SameProgram DEF Committed, Calls, WrapperTypeOK, flags, stack
<1>3. f \notin Bare
  BY <1>1 DEF Answer, Pending, Calls, Written
<1> QED
  BY <1>1, <1>2, <1>3, AnswerMoves DEF Committed, Command, Label

\* The answer to ROLLBACK leaves every call where it was made.
LEMMA RolledBackCalls ==
  ASSUME Calls, UNCHANGED scenario, NEW f \in Flow, RolledBack(f)
  PROVE  Calls'
<1>1. /\ Answer(f, "rollback", TRUE) /\ Local(f) /\ wrote' = wrote
      /\ pc' = [pc EXCEPT ![f] = "finally"] /\ running' = f
  BY DEF RolledBack, Local, program, Goto
<1>2. WrapperTypeOK'
  BY SameProgram DEF RolledBack, Calls, WrapperTypeOK, stack
<1>3. f \notin Bare
  BY <1>1 DEF Answer, Pending, Calls, Written
<1> QED
  BY <1>1, <1>2, <1>3, AnswerMoves DEF RolledBack, Command, Label

\* The answer to aset_autocommit(True) leaves every call where it was made.
LEMMA AutocommitRestoredCalls ==
  ASSUME Calls, UNCHANGED scenario, NEW f \in Flow, AutocommitRestored(f)
  PROVE  Calls'
<1>1. PICK ok \in BOOLEAN : Answer(f, "on", ok) /\ autocommit' = (autocommit \/ ok)
  BY DEF AutocommitRestored
<1>2. PICK how \in {"error", leaving[f]} : End(f, how)
  BY DEF AutocommitRestored
<1>3. pc' = [pc EXCEPT ![f] = "done"] /\ running' = None /\ Local(f) /\ wrote' = wrote
  BY <1>2 DEF AutocommitRestored, End, Suspend, Local, Calls, FlowTypes
<1>4. RunHooks \/ UNCHANGED hooks
  BY DEF AutocommitRestored
<1>5. WrapperTypeOK'
  <2>1. /\ run_on_commit' \subseteq [flow : Flow, sids : SUBSET (Flow \union {None})]
        /\ run_commit_hooks_on_set_autocommit_on' \in BOOLEAN /\ fired' \subseteq Flow
    <3>1. {k.flow : k \in run_on_commit} \subseteq Flow
      BY DEF Calls, WrapperTypeOK
    <3> QED
      BY <1>4, <3>1 DEF RunHooks, Calls, WrapperTypeOK, hooks
  <2>2. autocommit' \in BOOLEAN
    BY <1>1
  <2> QED
    BY <2>1, <2>2, SameProgram DEF AutocommitRestored, Calls, WrapperTypeOK, flags, stack
<1> QED
  BY <1>1, <1>3, <1>5, AnswerMoves DEF AutocommitRestored, Command, Label

\* A call that is given up.
LEMMA CancelledMoves ==
  ASSUME Calls, UNCHANGED scenario, NEW f \in Flow, at[f] # None, CancelledCall(f),
         raw' \in [Raw -> RawState], committed' \subseteq RowIds, Lines'
  PROVE  Calls'
<1>1. PICK label \in {"done", "exit", "finally"} :
        /\ pc' = [pc EXCEPT ![f] = label] /\ running' \in {f, None}
        /\ f \in Bare => label = "done"
  <2>1. CASE pc[f] \in {"configure", "settle", "off", "savepoint", "on"} \/ f \in Bare
    BY <2>1 DEF CancelledCall, End, Suspend
  <2>2. CASE ~(pc[f] \in {"configure", "settle", "off", "savepoint", "on"} \/ f \in Bare) /\ pc[f] = "row"
    BY <2>2 DEF CancelledCall, Goto
  <2>3. CASE ~(pc[f] \in {"configure", "settle", "off", "savepoint", "on"} \/ f \in Bare) /\ pc[f] # "row"
    BY <2>3 DEF CancelledCall, Goto
  <2> QED
    BY <2>1, <2>2, <2>3
<1>2. pc[f] \in Command /\ connection # None /\ UNCHANGED wrapper
  BY DEF CancelledCall, Calls, Linked, Command
<1>3. CameTo(f, label)
  BY <1>1, <1>2, ProgramFacts DEF CancelledCall, Calls, CameTo, Label, Command, wrapper
<1>4. Local(f)
  BY DEF CancelledCall, End, LeaveWith, Local
<1>5. Calling(f, label)
  BY <1>1, <1>2 DEF CancelledCall, Calls, FlowTypes, Linked, Calling, wrapper, flags
<1>6. FlowTypes' /\ Linked' /\ Written'
  BY <1>3, <1>4, <1>5, FlowsMove
<1>7. WrapperTypeOK'
  BY <1>2, SameProgram DEF Calls, WrapperTypeOK, wrapper, flags, stack, hooks
<1> QED
  BY <1>6, <1>7, SameProgram DEF Calls

\* A cancellation of a call that is still queued leaves every call where it was
\* made.
LEMMA CancelQueuedCalls ==
  ASSUME Calls, UNCHANGED scenario, NEW f \in Flow, CancelQueued(f)
  PROVE  Calls'
<1> DEFINE queue == raw[at[f]].queue
<1>1. PICK i \in DOMAIN queue :
        queue[i] = f /\ raw' = [raw EXCEPT ![at[f]].queue = RemoveAt(queue, i)]
  BY DEF CancelQueued
<1>2. at[f] # None /\ at[f] \in Raw /\ at' = [at EXCEPT ![f] = None]
  BY DEF CancelQueued, CancelledCall, Calls, FlowTypes
<1>3. queue \in Seq(Flow) /\ IsInjective(queue)
  BY <1>2 DEF Calls, Lines, RawState
<1>4. /\ RemoveAt(queue, i) \in Seq(Flow) /\ IsInjective(RemoveAt(queue, i))
      /\ ToSet(RemoveAt(queue, i)) = ToSet(queue) \ {f}
  BY <1>1, <1>3, Removed
<1> DEFINE r == [raw[at[f]] EXCEPT !.queue = RemoveAt(queue, i)]
<1>5. /\ r \in RawState /\ r.queue = RemoveAt(queue, i)
      /\ raw' = [raw EXCEPT ![at[f]] = r]
  <2>1. raw' = [raw EXCEPT ![at[f]] = r]
    BY <1>1
  <2>2. raw[at[f]] \in RawState
    BY <1>2 DEF Calls
  <2> QED
    BY <1>4, <2>1, <2>2 DEF RawState
<1> HIDE DEF r
<1>6. raw' \in [Raw -> RawState] /\ Lines'
  BY <1>2, <1>4, <1>5, LinesLeft DEF Calls, FlowTypes
<1> QED
  BY <1>2, <1>6, CancelledMoves DEF CancelQueued, Calls

\* A cancellation of a call the server is carrying out leaves every call where
\* it was made.
LEMMA CancelRunningCalls ==
  ASSUME Calls, UNCHANGED scenario, NEW f \in Flow, CancelRunning(f)
  PROVE  Calls'
<1> DEFINE r == raw[at[f]]
           cmd == pc[f]
           idle(q) == [q EXCEPT !.queue = Tail(@)]
<1>1. /\ at[f] # None /\ at[f] \in Raw /\ at' = [at EXCEPT ![f] = None] /\ r \in RawState
      /\ cmd \in Command
  BY DEF CancelRunning, CancelledCall, Calls, FlowTypes, Linked
<1>2. cmd = "row" => <<f, wrote[f] + 1>> \in RowIds
  BY ProgramFacts DEF Calls, FlowTypes, Written, RowIds
<1>3. PICK s \in RawState : s.queue = r.queue /\ raw' = [raw EXCEPT ![at[f]] = idle(s)]
  <2>1. CASE ~Refuses(r, cmd, sid[f]) /\ raw' = [raw EXCEPT ![at[f]] = idle(After(r, cmd, f, sid[f]))]
    <3>1. After(r, cmd, f, sid[f]) \in RawState /\ After(r, cmd, f, sid[f]).queue = r.queue
      BY <1>1, <1>2, <2>1, AfterFacts
    <3> QED
      BY <2>1, <3>1
  <2>2. CASE raw' = [raw EXCEPT ![at[f]] = idle(AfterError(r, cmd))]
    <3>1. AfterError(r, cmd) \in RawState /\ AfterError(r, cmd).queue = r.queue
      BY <1>1, ErrorFacts
    <3> QED
      BY <2>2, <3>1
  <2> QED
    BY <2>1, <2>2 DEF CancelRunning
<1>4. committed' \subseteq RowIds
  BY <1>1, <1>2, AfterFacts DEF CancelRunning, Calls
<1>5. r.queue \in Seq(Flow) /\ IsInjective(r.queue) /\ f \in ToSet(r.queue) /\ Head(r.queue) = f
  BY <1>1 DEF CancelRunning, Calls, Lines, RawState
<1>6. r.queue # <<>>
  BY <1>5 DEF ToSet
<1>7. /\ Tail(r.queue) \in Seq(Flow) /\ IsInjective(Tail(r.queue))
      /\ ToSet(Tail(r.queue)) = ToSet(r.queue) \ {f}
  BY <1>5, <1>6, Served
<1> DEFINE t == idle(s)
<1>8. t \in RawState /\ t.queue = Tail(r.queue) /\ raw' = [raw EXCEPT ![at[f]] = t]
  BY <1>3, <1>7 DEF RawState
<1> HIDE DEF t
<1>9. raw' \in [Raw -> RawState] /\ Lines'
  <2>1. IsInjective(t.queue) /\ ToSet(t.queue) = ToSet(raw[at[f]].queue) \ {f}
    BY <1>7, <1>8
  <2> HIDE DEF r
  <2> QED
    BY <1>1, <1>8, <2>1, LinesLeft DEF Calls, FlowTypes
<1> QED
  BY <1>1, <1>4, <1>9, CancelledMoves DEF CancelRunning

\* Whatever a flow does, and whoever is cancelled.
LEMMA StepCalls ==
  ASSUME Calls, [Next]_vars
  PROVE  Calls'
<1>1. CASE UNCHANGED vars
  BY <1>1, SameProgram, LinesSame
     DEF vars, program, wrapper, server, flags, stack, hooks, Calls, FlowTypes, WrapperTypeOK,
         Linked, Written
<1>2. CASE Next
  <2>1. UNCHANGED scenario
    BY <1>2 DEF Next
  <2>2. PICK f \in Flow : Step(f) \/ Cancel(f)
    BY <1>2 DEF Next
  <2> QED
    BY <2>1, <2>2, EnterRefusedCalls, EnterNestedCalls, EnterOutermostCalls, EnterBareCalls,
       ConnectionOpenedCalls, BareStatementCalls, SendCalls, ConfiguredCalls, SettledCalls,
       SeeAutocommitCalls, BeginTransactionCalls, EnterBlockCalls, SavepointCreatedCalls,
       EnteredCalls, OnCommitCalls, BodyCalls, RowWrittenCalls, ChildrenDoneCalls,
       ExitCalls, ReleasedCalls, RolledBackToCalls, TidiedCalls, CommittedCalls,
       RolledBackCalls, FinallyCalls, AutocommitRestoredCalls, CancelConnectingCalls,
       CancelQueuedCalls, CancelRunningCalls
       DEF Step, Cancel
<1> QED
  BY <1>1, <1>2

\* At the start nobody has called.
LEMMA InitCalls ==
  ASSUME Init
  PROVE  Calls
<1>1. scenario \in Scenarios
  BY DEF Init
<1>2. Opened(scenario.connected) \in RawState /\ Opened(scenario.connected).queue = <<>>
  <2>1. <<>> \in Seq(Saved) /\ <<>> \in Seq(Flow)
    OBVIOUS
  <2> QED
    BY <1>1, <2>1, ProgramFacts DEF Opened, RawState
<1>3. FlowTypes
  BY <1>1, ProgramFacts DEF Init, FlowTypes, Label
<1>4. WrapperTypeOK
  <2>1. <<>> \in Seq(Flow \union {None}) /\ <<>> \in Seq(Flow)
    OBVIOUS
  <2> QED
    BY <1>1, <2>1, ProgramFacts DEF Init, WrapperTypeOK
<1>5. raw \in [Raw -> RawState] /\ \A c \in Raw : raw[c].queue = <<>>
  BY <1>2 DEF Init
<1>6. Lines
  <2>1. ToSet(<<>>) = {} /\ IsInjective(<<>>)
    BY DEF ToSet, IsInjective
  <2> QED
    BY <1>1, <1>5, <2>1, ProgramFacts DEF Init, Lines
<1>7. Linked /\ Written
  BY <1>1, ProgramFacts DEF Init, Linked, Written
<1> QED
  BY <1>1, <1>3, <1>4, <1>5, <1>6, <1>7 DEF Init, Calls

\* At every reachable state.
LEMMA CallsHold ==
  Spec => []Calls
BY InitCalls, StepCalls, PTL DEF Spec

\* Every variable keeps its kind, and a call waits in the queue of the
\* connection it was made on, for any tasks on one wrapper: whoever runs,
\* opens a connection or is cancelled between.
THEOREM TypeCorrect ==
  Spec => []TypeOK
<1>1. Calls => TypeOK
  BY DEF Calls, FlowTypes, TypeOK, ServerTypeOK, Lines, RowIds, Saved, RawState
<1> QED
  BY <1>1, CallsHold, PTL

-----------------------------------------------------------------------------
(* One owner.                                                              *)

\* All the other flows have ended, or have not begun.
Lone(f) == \A g \in Flow \ {f} : pc[g] \in {"start", "done"}

\* The outermost blocks are of one task.
LEMMA OneTask ==
  ASSUME OneOwner, scenario \in Scenarios, NEW f \in Flow, NEW g \in Flow, Top(f), Top(g)
  PROVE  TaskOf[f] = TaskOf[g]
BY ProgramFacts, ScenarioAssumption DEF OneOwner, OwnedByOneTask, Top, Parent, TaskOf, Flow, None

\* Who is in an outermost block and awaits nothing is alone.
LEMMA Alone ==
  ASSUME OneOwner, Calls, Stage, NEW f \in Flow, Top(f),
         \/ pc[f] \notin {"start", "done", "children"}
         \/ Ready(f)
         \/ pc[f] = "children" /\ \A g \in Children(f) : pc[g] = "done"
  PROVE  /\ Lone(f)
         /\ ~InBlock(f) => AtRest
         /\ InBlock(f) => Within(f)
<1>1. Flow \subseteq Nat /\ pc[f] # "done"
  BY ProgramFacts DEF Calls, Ready
<1>2. ASSUME NEW g \in Flow \ {f}, Top(g)
      PROVE  pc[g] \in {"start", "done"}
  <2>1. TaskOf[f] = TaskOf[g] /\ Parent[f] = Parent[g]
    BY <1>2, OneTask DEF Calls, Top
  <2>2. f < g \/ g < f
    BY <1>1, ProgramFacts DEF Calls
  <2>3. CASE f < g
    BY <1>1, <2>1, <2>3 DEF Stage, InTurn
  <2>4. CASE g < f /\ pc[f] # "start"
    BY <2>1, <2>4 DEF Stage, InTurn
  <2>5. CASE g < f /\ pc[f] = "start"
    BY <2>1, <2>5 DEF Ready
  <2> QED
    BY <2>2, <2>3, <2>4, <2>5
<1>3. ASSUME NEW g \in Flow \ {f}, ~Top(g)
      PROVE  pc[g] \in {"start", "done"}
  <2>1. SUFFICES ASSUME pc[g] \notin {"start", "done"}
                 PROVE  FALSE
    OBVIOUS
  <2>2. Parent[g] \in Flow /\ Top(Parent[g]) /\ pc[Parent[g]] = "children"
    BY <1>3, <2>1, ProgramFacts DEF Calls, Top, Stage, InTurn
  <2>3. Parent[g] = f
    BY <1>2, <2>2
  <2> QED
    BY <2>1, <2>2, <2>3 DEF Children, Ready
<1>4. Lone(f)
  BY <1>2, <1>3 DEF Lone
<1>5. ~InBlock(f) => AtRest
  BY <1>4 DEF Lone, Stage, InBlock, Begun, Ending
<1> QED
  BY <1>4, <1>5 DEF Stage

\* A flow is awaited by a block, which awaits one block at a time.
LEMMA Awaited ==
  ASSUME Calls, Stage, NEW f \in Flow, ~Top(f), pc[f] \notin {"start", "done"} \/ Ready(f)
  PROVE  /\ Parent[f] \in Flow \ {f} /\ Top(Parent[f]) /\ pc[Parent[f]] = "children"
         /\ InBlock(Parent[f]) /\ Within(Parent[f]) /\ in_atomic_block /\ Deep(Parent[f])
         /\ Root(f) = Parent[f] /\ f \in Children(Parent[f]) /\ connection # None
         /\ f \notin Bare /\ TaskOf[f] = TaskOf[Parent[f]] =>
              \A g \in Children(Parent[f]) \ {f} : ~Nested(g)
<1> DEFINE p == Parent[f]
<1>1. p \in Flow \ {f} /\ Top(p) /\ p \notin Bare /\ Flow \subseteq Nat
  BY ProgramFacts DEF Calls, Top
<1>2. pc[p] = "children"
  BY <1>1 DEF Stage, InTurn, Ready, Top
<1>3. InBlock(p) /\ Within(p)
  BY <1>1, <1>2 DEF Stage, InBlock, Begun
<1>4. in_atomic_block /\ Deep(p)
  BY <1>2, <1>3 DEF Within, Begun
<1>5. connection # None
  BY <1>1, <1>2 DEF Calls, Linked
<1>6. ASSUME f \notin Bare, TaskOf[f] = TaskOf[p], NEW g \in Children(p) \ {f}
      PROVE  ~Nested(g)
  <2>1. SUFFICES ASSUME Nested(g)
                 PROVE  FALSE
    OBVIOUS
  <2>2. g \in Flow /\ Parent[g] = Parent[f] /\ pc[g] \notin {"start", "done"}
    BY <2>1 DEF Children, Nested, Begun
  <2>3. TaskOf[g] = TaskOf[f]
    BY <1>6, <2>1, <2>2 DEF Nested, Stage, Place
  <2>4. f < g \/ g < f
    BY <1>1, <2>2
  <2> QED
    BY <2>2, <2>3, <2>4 DEF Stage, InTurn, Ready
<1>7. Root(f) = p /\ f \in Children(p)
  BY DEF Root, Children, Top, None
<1> QED
  BY <1>1, <1>2, <1>3, <1>4, <1>5, <1>6, <1>7

\* A call is on the connection of the wrapper, and a lone one is served at once.
LEMMA Called ==
  ASSUME Calls, Stage, NEW f \in Flow, at[f] # None
  PROVE  /\ at[f] = connection /\ connection \in Raw /\ pc[f] \in Command
         /\ Lone(f) => Head(raw[connection].queue) = f
<1>1. at[f] \in Raw /\ pc[f] \in Command /\ f \in ToSet(raw[at[f]].queue)
  BY DEF Calls, FlowTypes, Linked, Lines
<1>2. at[f] = connection
  BY <1>1 DEF Stage, Owner, ToSet
<1>3. ASSUME Lone(f)
      PROVE  Head(raw[connection].queue) = f
  <2>1. raw[connection].queue \in Seq(Flow) /\ raw[connection].queue # <<>>
    BY <1>1, <1>2 DEF Calls, RawState, ToSet
  <2>2. Head(raw[connection].queue) \in ToSet(raw[connection].queue) \cap Flow
    BY <1>1, <1>2, <2>1, Served DEF Calls, Lines
  <2>3. at[Head(raw[connection].queue)] = connection
    BY <1>1, <1>2, <2>2 DEF Calls, Lines
  <2> QED
    BY <1>1, <1>2, <1>3, <2>2, <2>3, ProgramFacts DEF Lone, Calls, Linked, Command
<1> QED
  BY <1>1, <1>2, <1>3

\* Flows keep their turn, whatever one of them does when it has it.
LEMMA TurnsKept ==
  ASSUME Calls, Stage, UNCHANGED scenario, NEW f \in Flow, NEW label \in Label \ {"start"},
         pc' = [pc EXCEPT ![f] = label], pc[f] # "done", pc[f] = "start" => Ready(f),
         \/ pc[f] # "children" \/ label = "children"
         \/ \A g \in Children(f) : pc[g] = "done"
  PROVE  InTurn'
<1>1. pc \in [Flow -> Label] /\ pc'[f] = label /\ \A g \in Flow \ {f} : pc'[g] = pc[g]
  BY DEF Calls, FlowTypes
<1>2. ASSUME NEW a \in Flow, NEW b \in Flow, Parent[a] = Parent[b], TaskOf[a] = TaskOf[b],
             a < b, pc'[b] # "start"
      PROVE  pc'[a] = "done"
  <2>1. CASE b # f
    BY <1>1, <1>2, <2>1 DEF Stage, InTurn
  <2>2. CASE b = f /\ pc[f] # "start"
    BY <1>1, <1>2, <2>2, ProgramFacts DEF Stage, InTurn, Calls
  <2>3. CASE b = f /\ pc[f] = "start"
    BY <1>1, <1>2, <2>3, ProgramFacts DEF Ready, Calls
  <2> QED
    BY <2>1, <2>2, <2>3
<1>3. ASSUME NEW g \in Flow, Parent[g] # None, pc'[g] \notin {"start", "done"}
      PROVE  pc'[Parent[g]] = "children"
  <2>1. pc[Parent[g]] = "children" /\ Parent[g] \in Flow \ {g}
    BY <1>1, <1>3, ProgramFacts DEF Stage, InTurn, Top, Ready, Calls
  <2>2. CASE Parent[g] # f
    BY <1>1, <2>1, <2>2
  <2>3. CASE Parent[g] = f
    BY <1>1, <1>3, <2>1, <2>3 DEF Children
  <2> QED
    BY <2>2, <2>3
<1> QED
  BY <1>2, <1>3, SameProgram DEF InTurn, Top

\* A flow that is alone takes a step.
LEMMA TopStep ==
  ASSUME Calls, Stage, UNCHANGED scenario, NEW f \in Flow, NEW label \in Label \ {"start"},
         pc' = [pc EXCEPT ![f] = label], pc[f] # "done", pc[f] = "start" => Ready(f),
         pc[f] = "children" => \A g \in Children(f) : pc[g] = "done",
         Top(f), Lone(f), Place(f)', Owner',
         ~InBlock(f)' => AtRest', InBlock(f)' => Within(f)'
  PROVE  Stage'
<1>1. InTurn'
  BY TurnsKept
<1>2. ASSUME NEW g \in Flow \ {f}
      PROVE  Place(g)' /\ ~InBlock(g)'
  <2>1. pc'[g] = pc[g] /\ pc[g] \in {"start", "done"}
    BY DEF Calls, FlowTypes, Lone
  <2> QED
    BY <2>1, SameProgram DEF Place, InBlock, Top, Before, Begun, Ending, Opening, Closing
<1>3. \A g \in Flow : Place(g)'
  BY <1>2
<1>4. (\A g \in Flow : ~InBlock(g)') => AtRest'
  BY <1>2
<1>5. \A g \in Flow : InBlock(g)' => Within(g)'
  BY <1>2
<1> QED
  BY <1>1, <1>3, <1>4, <1>5, SameProgram DEF Stage

\* A flow that is awaited takes a step.
LEMMA ChildStep ==
  ASSUME OneOwner, Calls, Stage, UNCHANGED scenario, NEW f \in Flow,
         NEW label \in Label \ {"start", "connecting"},
         pc' = [pc EXCEPT ![f] = label], pc[f] # "done", pc[f] = "start" => Ready(f),
         ~Top(f), Place(f)',
         UNCHANGED <<connection, commit_on_exit, _task_connection_owner>>,
         \A c \in Raw \ {connection} : raw'[c] = raw[c],
         Within(Parent[f])'
  PROVE  Stage'
<1> DEFINE p == Parent[f]
<1>1. /\ p \in Flow \ {f} /\ Top(p) /\ pc[p] = "children" /\ InBlock(p)
  BY Awaited
<1>2. pc'[f] = label /\ \A g \in Flow \ {f} : pc'[g] = pc[g]
  BY DEF Calls, FlowTypes
<1>3. InTurn'
  <2>1. pc[f] # "children"
    BY DEF Stage, Place, Opening, Begun, Closing
  <2> QED
    BY <2>1, TurnsKept
<1>4. Owner'
  BY <1>2, SameProgram DEF Stage, Owner, Top
<1>5. \A g \in Flow : Place(g)'
  BY <1>2, SameProgram DEF Stage, Place, Top
<1>6. InBlock(p)'
  BY <1>1, <1>2, SameProgram DEF InBlock, Top
<1>7. ASSUME NEW g \in Flow, InBlock(g)'
      PROVE  g = p
  <2>1. Top(g) /\ pc[g] \notin {"start", "done"} /\ g # f
    BY <1>2, <1>7, SameProgram DEF InBlock, Top, Begun, Ending
  <2>2. TaskOf[g] = TaskOf[p] /\ Parent[g] = Parent[p]
    BY <1>1, <2>1, OneTask DEF Calls, Top
  <2>3. g < p \/ p < g \/ g = p
    BY <1>1, ProgramFacts DEF Calls
  <2> QED
    BY <1>1, <2>1, <2>2, <2>3 DEF Stage, InTurn
<1> QED
  BY <1>1, <1>3, <1>4, <1>5, <1>6, <1>7, SameProgram DEF Stage

\* A command carried out for f, or refused, leaves the transaction to its block,
\* and touches no other connection.
LEMMA RowsAfter ==
  ASSUME Calls, NEW r \in RawState, NEW f \in Flow, NEW cmd \in Command, NEW s, NEW p,
         OwnRows(r, p), Root(f) = p, ~Refuses(r, cmd, s)
  PROVE  OwnRows(After(r, cmd, f, s), p)
<1> DEFINE begun == [r EXCEPT !.tx = "intrans"]
           m == CHOOSE i \in MarkOf(r, s) : TRUE
<1>1. r.saved \in Seq(Saved) /\ r.rows \in SUBSET RowIds /\ DOMAIN r.saved = 1 .. Len(r.saved)
      /\ Len(r.saved) \in Nat
  BY LenProperties DEF RawState
<1>2. CASE cmd = "row"
  <2>1. After(r, cmd, f, s) =
          IF r.autocommit THEN r ELSE [begun EXCEPT !.rows = @ \union {<<f, wrote[f] + 1>>}]
    BY <1>2 DEF After, Commits
  <2>2. /\ After(r, cmd, f, s).rows \subseteq r.rows \union {<<f, wrote[f] + 1>>}
        /\ After(r, cmd, f, s).saved = r.saved
    BY <2>1 DEF RawState
  <2> QED
    BY <2>2 DEF OwnRows
<1>3. CASE cmd = "savepoint"
  <2> DEFINE new == [by |-> f, rows |-> r.rows]
             saved == Append(r.saved, new)
  <2>1. After(r, cmd, f, s).rows = r.rows /\ After(r, cmd, f, s).saved = saved
    BY <1>3 DEF After, Commits, RawState
  <2>2. \A i \in DOMAIN saved : saved[i] = new \/ (i \in DOMAIN r.saved /\ saved[i] = r.saved[i])
    BY <1>1
  <2>3. new.rows = r.rows
    OBVIOUS
  <2> HIDE DEF new, saved
  <2> QED
    BY <2>1, <2>2, <2>3 DEF OwnRows
<1>4. CASE cmd \in {"release", "tidy", "rollback_to"}
  <2>1. m \in DOMAIN r.saved
    BY <1>4 DEF Refuses, MarkOf
  <2>2. m \in 1 .. Len(r.saved)
    BY <1>1, <2>1
  <2>3. \A n \in 0 .. Len(r.saved) :
          \A i \in DOMAIN SubSeq(r.saved, 1, n) :
            i \in DOMAIN r.saved /\ SubSeq(r.saved, 1, n)[i] = r.saved[i]
    BY <1>1
  <2>4. m - 1 \in 0 .. Len(r.saved) /\ m \in 0 .. Len(r.saved)
    BY <1>1, <2>2
  <2>5. CASE cmd = "rollback_to"
    <3>1. After(r, cmd, f, s) = [begun EXCEPT !.rows = r.saved[m].rows, !.saved = SubSeq(@, 1, m)]
      BY <2>5 DEF After, Commits
    <3>2. /\ After(r, cmd, f, s).rows = r.saved[m].rows
          /\ After(r, cmd, f, s).saved = SubSeq(r.saved, 1, m)
      BY <3>1 DEF RawState
    <3>3. \A i \in DOMAIN After(r, cmd, f, s).saved :
            i \in DOMAIN r.saved /\ After(r, cmd, f, s).saved[i] = r.saved[i]
      BY <2>3, <2>4, <3>2
    <3> HIDE DEF m
    <3> QED
      BY <2>1, <3>2, <3>3 DEF OwnRows
  <2>6. CASE cmd \in {"release", "tidy"}
    <3>1. After(r, cmd, f, s) = [begun EXCEPT !.saved = SubSeq(@, 1, m - 1)]
      BY <2>6 DEF After, Commits
    <3>2. /\ After(r, cmd, f, s).rows = r.rows
          /\ After(r, cmd, f, s).saved = SubSeq(r.saved, 1, m - 1)
      BY <3>1 DEF RawState
    <3>3. \A i \in DOMAIN After(r, cmd, f, s).saved :
            i \in DOMAIN r.saved /\ After(r, cmd, f, s).saved[i] = r.saved[i]
      BY <2>3, <2>4, <3>2
    <3> QED
      BY <3>2, <3>3 DEF OwnRows
  <2> QED
    BY <1>4, <2>5, <2>6
<1>5. CASE cmd \in {"settle", "commit", "rollback"}
  <2>1. After(r, cmd, f, s).rows = {} /\ After(r, cmd, f, s).saved = <<>>
    BY <1>5 DEF After, Ended, RawState, Commits
  <2> QED
    BY <2>1 DEF OwnRows
<1>6. CASE cmd \in {"off", "on", "configure"}
  <2>1. After(r, cmd, f, s).rows = r.rows /\ After(r, cmd, f, s).saved = r.saved
    BY <1>6 DEF After, Commits, RawState
  <2> QED
    BY <2>1 DEF OwnRows
<1> QED
  BY <1>2, <1>3, <1>4, <1>5, <1>6 DEF Command

\* A failed call leaves a transaction the rows it had, or none.
LEMMA RowsAfterError ==
  ASSUME NEW r \in RawState, NEW cmd \in Command, NEW p, OwnRows(r, p)
  PROVE  OwnRows(AfterError(r, cmd), p)
<1>1. \/ AfterError(r, cmd).rows = {} /\ AfterError(r, cmd).saved = <<>>
      \/ AfterError(r, cmd).rows = r.rows /\ AfterError(r, cmd).saved = r.saved
  BY DEF AfterError, Ended, RawState
<1> QED
  BY <1>1 DEF OwnRows

\* What a call made of the connection.
Became(f, s) ==
  /\ raw' = [raw EXCEPT ![connection] = [s EXCEPT !.queue = Tail(@)]]
  /\ at' = [at EXCEPT ![f] = None]

Outcomes(r, cmd, f, s) ==
  {AfterError(r, cmd)} \union IF Refuses(r, cmd, s) THEN {} ELSE {After(r, cmd, f, s)}

\* Whichever it was, autocommit is only changed by who asks for it.
LEMMA BecameFacts ==
  ASSUME Calls, Stage, NEW f \in Flow, at[f] # None,
         NEW s \in Outcomes(raw[connection], pc[f], f, sid[f]), Became(f, s)
  PROVE  /\ s \in RawState /\ Alike(raw'[connection], s)
         /\ \A c \in Raw \ {connection} : raw'[c] = raw[c]
         /\ pc[f] \notin {"off", "on"} => s.autocommit = raw[connection].autocommit
         /\ OwnRows(raw[connection], Root(f)) => OwnRows(raw'[connection], Root(f))
<1> DEFINE r == raw[connection]
<1>1. connection \in Raw /\ pc[f] \in Command /\ r \in RawState
  BY Called DEF Calls
<1>2. pc[f] = "row" => <<f, wrote[f] + 1>> \in RowIds
  BY ProgramFacts DEF Calls, FlowTypes, Written, RowIds
<1>3. s \in RawState
  BY <1>1, <1>2, AfterFacts, ErrorFacts DEF Outcomes
<1>4. Alike(raw'[connection], s) /\ \A c \in Raw \ {connection} : raw'[c] = raw[c]
  BY <1>1, <1>3 DEF Became, Calls, RawState, Alike
<1>5. pc[f] \notin {"off", "on"} => s.autocommit = r.autocommit
  <2>1. AfterError(r, pc[f]).autocommit = r.autocommit
    BY <1>1 DEF AfterError, Ended, RawState
  <2>2. pc[f] \notin {"off", "on"} => After(r, pc[f], f, sid[f]).autocommit = r.autocommit
    BY <1>1 DEF After, Ended, RawState, Command, Commits
  <2> QED
    BY <2>1, <2>2 DEF Outcomes
<1>6. OwnRows(r, Root(f)) => OwnRows(s, Root(f))
  BY <1>1, RowsAfter, RowsAfterError DEF Outcomes
<1>7. OwnRows(s, Root(f)) => OwnRows(raw'[connection], Root(f))
  BY <1>4 DEF Alike, OwnRows
<1> QED
  BY <1>3, <1>4, <1>5, <1>6, <1>7

\* An answer comes to the caller, from the connection of the wrapper, and
\* changes it as the call does when it succeeds, or fails.
LEMMA AnswerBecame ==
  ASSUME Calls, Stage, NEW f \in Flow, NEW cmd, NEW ok \in BOOLEAN, Answer(f, cmd, ok)
  PROVE  /\ pc[f] = cmd /\ at[f] = connection /\ at[f] # None /\ connection \in Raw
         /\ ok = ~Refuses(raw[connection], cmd, sid[f])
         /\ IF ok THEN Became(f, After(raw[connection], cmd, f, sid[f]))
                  ELSE Became(f, AfterError(raw[connection], cmd))
         /\ (IF ok THEN After(raw[connection], cmd, f, sid[f])
                   ELSE AfterError(raw[connection], cmd)) \in
              Outcomes(raw[connection], pc[f], f, sid[f])
<1>1. pc[f] = cmd /\ at[f] # None
  BY DEF Answer, Pending
<1>2. at[f] = connection /\ connection \in Raw
  BY <1>1, Called
<1> QED
  BY <1>1, <1>2 DEF Answer, Became, Outcomes

\* A flow that is awaited takes a step which leaves the blocks as deep as they were.
LEMMA Beside ==
  ASSUME OneOwner, Calls, Stage, UNCHANGED scenario, NEW f \in Flow,
         NEW label \in Label \ {"start", "connecting"},
         pc' = [pc EXCEPT ![f] = label], pc[f] # "done", pc[f] = "start" => Ready(f),
         ~Top(f), Place(f)',
         UNCHANGED <<connection, autocommit, in_atomic_block, commit_on_exit,
                     _task_connection_owner, stack>>,
         Nested(f)' <=> Nested(f), Nested(f) => (pc[f] = "entered" <=> label = "entered"),
         \A c \in Raw \ {connection} : raw'[c] = raw[c],
         raw'[connection].autocommit = raw[connection].autocommit,
         OwnRows(raw[connection], Root(f)) => OwnRows(raw'[connection], Root(f))
  PROVE  Stage'
<1> DEFINE p == Parent[f]
<1>1. /\ p \in Flow \ {f} /\ pc[p] = "children" /\ Within(p) /\ in_atomic_block /\ Deep(p)
      /\ Root(f) = p
  BY Awaited
<1>2. pc'[f] = label /\ \A g \in Flow \ {f} : pc'[g] = pc[g]
  BY DEF Calls, FlowTypes
<1>3. \A g \in Flow : (Nested(g)' <=> Nested(g)) /\ (Nested(g) => (pc'[g] = "entered" <=> pc[g] = "entered"))
  BY <1>2, SameProgram DEF Nested, Top
<1>4. Children(p)' = Children(p) /\ Children(p) \subseteq Flow
  BY SameProgram DEF Children
<1>5. Deep(p)'
  <2>1. UNCHANGED <<savepoint_ids, atomic_blocks>>
    BY DEF stack
  <2> QED
    BY <1>1, <1>3, <1>4, <2>1 DEF Deep
<1>6. Within(p)'
  <2>1. OwnRows(raw[connection], p)'
    BY <1>1, SameProgram DEF Within, OwnRows, Root
  <2>2. ~autocommit' /\ ~raw'[connection'].autocommit
    BY <1>1 DEF Within
  <2>3. pc'[p] = "children" /\ in_atomic_block'
    BY <1>1, <1>2
  <2> QED
    BY <1>5, <2>1, <2>2, <2>3, SameProgram DEF Within, Begun, Ending
<1>7. Parent[f]' = p
  BY SameProgram
<1> QED
  BY <1>6, <1>7, ChildStep DEF OwnRows

\* A block of another task refused by __aenter__ leaves every flow at its place
\* in the family of blocks.
LEMMA EnterRefusedStage ==
  ASSUME OneOwner, Calls, Stage, UNCHANGED scenario, NEW f \in Flow, EnterRefused(f)
  PROVE  Stage'
<1>1. /\ pc[f] = "start" /\ Ready(f) /\ f \notin Bare /\ pc' = [pc EXCEPT ![f] = "done"]
      /\ UNCHANGED wrapper /\ UNCHANGED raw /\ _task_connection_owner # TaskOf[f]
  BY DEF EnterRefused, Ready, Foreign, End, Suspend, server
<1>2. ~Top(f)
  BY <1>1 DEF Stage, Owner
<1>3. pc'[f] = "done"
  BY <1>1 DEF Calls, FlowTypes
<1>4. ~Nested(f) /\ ~Nested(f)' /\ Place(f)'
  BY <1>1, <1>2, <1>3, SameProgram DEF Nested, Place, Top, Begun
<1> QED
  BY <1>1, <1>2, <1>4, Beside DEF wrapper, flags, Label

\* A block entered inside another one leaves every flow at its place in the
\* family of blocks.
LEMMA EnterNestedStage ==
  ASSUME OneOwner, Calls, Stage, UNCHANGED scenario, NEW f \in Flow, EnterNested(f)
  PROVE  Stage'
<1>1. /\ pc[f] = "start" /\ Ready(f) /\ f \notin Bare /\ pc' = [pc EXCEPT ![f] = "block"]
      /\ UNCHANGED wrapper /\ UNCHANGED raw /\ _task_connection_owner = TaskOf[f]
      /\ in_atomic_block
  BY DEF EnterNested, Ready, Foreign, Goto, server
<1>2. ~Top(f)
  BY <1>1, Alone DEF InBlock, Begun, Ending, AtRest
<1>3. pc'[f] = "block"
  BY <1>1 DEF Calls, FlowTypes
<1>4. TaskOf[f] = TaskOf[Parent[f]]
  BY <1>1, <1>2, Awaited DEF Stage, Owner
<1>5. ~Nested(f) /\ ~Nested(f)' /\ Place(f)'
  BY <1>1, <1>2, <1>3, <1>4, SameProgram DEF Nested, Place, Top, Begun, Opening
<1> QED
  BY <1>1, <1>2, <1>5, Beside DEF wrapper, flags, Label

\* An outermost block entered, which may first connect, leaves every flow at
\* its place in the family of blocks.
LEMMA EnterOutermostStage ==
  ASSUME OneOwner, Calls, Stage, UNCHANGED scenario, NEW f \in Flow, EnterOutermost(f)
  PROVE  Stage'
<1>1. /\ pc[f] = "start" /\ Ready(f) /\ f \notin Bare /\ ~in_atomic_block
      /\ UNCHANGED <<connection, autocommit, raw>>
      /\ commit_on_exit' /\ _task_connection_owner' = TaskOf[f] /\ ~needs_rollback'
  BY DEF EnterOutermost, Ready, Connect, server
<1>2. Top(f)
  BY <1>1, Awaited
<1>3. Lone(f) /\ AtRest
  BY <1>1, <1>2, Alone DEF InBlock, Begun, Ending
<1>4. PICK label \in {"connecting", "autocommit"} :
        pc' = [pc EXCEPT ![f] = label] /\ (label = "connecting" => connection = None)
  BY DEF EnterOutermost, Connect, Suspend, Goto
<1>5. pc'[f] = label /\ \A g \in Flow \ {f} : pc'[g] = pc[g]
  BY <1>4 DEF Calls, FlowTypes
<1>6. AtRest'
  <2>1. ~in_atomic_block' /\ savepoint_ids' = <<>> /\ atomic_blocks' = <<>>
    BY <1>1, <1>3 DEF EnterOutermost, Connect, AtRest, stack
  <2>2. connection # None => Alike(raw[connection], Opened(TRUE))'
    BY <1>1, <1>3 DEF AtRest, Alike, Opened
  <2> QED
    BY <1>1, <1>3, <2>1, <2>2 DEF AtRest
<1>7. Owner'
  BY <1>1, <1>2, <1>4, <1>5, OneTask, SameProgram DEF Calls, Stage, Owner, Top
<1>8. Place(f)' /\ ~InBlock(f)'
  BY <1>1, <1>2, <1>5, SameProgram DEF Place, InBlock, Top, Before, Begun, Ending
<1> QED
  BY <1>1, <1>2, <1>3, <1>4, <1>6, <1>7, <1>8, TopStep DEF Label

\* A statement outside the blocks, which may first connect, leaves every flow
\* at its place in the family of blocks.
LEMMA EnterBareStage ==
  ASSUME OneOwner, Calls, Stage, UNCHANGED scenario, NEW f \in Flow, EnterBare(f)
  PROVE  Stage'
<1>1. /\ pc[f] = "start" /\ Ready(f) /\ f \in Bare
      /\ UNCHANGED <<connection, autocommit, raw, commit_on_exit, _task_connection_owner>>
  BY DEF EnterBare, Ready, Connect, server, flags
<1>2. PICK label \in {"connecting", "bare"} :
        /\ pc' = [pc EXCEPT ![f] = label] /\ (label = "connecting" => connection = None)
        /\ label = "bare" => UNCHANGED <<flags, stack>>
        /\ label = "connecting" => Connect(f)
        /\ connection # None => label = "bare"
  BY DEF EnterBare, Connect, Suspend, Goto
<1>3. pc'[f] = label /\ \A g \in Flow \ {f} : pc'[g] = pc[g]
  BY <1>2 DEF Calls, FlowTypes
<1>4. CASE Top(f)
  <2>1. Lone(f) /\ AtRest
    BY <1>1, <1>4, Alone DEF InBlock, Begun, Ending
  <2>2. AtRest'
    <3>1. ~in_atomic_block' /\ savepoint_ids' = <<>> /\ atomic_blocks' = <<>> /\ ~needs_rollback'
      BY <1>2, <2>1 DEF Connect, AtRest, stack, flags
    <3>2. connection # None => Alike(raw[connection], Opened(TRUE))'
      BY <1>1, <2>1 DEF AtRest, Alike, Opened
    <3> QED
      BY <1>1, <2>1, <3>1, <3>2 DEF AtRest
  <2>3. Owner'
    BY <1>1, <1>2, <1>3, SameProgram DEF Stage, Owner, Top
  <2>4. Place(f)' /\ ~InBlock(f)'
    BY <1>1, <1>3, <1>4, SameProgram DEF Place, InBlock, Top, Before
  <2> QED
    BY <1>1, <1>2, <1>4, <2>1, <2>2, <2>3, <2>4, TopStep DEF Label
<1>5. CASE ~Top(f)
  <2>1. label = "bare"
    BY <1>1, <1>2, <1>5, Awaited
  <2>2. ~Nested(f) /\ ~Nested(f)' /\ Place(f)'
    BY <1>1, <1>3, <1>5, <2>1, SameProgram DEF Nested, Place, Top
  <2> QED
    BY <1>1, <1>2, <1>5, <2>1, <2>2, Beside DEF flags, Label
<1> QED
  BY <1>4, <1>5

\* The connection opened, or refused inside a block, leaves every flow at its
\* place in the family of blocks.
LEMMA ConnectionOpenedStage ==
  ASSUME OneOwner, Calls, Stage, UNCHANGED scenario, NEW f \in Flow, ConnectionOpened(f)
  PROVE  Stage'
<1>1. /\ pc[f] = "connecting" /\ connection = None /\ connection' = f /\ f \in Raw /\ f # None
      /\ raw' = [raw EXCEPT ![f] = Opened(~in_atomic_block)]
      /\ UNCHANGED <<_task_connection_owner, flags, stack>>
  BY ProgramFacts DEF ConnectionOpened, Stage, Owner, Calls
<1>2. Top(f)
  BY <1>1 DEF Stage, Place, Opening, Begun, Closing
<1>3. Lone(f) /\ AtRest
  BY <1>1, <1>2, Alone DEF InBlock, Begun, Ending
<1>4. PICK label \in {"configure", "bare", "autocommit"} :
        /\ pc' = [pc EXCEPT ![f] = label] /\ autocommit'
        /\ f \in Bare => label # "autocommit"
        /\ label = "bare" => f \in Bare
  BY <1>3 DEF ConnectionOpened, Goto, ConnectedLabel, AtRest
<1>5. pc'[f] = label /\ \A g \in Flow \ {f} : pc'[g] = pc[g]
  BY <1>4 DEF Calls, FlowTypes
<1>6. raw'[f] = Opened(TRUE) /\ \A c \in Raw \ {f} : raw'[c] = raw[c]
  BY <1>1, <1>3 DEF AtRest, Calls
<1>7. AtRest'
  BY <1>1, <1>3, <1>4, <1>6 DEF AtRest, flags, stack, Alike, Opened
<1>8. Owner'
  <2>1. \A g \in Flow : pc'[g] # "connecting"
    BY <1>3, <1>5 DEF Lone
  <2>2. \A c \in Raw : c # f => raw'[c].rows = {} /\ raw'[c].queue = <<>>
    BY <1>1, <1>6, ProgramFacts DEF Stage, Owner, Calls
  <2> QED
    BY <1>1, <2>1, <2>2, SameProgram DEF Stage, Owner, Top, flags
<1>9. Place(f)' /\ ~InBlock(f)'
  BY <1>1, <1>2, <1>5, SameProgram DEF Place, InBlock, Top, Before, Begun, Ending
<1>10. label \in Label \ {"start"} /\ pc[f] \notin {"done", "start", "children"}
  BY <1>1 DEF Label, Command
<1> QED
  BY <1>2, <1>3, <1>4, <1>7, <1>8, <1>9, <1>10, TopStep

\* What a lone flow outside any block may do beside opening the connection.
LEMMA RestStep ==
  ASSUME OneOwner, Calls, Stage, UNCHANGED scenario, NEW f \in Flow,
         NEW label \in Label \ {"start", "connecting"},
         pc' = [pc EXCEPT ![f] = label], pc[f] \notin {"start", "done", "children"},
         Top(f), ~InBlock(f), label \in Before \union {"row", "done"},
         label = "row" => f \in Bare,
         UNCHANGED <<connection, autocommit, flags, stack, _task_connection_owner>>,
         \A c \in Raw \ {connection} : raw'[c] = raw[c],
         connection # None /\ Alike(raw[connection], Opened(TRUE)) =>
           Alike(raw'[connection], Opened(TRUE))
  PROVE  Stage'
<1>1. Lone(f) /\ AtRest
  BY Alone
<1>2. pc'[f] = label /\ \A g \in Flow \ {f} : pc'[g] = pc[g]
  BY DEF Calls, FlowTypes
<1>3. AtRest'
  BY <1>1 DEF AtRest, flags, stack, Alike, Opened
<1>4. Owner'
  BY <1>2, SameProgram DEF Stage, Owner, Top, flags
<1>5. Place(f)' /\ ~InBlock(f)'
  BY <1>2, SameProgram DEF Place, InBlock, Top, Before, Begun, Ending
<1> QED
  BY <1>1, <1>3, <1>4, <1>5, TopStep

\* The look at in_atomic_block after aget_autocommit() has answered
\* leaves every flow at its place in the family of blocks.
LEMMA SeeAutocommitStage ==
  ASSUME OneOwner, Calls, Stage, UNCHANGED scenario, NEW f \in Flow, SeeAutocommit(f)
  PROVE  Stage'
<1>1. /\ pc[f] = "autocommit" /\ connection # None
      /\ UNCHANGED <<connection, autocommit, _task_connection_owner, stack, raw>>
  BY DEF SeeAutocommit, Here, Calls, Linked, server
<1>2. Top(f) /\ ~InBlock(f)
  BY <1>1 DEF Stage, Place, InBlock, Opening, Begun, Closing, Ending
<1>3. AtRest
  BY <1>1, <1>2, Alone
<1>4. UNCHANGED flags /\ pc' = [pc EXCEPT ![f] = "off"]
  BY <1>1, <1>3 DEF SeeAutocommit, Goto, AtRest, flags
<1> QED
  BY <1>1, <1>2, <1>4, RestStep DEF Label, Command, Before

\* A cancellation during aconnect() leaves every flow at its place in the
\* family of blocks.
LEMMA CancelConnectingStage ==
  ASSUME OneOwner, Calls, Stage, UNCHANGED scenario, NEW f \in Flow, CancelConnecting(f)
  PROVE  Stage'
<1>1. /\ pc[f] = "connecting" /\ pc' = [pc EXCEPT ![f] = "done"]
      /\ UNCHANGED <<connection, autocommit, flags, stack, _task_connection_owner, raw>>
  BY DEF CancelConnecting, End, Suspend, wrapper, server
<1>2. Top(f) /\ ~InBlock(f)
  BY <1>1 DEF Stage, Place, InBlock, Opening, Begun, Closing, Ending
<1> QED
  BY <1>1, <1>2, RestStep DEF Label

\* A statement outside the blocks, refused or about to be sent, leaves every
\* flow at its place in the family of blocks.
LEMMA BareStatementStage ==
  ASSUME OneOwner, Calls, Stage, UNCHANGED scenario, NEW f \in Flow, BareStatement(f)
  PROVE  Stage'
<1>1. /\ pc[f] = "bare" /\ f \in Bare
      /\ UNCHANGED <<connection, autocommit, flags, stack, _task_connection_owner, raw>>
  BY DEF BareStatement, Here, wrapper, server, Calls, Written
<1>2. PICK label \in {"done", "row"} : pc' = [pc EXCEPT ![f] = label]
  BY DEF BareStatement, End, Suspend, Goto
<1>3. CASE Top(f)
  BY <1>1, <1>2, <1>3, RestStep DEF InBlock, Label, Command
<1>4. CASE ~Top(f)
  <2>1. pc'[f] = label
    BY <1>2 DEF Calls, FlowTypes
  <2>2. ~Nested(f) /\ ~Nested(f)' /\ Place(f)'
    BY <1>1, <1>4, <2>1, SameProgram DEF Nested, Place, Top
  <2> QED
    BY <1>1, <1>2, <1>4, <2>2, Beside DEF flags, Label, Command
<1> QED
  BY <1>3, <1>4

\* The stacks of a block that awaits nothing.
LEMMA DeepAlone ==
  ASSUME Calls, UNCHANGED scenario, NEW f \in Flow, Top(f), Lone(f), NEW label,
         pc' = [pc EXCEPT ![f] = label]
  PROVE  /\ Deep(f) <=> Len(atomic_blocks) = 1 /\ savepoint_ids = <<>>
         /\ Deep(f)' <=> Len(atomic_blocks') = 1 /\ savepoint_ids' = <<>>
<1>1. Children(f) \subseteq Flow \ {f} /\ Children(f)' = Children(f)
  BY ProgramFacts, SameProgram DEF Children, Calls, Top, None
<1>2. \A g \in Children(f) : ~Nested(g) /\ ~Nested(g)'
  BY <1>1 DEF Lone, Nested, Begun, Calls, FlowTypes
<1> QED
  BY <1>1, <1>2 DEF Deep

\* An outermost block goes on, or ends.
LEMMA BlockStep ==
  ASSUME OneOwner, Calls, Stage, UNCHANGED scenario, NEW f \in Flow,
         NEW label \in Begun \union Ending, pc' = [pc EXCEPT ![f] = label],
         Top(f), f \notin Bare, Lone(f), pc[f] \notin {"start", "done"},
         pc[f] = "children" => \A g \in Children(f) : pc[g] = "done",
         UNCHANGED <<connection, commit_on_exit, _task_connection_owner>>,
         \A c \in Raw \ {connection} : raw'[c] = raw[c],
         Within(f)'
  PROVE  Stage'
<1>1. pc'[f] = label /\ \A g \in Flow \ {f} : pc'[g] = pc[g]
  BY DEF Calls, FlowTypes
<1>2. label \in Label \ {"start"} /\ label # "connecting"
  BY DEF Begun, Ending, Label, Command
<1>3. Owner'
  BY <1>1, <1>2, SameProgram DEF Stage, Owner, Top
<1>4. Place(f)' /\ InBlock(f)'
  BY <1>1, SameProgram DEF Place, InBlock, Top
<1> QED
  BY <1>2, <1>3, <1>4, TopStep

\* It goes on in its body.
LEMMA BodyStep ==
  ASSUME OneOwner, Calls, Stage, UNCHANGED scenario, NEW f \in Flow,
         NEW label \in Begun \ {"entered"}, pc' = [pc EXCEPT ![f] = label],
         Top(f), f \notin Bare, pc[f] \in Begun \ {"entered"},
         pc[f] = "children" => \A g \in Children(f) : pc[g] = "done",
         UNCHANGED <<connection, autocommit, in_atomic_block, commit_on_exit,
                     _task_connection_owner, stack>>,
         \A c \in Raw \ {connection} : raw'[c] = raw[c],
         raw'[connection].autocommit = raw[connection].autocommit,
         OwnRows(raw[connection], Root(f)) => OwnRows(raw'[connection], Root(f))
  PROVE  Stage'
<1>1. InBlock(f) /\ Lone(f) /\ Within(f) /\ Root(f) = f
  BY Alone DEF InBlock, Begun, Root, Top, None
<1>2. pc'[f] = label
  BY DEF Calls, FlowTypes
<1>3. Deep(f)'
  BY <1>1, DeepAlone DEF Within, stack
<1>4. OwnRows(raw[connection], f)'
  BY <1>1, SameProgram DEF Within, OwnRows, Root
<1>5. Within(f)'
  BY <1>1, <1>2, <1>3, <1>4 DEF Within, Begun, Ending
<1> QED
  BY <1>1, <1>5, BlockStep DEF Begun

\* A hook registered, run at once or refused leaves every flow at its place in
\* the family of blocks.
LEMMA OnCommitStage ==
  ASSUME OneOwner, Calls, Stage, UNCHANGED scenario, NEW f \in Flow, OnCommit(f)
  PROVE  Stage'
<1>1. /\ pc[f] = "hook" /\ f \notin Bare
      /\ UNCHANGED <<connection, autocommit, flags, stack, _task_connection_owner, raw>>
  BY DEF OnCommit, Here, server, Calls, Written
<1>2. PICK label \in {"body", "exit"} : pc' = [pc EXCEPT ![f] = label]
  BY DEF OnCommit, Goto
<1>3. CASE Top(f)
  BY <1>1, <1>2, <1>3, BodyStep DEF flags, Begun
<1>4. CASE ~Top(f)
  <2>1. pc'[f] = label
    BY <1>2 DEF Calls, FlowTypes
  <2>2. Nested(f) /\ Nested(f)' /\ Place(f)'
    BY <1>1, <1>4, <2>1, SameProgram DEF Nested, Place, Top, Begun, Stage
  <2> QED
    BY <1>1, <1>2, <1>4, <2>2, Beside DEF flags, Label
<1> QED
  BY <1>3, <1>4

\* The next thing a block does in its body leaves every flow at its place in
\* the family of blocks.
LEMMA BodyStage ==
  ASSUME OneOwner, Calls, Stage, UNCHANGED scenario, NEW f \in Flow, Body(f)
  PROVE  Stage'
<1>1. /\ pc[f] = "body" /\ f \notin Bare
      /\ UNCHANGED <<connection, autocommit, flags, stack, _task_connection_owner, raw>>
  BY DEF Body, Here, wrapper, server, Calls, Written
<1>2. PICK label \in {"children", "exit", "row"} :
        pc' = [pc EXCEPT ![f] = label] /\ (label = "children" => Children(f) # {})
  BY DEF Body, Goto, Suspend, AwaitsChildren
<1>3. CASE Top(f)
  BY <1>1, <1>2, <1>3, BodyStep DEF flags, Begun
<1>4. CASE ~Top(f)
  <2>1. pc'[f] = label
    BY <1>2 DEF Calls, FlowTypes
  <2>2. label # "children"
    BY <1>2, <1>4, ProgramFacts DEF Children, Top, Calls
  <2>3. Nested(f) /\ Nested(f)' /\ Place(f)'
    BY <1>1, <1>4, <2>1, <2>2, SameProgram DEF Nested, Place, Top, Begun, Stage
  <2> QED
    BY <1>1, <1>2, <1>4, <2>3, Beside DEF flags, Label, Command
<1> QED
  BY <1>3, <1>4

\* The end of what a block awaited leaves every flow at its place in the family
\* of blocks.
LEMMA ChildrenDoneStage ==
  ASSUME OneOwner, Calls, Stage, UNCHANGED scenario, NEW f \in Flow, ChildrenDone(f)
  PROVE  Stage'
<1>1. /\ pc[f] = "children" /\ f \notin Bare /\ \A g \in Children(f) : pc[g] = "done"
      /\ UNCHANGED <<connection, autocommit, flags, stack, _task_connection_owner, raw>>
  BY DEF ChildrenDone, AwaitsChildren, wrapper, server, Calls, Written
<1>2. PICK label \in {"body", "exit"} : pc' = [pc EXCEPT ![f] = label]
  BY DEF ChildrenDone, Goto
<1>3. Top(f)
  BY <1>1 DEF Stage, Place, Opening, Begun, Closing
<1> QED
  BY <1>1, <1>2, <1>3, BodyStep DEF flags, Begun

\* A call changes nothing but who waits.
LEMMA SendStage ==
  ASSUME OneOwner, Calls, Stage, UNCHANGED scenario, NEW f \in Flow, Send(f)
  PROVE  Stage'
<1>1. /\ pc' = pc /\ UNCHANGED <<connection, autocommit, flags, stack, _task_connection_owner>>
      /\ raw' = [raw EXCEPT ![connection].queue = Append(@, f)] /\ connection \in Raw
  BY DEF Send, wrapper, Calls, Linked, WrapperTypeOK, Command
<1>2. /\ Alike(raw'[connection], raw[connection])
      /\ \A c \in Raw \ {connection} : raw'[c] = raw[c]
  BY <1>1 DEF Calls, RawState, Alike
<1>3. InTurn' /\ \A g \in Flow : Place(g)' /\ (InBlock(g)' <=> InBlock(g))
  BY <1>1, SameProgram DEF Stage, InTurn, Place, InBlock, Top
<1>4. Owner'
  BY <1>1, <1>2, SameProgram DEF Stage, Owner, Top, flags
<1>5. AtRest => AtRest'
  BY <1>1, <1>2 DEF AtRest, Alike, Opened, flags, stack
<1>6. ASSUME NEW g \in Flow, Within(g)
      PROVE  Within(g)'
  <2>1. Deep(g)' <=> Deep(g)
    BY <1>1, SameProgram DEF Deep, Nested, Top, Children, stack
  <2>2. OwnRows(raw[connection], g)'
    BY <1>1, <1>2, <1>6, SameProgram DEF Within, OwnRows, Root, Alike
  <2> QED
    BY <1>1, <1>2, <1>6, <2>1, <2>2 DEF Within, Alike, flags, stack
<1> QED
  BY <1>3, <1>4, <1>5, <1>6, SameProgram DEF Stage

\* A block that is awaited takes a step.
LEMMA NestStep ==
  ASSUME OneOwner, Calls, Stage, UNCHANGED scenario, NEW f \in Flow,
         NEW label \in Opening \union (Begun \ {"children"}) \union Closing \union {"done"},
         pc' = [pc EXCEPT ![f] = label], pc[f] \notin {"start", "done"},
         ~Top(f), f \notin Bare,
         UNCHANGED <<connection, autocommit, commit_on_exit, _task_connection_owner>>,
         in_atomic_block',
         label \in Begun => /\ Len(savepoint_ids') = 1
                            /\ Len(atomic_blocks') = IF label = "entered" THEN 1 ELSE 2,
         label \notin Begun => Len(atomic_blocks') = 1 /\ savepoint_ids' = <<>>,
         \A c \in Raw \ {connection} : raw'[c] = raw[c],
         raw'[connection].autocommit = raw[connection].autocommit,
         OwnRows(raw[connection], Root(f)) => OwnRows(raw'[connection], Root(f))
  PROVE  Stage'
<1> DEFINE p == Parent[f]
<1>1. /\ p \in Flow \ {f} /\ pc[p] = "children" /\ Within(p) /\ f \in Children(p) /\ Root(f) = p
  BY Awaited
<1>2. TaskOf[f] = TaskOf[p]
  BY DEF Stage, Place
<1>3. \A g \in Children(p) \ {f} : ~Nested(g)
  BY <1>2, Awaited
<1>4. pc'[f] = label /\ \A g \in Flow \ {f} : pc'[g] = pc[g]
  BY DEF Calls, FlowTypes
<1>5. Children(p)' = Children(p) /\ Children(p) \subseteq Flow /\ p' = p
  BY SameProgram DEF Children
<1>6. (\A g \in Children(p) \ {f} : ~Nested(g)') /\ (Nested(f)' <=> label \in Begun)
  BY <1>3, <1>4, <1>5, SameProgram DEF Nested, Top
<1> HIDE DEF p
<1>7. Deep(p)'
  BY <1>1, <1>4, <1>5, <1>6 DEF Deep
<1>8. OwnRows(raw[connection], p)'
  BY <1>1, <1>5, SameProgram DEF Within, OwnRows, Root
<1>9. pc'[p] = "children" /\ ~autocommit' /\ ~raw'[connection'].autocommit
  BY <1>1, <1>4 DEF Within
<1>10. Within(p)'
  BY <1>5, <1>7, <1>8, <1>9 DEF Within, Begun, Ending
<1>11. Place(f)'
  BY <1>2, <1>4, SameProgram DEF Place, Top, p
<1>12. label \in Label \ {"start", "connecting"}
  BY DEF Opening, Begun, Closing, Label, Command
<1> QED
  BY <1>5, <1>10, <1>11, <1>12, ChildStep DEF p

\* How deep the stacks are, for a block that is awaited.
LEMMA NestDepth ==
  ASSUME Calls, Stage, NEW f \in Flow, ~Top(f), f \notin Bare, pc[f] \notin {"start", "done"}
  PROVE  /\ in_atomic_block /\ ~autocommit /\ ~raw[connection].autocommit
         /\ pc[f] \in Begun => /\ Len(savepoint_ids) = 1
                               /\ Len(atomic_blocks) = IF pc[f] = "entered" THEN 1 ELSE 2
         /\ pc[f] \notin Begun => Len(atomic_blocks) = 1 /\ savepoint_ids = <<>>
<1> DEFINE p == Parent[f]
<1>1. /\ Deep(p) /\ f \in Children(p) /\ in_atomic_block /\ Within(p)
  BY Awaited
<1>2. TaskOf[f] = TaskOf[p]
  BY DEF Stage, Place
<1>3. \A g \in Children(p) \ {f} : ~Nested(g)
  BY <1>2, Awaited
<1>4. Nested(f) <=> pc[f] \in Begun
  BY DEF Nested
<1> HIDE DEF p
<1> QED
  BY <1>1, <1>3, <1>4 DEF Deep, Within

\* What is on a stack.
LEMMA StackFacts ==
  ASSUME Calls
  PROVE  /\ savepoint_ids = <<>> <=> Len(savepoint_ids) = 0
         /\ atomic_blocks = <<>> <=> Len(atomic_blocks) = 0
         /\ \A x : Len(Append(savepoint_ids, x)) = Len(savepoint_ids) + 1
         /\ \A x : Len(Append(atomic_blocks, x)) = Len(atomic_blocks) + 1
         /\ atomic_blocks # <<>> => Len(Front(atomic_blocks)) = Len(atomic_blocks) - 1
         /\ savepoint_ids # <<>> => Len(Front(savepoint_ids)) = Len(savepoint_ids) - 1
         /\ Len(savepoint_ids) \in Nat /\ Len(atomic_blocks) \in Nat
         /\ Len(atomic_blocks) = 1 => Front(atomic_blocks) = <<>>
         /\ Len(savepoint_ids) = 1 => Front(savepoint_ids) = <<>>
<1>1. savepoint_ids \in Seq(Flow \union {None}) /\ atomic_blocks \in Seq(Flow)
  BY DEF Calls, WrapperTypeOK
<1>2. /\ savepoint_ids = <<>> <=> Len(savepoint_ids) = 0
      /\ atomic_blocks = <<>> <=> Len(atomic_blocks) = 0
      /\ Len(savepoint_ids) \in Nat /\ Len(atomic_blocks) \in Nat
  BY <1>1, EmptySeq, LenProperties
<1>3. /\ \A x : Len(Append(savepoint_ids, x)) = Len(savepoint_ids) + 1
      /\ \A x : Len(Append(atomic_blocks, x)) = Len(atomic_blocks) + 1
  BY <1>1
<1>4. atomic_blocks # <<>> =>
        Front(atomic_blocks) \in Seq(Flow) /\ Len(Front(atomic_blocks)) = Len(atomic_blocks) - 1
  BY <1>1, FrontAndLast
<1>5. savepoint_ids # <<>> =>
        /\ Front(savepoint_ids) \in Seq(Flow \union {None})
        /\ Len(Front(savepoint_ids)) = Len(savepoint_ids) - 1
  BY <1>1, FrontAndLast
<1>6. Len(atomic_blocks) = 1 => Front(atomic_blocks) = <<>>
  BY <1>2, <1>4, EmptySeq
<1>7. Len(savepoint_ids) = 1 => Front(savepoint_ids) = <<>>
  BY <1>2, <1>5, EmptySeq
<1> QED
  BY <1>2, <1>3, <1>4, <1>5, <1>6, <1>7

\* An inner block that asks for a savepoint or notes that it has none leaves
\* every flow at its place in the family of blocks.
LEMMA EnterBlockStage ==
  ASSUME OneOwner, Calls, Stage, UNCHANGED scenario, NEW f \in Flow, EnterBlock(f)
  PROVE  Stage'
<1>1. /\ pc[f] = "block" /\ f \notin Bare
      /\ UNCHANGED <<connection, autocommit, flags, atomic_blocks, _task_connection_owner, raw>>
  BY DEF EnterBlock, Here, server, Calls, Written
<1>2. ~Top(f)
  BY <1>1 DEF Stage, Place, Before, Begun, Ending
<1>3. in_atomic_block /\ Len(atomic_blocks) = 1 /\ savepoint_ids = <<>>
  BY <1>1, <1>2, NestDepth DEF Begun
<1>4. PICK label \in {"savepoint", "entered"} :
        /\ pc' = [pc EXCEPT ![f] = label]
        /\ label = "savepoint" => savepoint_ids' = savepoint_ids
        /\ label = "entered" => savepoint_ids' = Append(savepoint_ids, None)
  BY DEF EnterBlock, Goto
<1>5. label = "entered" => Len(savepoint_ids') = 1
  BY <1>3, <1>4, StackFacts
<1> QED
  BY <1>1, <1>2, <1>3, <1>4, <1>5, NestStep DEF flags, Opening, Begun

\* The block put on atomic_blocks leaves every flow at its place in the family
\* of blocks.
LEMMA EnteredStage ==
  ASSUME OneOwner, Calls, Stage, UNCHANGED scenario, NEW f \in Flow, Entered(f)
  PROVE  Stage'
<1>1. /\ pc[f] = "entered" /\ f \notin Bare /\ pc' = [pc EXCEPT ![f] = "hook"]
      /\ UNCHANGED <<connection, autocommit, flags, savepoint_ids, _task_connection_owner, raw>>
  BY DEF Entered, Here, Goto, server, Calls, Written
<1>2. CASE Top(f)
  <2>1. InBlock(f) /\ Lone(f) /\ Within(f) /\ Root(f) = f
    BY <1>1, <1>2, Alone DEF InBlock, Begun, Root, Top, None
  <2>2. in_atomic_block /\ atomic_blocks = <<>> /\ savepoint_ids = <<>>
    BY <1>1, <2>1 DEF Within, Begun
  <2>3. Len(atomic_blocks') = 1
    BY <2>2, StackFacts DEF Entered
  <2>4. Deep(f)'
    BY <1>1, <1>2, <2>1, <2>2, <2>3, DeepAlone
  <2>5. pc'[f] = "hook"
    BY <1>1 DEF Calls, FlowTypes
  <2>6. OwnRows(raw[connection], f)'
    BY <1>1, <2>1, SameProgram DEF Within, OwnRows, Root
  <2>7. Within(f)'
    BY <1>1, <2>1, <2>2, <2>4, <2>5, <2>6 DEF Within, Begun, Ending, flags
  <2> QED
    BY <1>1, <1>2, <2>1, <2>7, BlockStep DEF Begun, flags
<1>3. CASE ~Top(f)
  <2>1. in_atomic_block /\ Len(atomic_blocks) = 1 /\ Len(savepoint_ids) = 1
    BY <1>1, <1>3, NestDepth DEF Begun
  <2>2. Len(atomic_blocks') = 2
    BY <2>1, StackFacts DEF Entered
  <2> QED
    BY <1>1, <1>3, <2>1, <2>2, NestStep DEF flags, Begun
<1> QED
  BY <1>2, <1>3

\* The first part of __aexit__, up to its call, leaves every flow at its place
\* in the family of blocks.
LEMMA ExitStage ==
  ASSUME OneOwner, Calls, Stage, UNCHANGED scenario, NEW f \in Flow, Exit(f)
  PROVE  Stage'
<1>1. /\ pc[f] = "exit" /\ f \notin Bare
      /\ UNCHANGED <<connection, autocommit, commit_on_exit, _task_connection_owner, raw>>
  BY DEF Exit, Here, server, Calls, Written
<1>2. CASE Top(f)
  <2>1. InBlock(f) /\ Lone(f) /\ Within(f) /\ Root(f) = f
    BY <1>1, <1>2, Alone DEF InBlock, Begun, Root, Top, None
  <2>2. in_atomic_block /\ Len(atomic_blocks) = 1 /\ savepoint_ids = <<>>
    <3>1. PICK label : pc' = [pc EXCEPT ![f] = label]
      BY DEF Exit, Goto
    <3> QED
      BY <1>1, <1>2, <2>1, <3>1, DeepAlone DEF Within, Begun
  <2>3. PICK label \in {"commit", "rollback"} : pc' = [pc EXCEPT ![f] = label]
    BY <2>2 DEF Exit, Goto, OutermostCall
  <2>4. pc'[f] = label
    BY <2>3 DEF Calls, FlowTypes
  <2>5. atomic_blocks' = <<>> /\ savepoint_ids' = <<>> /\ ~in_atomic_block' /\ ~needs_rollback'
    BY <2>2, StackFacts DEF Exit
  <2>6. OwnRows(raw[connection], f)'
    BY <1>1, <2>1, SameProgram DEF Within, OwnRows, Root
  <2>7. Within(f)'
    BY <1>1, <2>1, <2>4, <2>5, <2>6 DEF Within, Begun, Ending
  <2> QED
    BY <1>1, <1>2, <2>1, <2>3, <2>7, BlockStep DEF Ending
<1>3. CASE ~Top(f)
  <2>1. in_atomic_block /\ Len(atomic_blocks) = 2 /\ Len(savepoint_ids) = 1 /\ ~autocommit
    BY <1>1, <1>3, NestDepth DEF Begun
  <2>2. savepoint_ids # <<>> /\ atomic_blocks # <<>>
    BY <2>1, StackFacts
  <2>3. PICK label \in {"finally", "release", "rollback_to"} : pc' = [pc EXCEPT ![f] = label]
    BY <2>1, <2>2 DEF Exit, Goto, SavepointCall
  <2>4. savepoint_ids' = <<>> /\ Len(atomic_blocks') = 1 /\ in_atomic_block'
    <3>1. /\ savepoint_ids' = Front(savepoint_ids) /\ atomic_blocks' = Front(atomic_blocks)
          /\ in_atomic_block'
      BY <2>1, <2>2 DEF Exit
    <3> QED
      BY <2>1, <2>2, <3>1, StackFacts
  <2> QED
    BY <1>1, <1>3, <2>3, <2>4, NestStep DEF Closing, Begun
<1> QED
  BY <1>2, <1>3

\* The finally clause of __aexit__ leaves every flow at its place in the family
\* of blocks.
LEMMA FinallyStage ==
  ASSUME OneOwner, Calls, Stage, UNCHANGED scenario, NEW f \in Flow, Finally(f)
  PROVE  Stage'
<1>1. /\ pc[f] = "finally" /\ f \notin Bare
      /\ UNCHANGED <<connection, autocommit, commit_on_exit, needs_rollback, stack,
                     _task_connection_owner, raw>>
  BY DEF Finally, Here, server, Calls, Written
<1>2. CASE Top(f)
  <2>1. InBlock(f) /\ Lone(f) /\ Within(f) /\ Root(f) = f
    BY <1>1, <1>2, Alone DEF InBlock, Begun, Ending, Root, Top, None
  <2>2. ~in_atomic_block /\ ~in_atomic_block' /\ pc' = [pc EXCEPT ![f] = "on"]
    BY <1>1, <2>1 DEF Finally, Goto, Within, Begun
  <2>3. pc'[f] = "on"
    BY <2>2 DEF Calls, FlowTypes
  <2>4. OwnRows(raw[connection], f)'
    BY <1>1, <2>1, SameProgram DEF Within, OwnRows, Root
  <2>5. Within(f)'
    BY <1>1, <2>1, <2>2, <2>3, <2>4 DEF Within, Begun, Ending, stack
  <2> QED
    BY <1>1, <1>2, <2>1, <2>2, <2>5, BlockStep DEF Ending
<1>3. CASE ~Top(f)
  <2>1. in_atomic_block /\ Len(atomic_blocks) = 1 /\ savepoint_ids = <<>>
    BY <1>1, <1>3, NestDepth DEF Begun
  <2>2. in_atomic_block' /\ pc' = [pc EXCEPT ![f] = "done"]
    BY <2>1 DEF Finally, End, Suspend, Stage, Owner
  <2> QED
    BY <1>1, <1>3, <2>1, <2>2, NestStep DEF stack, Begun
<1> QED
  BY <1>2, <1>3

\* What an answer leaves, for a flow alone outside any block.
LEMMA RestAnswer ==
  ASSUME Calls, Stage, NEW f \in Flow, at[f] # None,
         NEW s \in Outcomes(raw[connection], pc[f], f, sid[f]), Became(f, s),
         pc[f] \in {"configure", "row"}
  PROVE  Alike(raw[connection], Opened(TRUE)) => Alike(raw'[connection], Opened(TRUE))
<1>1. connection \in Raw /\ raw[connection] \in RawState
  BY Called DEF Calls
<1>2. Alike(raw'[connection], s)
  BY BecameFacts
<1>3. Alike(raw[connection], Opened(TRUE)) => Alike(s, Opened(TRUE))
  BY <1>1 DEF Outcomes, After, AfterError, Alike, Opened, Commits
<1> QED
  BY <1>2, <1>3 DEF Alike

\* The configuration of a new connection leaves every flow at its place in the
\* family of blocks.
LEMMA ConfiguredStage ==
  ASSUME OneOwner, Calls, Stage, UNCHANGED scenario, NEW f \in Flow, Configured(f)
  PROVE  Stage'
<1>1. /\ Answer(f, "configure", TRUE)
      /\ UNCHANGED <<connection, autocommit, flags, stack, _task_connection_owner>>
  BY DEF Configured
<1> DEFINE s == After(raw[connection], "configure", f, sid[f])
<1>3. /\ pc[f] = "configure" /\ at[f] # None
      /\ s \in Outcomes(raw[connection], pc[f], f, sid[f]) /\ Became(f, s)
  BY <1>1, AnswerBecame
<1> HIDE DEF s
<1>4. Top(f) /\ ~InBlock(f)
  BY <1>3 DEF Stage, Place, InBlock, Opening, Begun, Closing, Ending
<1>2. PICK label \in {"bare", "autocommit"} : pc' = [pc EXCEPT ![f] = label]
  <2>1. connection \in Raw
    BY <1>1, AnswerBecame
  <2>2. AtRest
    BY <1>3, <1>4, Alone
  <2>3. autocommit
    BY <2>1, <2>2, ProgramFacts DEF AtRest, Calls
  <2> QED
    BY <2>3 DEF Configured, Goto, ConnectedLabel
<1>5. Alike(raw[connection], Opened(TRUE)) => Alike(raw'[connection], Opened(TRUE))
  BY <1>3, RestAnswer
<1>6. \A c \in Raw \ {connection} : raw'[c] = raw[c]
  BY <1>3, BecameFacts
<1>7. label \in Label \ {"start", "connecting"} /\ label \in Before /\ label # "row"
  BY DEF Label, Before
<1>8. pc[f] \notin {"start", "done", "children"}
  BY <1>3
<1> QED
  BY <1>1, <1>2, <1>4, <1>5, <1>6, <1>7, <1>8, RestStep

\* It is never committed apart: nobody has begun a transaction meanwhile.
LEMMA SettledStage ==
  ASSUME OneOwner, Calls, Stage, UNCHANGED scenario, NEW f \in Flow, Settled(f)
  PROVE  Stage'
<1>1. pc[f] = "settle"
  BY DEF Settled, Answer, Pending
<1> QED
  BY <1>1 DEF Stage, Place, Before, Opening, Begun, Closing, Ending

\* The answer to aset_autocommit(False) leaves every flow at its place in the
\* family of blocks.
LEMMA BeginTransactionStage ==
  ASSUME OneOwner, Calls, Stage, UNCHANGED scenario, NEW f \in Flow, BeginTransaction(f)
  PROVE  Stage'
<1> DEFINE r == raw[connection]
<1>1. PICK ok \in BOOLEAN :
        /\ Answer(f, "off", ok)
        /\ IF ok THEN autocommit' = FALSE /\ in_atomic_block' = TRUE /\ Goto(f, "entered")
                 ELSE End(f, "error") /\ UNCHANGED <<autocommit, in_atomic_block>>
  BY DEF BeginTransaction
<1>2. /\ pc[f] = "off" /\ at[f] # None /\ connection \in Raw /\ r \in RawState
      /\ ok = ~Refuses(r, "off", sid[f])
      /\ IF ok THEN Became(f, After(r, "off", f, sid[f])) ELSE Became(f, AfterError(r, "off"))
  BY <1>1, AnswerBecame DEF Calls
<1>3. Top(f) /\ f \notin Bare /\ ~InBlock(f) /\ connection # None
  BY <1>2, ProgramFacts DEF Stage, Place, InBlock, Opening, Begun, Closing, Ending, Calls, Written
<1>4. Lone(f) /\ AtRest
  BY <1>2, <1>3, Alone
<1>5. ok /\ Became(f, After(r, "off", f, sid[f]))
  BY <1>2, <1>3, <1>4 DEF AtRest, Alike, Opened, Refuses
<1>6. pc' = [pc EXCEPT ![f] = "entered"] /\ ~autocommit' /\ in_atomic_block'
  BY <1>1, <1>5 DEF Goto
<1>7. After(r, "off", f, sid[f]) \in Outcomes(r, pc[f], f, sid[f])
  BY <1>1, <1>2, <1>5, AnswerBecame
<1>8. /\ Alike(raw'[connection], After(r, "off", f, sid[f]))
      /\ \A c \in Raw \ {connection} : raw'[c] = raw[c]
  BY <1>2, <1>5, <1>7, BecameFacts
<1>9. After(r, "off", f, sid[f]) = [r EXCEPT !.autocommit = FALSE]
  BY DEF After, Commits
<1>10. ~raw'[connection].autocommit /\ raw'[connection].rows = {} /\ raw'[connection].saved = <<>>
  BY <1>2, <1>3, <1>4, <1>8, <1>9 DEF AtRest, Alike, Opened, RawState
<1>11. pc'[f] = "entered" /\ \A g \in Flow \ {f} : pc'[g] = pc[g]
  BY <1>6 DEF Calls, FlowTypes
<1>12. UNCHANGED <<connection, commit_on_exit, _task_connection_owner, stack>>
  BY DEF BeginTransaction
<1>13. Within(f)'
  <2>1. OwnRows(raw[connection], f)'
    BY <1>10, <1>12 DEF OwnRows
  <2> QED
    BY <1>4, <1>6, <1>10, <1>11, <1>12, <2>1 DEF Within, AtRest, Begun, Ending, stack
<1>14. pc[f] \notin {"start", "done", "children"}
  BY <1>2
<1>15. "entered" \in Begun
  BY DEF Begun
<1> QED
  BY <1>3, <1>4, <1>6, <1>8, <1>12, <1>13, <1>14, <1>15, BlockStep

\* What an answer leaves of the connection, whoever asked.
LEMMA AnswerLeaves ==
  ASSUME Calls, Stage, NEW f \in Flow, NEW cmd \in Command, NEW ok \in BOOLEAN, Answer(f, cmd, ok)
  PROVE  /\ pc[f] = cmd /\ at[f] # None /\ connection \in Raw
         /\ \A c \in Raw \ {connection} : raw'[c] = raw[c]
         /\ cmd \notin {"off", "on"} => raw'[connection].autocommit = raw[connection].autocommit
         /\ OwnRows(raw[connection], Root(f)) => OwnRows(raw'[connection], Root(f))
         /\ cmd \in {"configure", "row"} /\ Alike(raw[connection], Opened(TRUE)) =>
              Alike(raw'[connection], Opened(TRUE))
         /\ cmd \in {"commit", "rollback"} =>
              raw'[connection].tx = "idle" /\ raw'[connection].rows = {} /\ raw'[connection].saved = <<>>
<1> DEFINE s == IF ok THEN After(raw[connection], cmd, f, sid[f]) ELSE AfterError(raw[connection], cmd)
<1>1. /\ pc[f] = cmd /\ at[f] # None /\ connection \in Raw /\ Became(f, s)
      /\ s \in Outcomes(raw[connection], pc[f], f, sid[f])
  BY AnswerBecame
<1>2. cmd \in {"commit", "rollback"} => s.tx = "idle" /\ s.rows = {} /\ s.saved = <<>>
  <2>1. raw[connection] \in RawState
    BY <1>1 DEF Calls
  <2> QED
    BY <2>1 DEF After, AfterError, Ended, RawState, Commits
<1> HIDE DEF s
<1>3. /\ Alike(raw'[connection], s)
      /\ \A c \in Raw \ {connection} : raw'[c] = raw[c]
      /\ cmd \notin {"off", "on"} => s.autocommit = raw[connection].autocommit
      /\ OwnRows(raw[connection], Root(f)) => OwnRows(raw'[connection], Root(f))
  BY <1>1, BecameFacts
<1>4. cmd \in {"configure", "row"} /\ Alike(raw[connection], Opened(TRUE)) =>
        Alike(raw'[connection], Opened(TRUE))
  BY <1>1, RestAnswer
<1> QED
  BY <1>1, <1>2, <1>3, <1>4 DEF Alike

\* The answer to SAVEPOINT leaves every flow at its place in the family of
\* blocks.
LEMMA SavepointCreatedStage ==
  ASSUME OneOwner, Calls, Stage, UNCHANGED scenario, NEW f \in Flow, SavepointCreated(f)
  PROVE  Stage'
<1>1. PICK ok \in BOOLEAN :
        /\ Answer(f, "savepoint", ok)
        /\ IF ok THEN savepoint_ids' = Append(savepoint_ids, f) /\ Goto(f, "entered")
                 ELSE End(f, "error") /\ UNCHANGED savepoint_ids
  BY DEF SavepointCreated
<1>2. /\ pc[f] = "savepoint" /\ \A c \in Raw \ {connection} : raw'[c] = raw[c]
      /\ raw'[connection].autocommit = raw[connection].autocommit
      /\ OwnRows(raw[connection], Root(f)) => OwnRows(raw'[connection], Root(f))
  BY <1>1, AnswerLeaves DEF Command
<1>3. ~Top(f) /\ f \notin Bare
  BY <1>2 DEF Stage, Place, Before, Begun, Ending, Calls, Written
<1>4. in_atomic_block /\ Len(atomic_blocks) = 1 /\ savepoint_ids = <<>>
  BY <1>2, <1>3, NestDepth DEF Begun
<1>5. PICK label \in {"entered", "done"} :
        /\ pc' = [pc EXCEPT ![f] = label]
        /\ label = "entered" => savepoint_ids' = Append(savepoint_ids, f)
        /\ label = "done" => savepoint_ids' = savepoint_ids
  BY <1>1 DEF Goto, End, Suspend
<1>6. label = "entered" => Len(savepoint_ids') = 1
  BY <1>4, <1>5, StackFacts
<1>7. /\ UNCHANGED <<connection, autocommit, commit_on_exit, _task_connection_owner>>
      /\ in_atomic_block' /\ atomic_blocks' = atomic_blocks
  BY <1>4 DEF SavepointCreated, flags
<1> QED
  BY <1>2, <1>3, <1>4, <1>5, <1>6, <1>7, NestStep DEF Begun

\* The answer to a statement leaves every flow at its place in the family of
\* blocks.
LEMMA RowWrittenStage ==
  ASSUME OneOwner, Calls, Stage, UNCHANGED scenario, NEW f \in Flow, RowWritten(f)
  PROVE  Stage'
<1>1. PICK ok \in BOOLEAN :
        /\ Answer(f, "row", ok)
        /\ IF f \in Bare
             THEN End(f, IF ok THEN "ok" ELSE "raised") /\ UNCHANGED leaving
             ELSE IF ok THEN UNCHANGED leaving /\ Goto(f, "body")
                        ELSE LeaveWith(f, "raised") /\ Goto(f, "exit")
  BY DEF RowWritten
<1>2. /\ pc[f] = "row" /\ \A c \in Raw \ {connection} : raw'[c] = raw[c]
      /\ raw'[connection].autocommit = raw[connection].autocommit
      /\ OwnRows(raw[connection], Root(f)) => OwnRows(raw'[connection], Root(f))
      /\ Alike(raw[connection], Opened(TRUE)) => Alike(raw'[connection], Opened(TRUE))
  BY <1>1, AnswerLeaves DEF Command
<1>3. PICK label \in {"body", "exit", "done"} :
        pc' = [pc EXCEPT ![f] = label] /\ (f \in Bare <=> label = "done")
  BY <1>1 DEF Goto, End, Suspend
<1>4. UNCHANGED <<connection, autocommit, flags, stack, _task_connection_owner>>
  BY DEF RowWritten, wrapper
<1>5. label \in Label \ {"start", "connecting"} /\ pc[f] \notin {"start", "done", "children"}
  BY <1>2 DEF Label
<1>6. CASE Top(f) /\ f \in Bare
  <2>1. ~InBlock(f) /\ label = "done"
    BY <1>3, <1>6 DEF InBlock
  <2> QED
    BY <1>2, <1>3, <1>4, <1>5, <1>6, <2>1, RestStep
<1>7. CASE Top(f) /\ f \notin Bare
  BY <1>2, <1>3, <1>4, <1>7, BodyStep DEF Begun, flags
<1>8. CASE ~Top(f)
  <2>1. pc'[f] = label
    BY <1>3 DEF Calls, FlowTypes
  <2>2. (Nested(f)' <=> Nested(f)) /\ Place(f)'
    BY <1>2, <1>3, <1>8, <2>1, SameProgram DEF Nested, Place, Top, Begun, Stage
  <2> QED
    BY <1>2, <1>3, <1>4, <1>5, <1>8, <2>2, Beside DEF flags
<1> QED
  BY <1>6, <1>7, <1>8

\* The steps of __aexit__ of a block that is awaited.
LEMMA NestedExit ==
  ASSUME OneOwner, Calls, Stage, UNCHANGED scenario, NEW f \in Flow, NEW ok \in BOOLEAN,
         NEW cmd \in {"release", "rollback_to", "tidy"}, Answer(f, cmd, ok),
         NEW label \in {"finally", "rollback_to", "tidy"}, pc' = [pc EXCEPT ![f] = label],
         UNCHANGED <<connection, autocommit, in_atomic_block, commit_on_exit, stack,
                     _task_connection_owner>>
  PROVE  Stage'
<1>1. /\ pc[f] = cmd /\ \A c \in Raw \ {connection} : raw'[c] = raw[c]
      /\ raw'[connection].autocommit = raw[connection].autocommit
      /\ OwnRows(raw[connection], Root(f)) => OwnRows(raw'[connection], Root(f))
  BY AnswerLeaves DEF Command
<1>2. ~Top(f) /\ f \notin Bare
  BY <1>1 DEF Stage, Place, Before, Begun, Ending, Calls, Written
<1>3. in_atomic_block /\ Len(atomic_blocks) = 1 /\ savepoint_ids = <<>>
  BY <1>1, <1>2, NestDepth DEF Begun
<1>4. label \in Closing /\ label \notin Begun /\ pc[f] \notin {"start", "done"}
  BY <1>1 DEF Closing, Begun
<1> QED
  BY <1>1, <1>2, <1>3, <1>4, NestStep DEF stack

\* The answer to RELEASE SAVEPOINT leaves every flow at its place in the family
\* of blocks.
LEMMA ReleasedStage ==
  ASSUME OneOwner, Calls, Stage, UNCHANGED scenario, NEW f \in Flow, Released(f)
  PROVE  Stage'
<1>1. PICK ok \in BOOLEAN : Answer(f, "release", ok)
  BY DEF Released
<1>2. PICK label \in {"finally", "rollback_to"} : pc' = [pc EXCEPT ![f] = label]
  BY DEF Released, Goto, SavepointCall
<1> QED
  BY <1>1, <1>2, NestedExit DEF Released, wrapper, flags

\* The answer to ROLLBACK TO SAVEPOINT leaves every flow at its place in the
\* family of blocks.
LEMMA RolledBackToStage ==
  ASSUME OneOwner, Calls, Stage, UNCHANGED scenario, NEW f \in Flow, RolledBackTo(f)
  PROVE  Stage'
<1>1. PICK ok \in BOOLEAN : Answer(f, "rollback_to", ok)
  BY DEF RolledBackTo
<1>2. PICK label \in {"finally", "tidy"} : pc' = [pc EXCEPT ![f] = label]
  BY DEF RolledBackTo, Goto, SavepointCall
<1> QED
  BY <1>1, <1>2, NestedExit DEF RolledBackTo

\* The answer to the RELEASE that follows a ROLLBACK TO leaves every flow at
\* its place in the family of blocks.
LEMMA TidiedStage ==
  ASSUME OneOwner, Calls, Stage, UNCHANGED scenario, NEW f \in Flow, Tidied(f)
  PROVE  Stage'
<1>1. PICK ok \in BOOLEAN : Answer(f, "tidy", ok)
  BY DEF Tidied
<1>2. pc' = [pc EXCEPT ![f] = "finally"]
  BY DEF Tidied, Goto
<1> QED
  BY <1>1, <1>2, NestedExit DEF Tidied

\* The transaction of an outermost block is over.
LEMMA TransactionOver ==
  ASSUME OneOwner, Calls, Stage, UNCHANGED scenario, NEW f \in Flow,
         pc[f] \in {"commit", "rollback"}, pc' = [pc EXCEPT ![f] = "finally"],
         UNCHANGED <<connection, autocommit, in_atomic_block, commit_on_exit, stack,
                     _task_connection_owner>>, needs_rollback' => needs_rollback,
         \A c \in Raw \ {connection} : raw'[c] = raw[c],
         raw'[connection].autocommit = raw[connection].autocommit,
         raw'[connection].tx = "idle", raw'[connection].rows = {}, raw'[connection].saved = <<>>
  PROVE  Stage'
<1>1. Top(f) /\ f \notin Bare /\ pc[f] \notin {"start", "done", "children"} /\ InBlock(f)
  BY DEF Stage, Place, InBlock, Opening, Begun, Closing, Ending, Calls, Written
<1>2. Lone(f) /\ Within(f)
  BY <1>1, Alone
<1>3. pc'[f] = "finally"
  BY DEF Calls, FlowTypes
<1>4. OwnRows(raw[connection], f)'
  BY DEF OwnRows
<1>5. ~in_atomic_block' /\ ~needs_rollback' /\ ~autocommit'
  BY <1>2 DEF Within, Begun, Ending
<1>6. atomic_blocks' = <<>> /\ savepoint_ids' = <<>>
  BY <1>2 DEF Within, Ending, stack
<1>7. Within(f)'
  BY <1>2, <1>3, <1>4, <1>5, <1>6 DEF Within, Begun, Ending
<1>8. "finally" \in Ending
  BY DEF Ending
<1> QED
  BY <1>1, <1>2, <1>7, <1>8, BlockStep

\* The answer to COMMIT leaves every flow at its place in the family of blocks.
LEMMA CommittedStage ==
  ASSUME OneOwner, Calls, Stage, UNCHANGED scenario, NEW f \in Flow, Committed(f)
  PROVE  Stage'
<1>1. Answer(f, "commit", TRUE) /\ pc' = [pc EXCEPT ![f] = "finally"]
  BY DEF Committed, Goto
<1>2. UNCHANGED <<connection, autocommit, flags, stack, _task_connection_owner>>
  BY DEF Committed
<1>3. /\ pc[f] = "commit" /\ \A c \in Raw \ {connection} : raw'[c] = raw[c]
      /\ raw'[connection].autocommit = raw[connection].autocommit
      /\ raw'[connection].tx = "idle" /\ raw'[connection].rows = {} /\ raw'[connection].saved = <<>>
  BY <1>1, AnswerLeaves DEF Command
<1> QED
  BY <1>1, <1>2, <1>3, TransactionOver DEF flags

\* The answer to ROLLBACK leaves every flow at its place in the family of
\* blocks.
LEMMA RolledBackStage ==
  ASSUME OneOwner, Calls, Stage, UNCHANGED scenario, NEW f \in Flow, RolledBack(f)
  PROVE  Stage'
<1>1. Answer(f, "rollback", TRUE) /\ pc' = [pc EXCEPT ![f] = "finally"]
  BY DEF RolledBack, Goto
<1>2. /\ UNCHANGED <<connection, autocommit, in_atomic_block, commit_on_exit, stack,
                     _task_connection_owner>>
      /\ ~needs_rollback'
  BY DEF RolledBack
<1>3. /\ pc[f] = "rollback" /\ \A c \in Raw \ {connection} : raw'[c] = raw[c]
      /\ raw'[connection].autocommit = raw[connection].autocommit
      /\ raw'[connection].tx = "idle" /\ raw'[connection].rows = {} /\ raw'[connection].saved = <<>>
  BY <1>1, AnswerLeaves DEF Command
<1> QED
  BY <1>1, <1>2, <1>3, TransactionOver

\* The answer to aset_autocommit(True) leaves every flow at its place in the
\* family of blocks.
LEMMA AutocommitRestoredStage ==
  ASSUME OneOwner, Calls, Stage, UNCHANGED scenario, NEW f \in Flow, AutocommitRestored(f)
  PROVE  Stage'
<1> DEFINE r == raw[connection]
<1>1. PICK ok \in BOOLEAN : Answer(f, "on", ok) /\ autocommit' = (autocommit \/ ok)
  BY DEF AutocommitRestored
<1>2. /\ pc[f] = "on" /\ at[f] # None /\ connection \in Raw /\ r \in RawState
      /\ ok = ~Refuses(r, "on", sid[f])
      /\ IF ok THEN Became(f, After(r, "on", f, sid[f])) ELSE Became(f, AfterError(r, "on"))
  BY <1>1, AnswerBecame DEF Calls
<1>3. Top(f) /\ f \notin Bare /\ InBlock(f) /\ connection # None
  BY <1>2, ProgramFacts
     DEF Stage, Place, InBlock, Before, Opening, Begun, Closing, Ending, Calls, Written
<1>4. Lone(f) /\ Within(f)
  BY <1>2, <1>3, Alone
<1>5. r.tx = "idle" /\ r.rows = {} /\ r.saved = <<>> /\ ~in_atomic_block /\ ~needs_rollback
      /\ savepoint_ids = <<>> /\ atomic_blocks = <<>>
  BY <1>2, <1>4 DEF Within, Begun, Ending
<1>6. ok /\ Became(f, After(r, "on", f, sid[f]))
  BY <1>2, <1>5 DEF Refuses
<1>7. After(r, "on", f, sid[f]) \in Outcomes(r, pc[f], f, sid[f])
  BY <1>1, <1>2, <1>6, AnswerBecame
<1>8. /\ Alike(raw'[connection], After(r, "on", f, sid[f]))
      /\ \A c \in Raw \ {connection} : raw'[c] = raw[c]
  BY <1>2, <1>6, <1>7, BecameFacts
<1>9. After(r, "on", f, sid[f]) = [r EXCEPT !.autocommit = TRUE]
  BY DEF After, Commits
<1>10. Alike(raw'[connection], Opened(TRUE))
  BY <1>2, <1>5, <1>8, <1>9 DEF Alike, Opened, RawState
<1>11. pc' = [pc EXCEPT ![f] = "done"]
  BY DEF AutocommitRestored, End, Suspend
<1>12. pc'[f] = "done" /\ \A g \in Flow \ {f} : pc'[g] = pc[g]
  BY <1>11 DEF Calls, FlowTypes
<1>13. UNCHANGED <<connection, flags, stack, _task_connection_owner>> /\ autocommit'
  BY <1>1, <1>6 DEF AutocommitRestored
<1>14. AtRest'
  BY <1>3, <1>5, <1>10, <1>13 DEF AtRest, flags, stack, Alike, Opened
<1>15. Owner'
  BY <1>8, <1>12, <1>13, SameProgram DEF Stage, Owner, Top, flags
<1>16. Place(f)' /\ ~InBlock(f)'
  BY <1>3, <1>12, SameProgram DEF Place, InBlock, Top, Begun, Ending
<1>17. "done" \in Label \ {"start"} /\ pc[f] \notin {"start", "done", "children"}
  BY <1>2 DEF Label
<1> QED
  BY <1>3, <1>4, <1>11, <1>14, <1>15, <1>16, <1>17, TopStep

\* A call that a nested block or a statement gives up.
LEMMA CancelledChild ==
  ASSUME OneOwner, Calls, Stage, UNCHANGED scenario, NEW f \in Flow, at[f] # None, ~Top(f),
         CancelledCall(f),
         \A c \in Raw \ {connection} : raw'[c] = raw[c],
         raw'[connection].autocommit = raw[connection].autocommit,
         OwnRows(raw[connection], Root(f)) => OwnRows(raw'[connection], Root(f))
  PROVE  Stage'
<1>1. pc[f] \in Command /\ pc[f] \notin {"start", "done"}
  BY DEF Calls, Linked, Command
<1>2. PICK label \in {"done", "exit", "finally"} :
        /\ pc' = [pc EXCEPT ![f] = label]
        /\ f \in Bare => label = "done"
        /\ f \notin Bare => (label = "exit" <=> pc[f] = "row")
  <2>1. CASE pc[f] \in {"configure", "settle", "off", "savepoint", "on"} \/ f \in Bare
    BY <2>1 DEF CancelledCall, End, Suspend
  <2>2. CASE ~(pc[f] \in {"configure", "settle", "off", "savepoint", "on"} \/ f \in Bare) /\ pc[f] = "row"
    BY <2>2 DEF CancelledCall, Goto
  <2>3. CASE ~(pc[f] \in {"configure", "settle", "off", "savepoint", "on"} \/ f \in Bare) /\ pc[f] # "row"
    BY <2>3 DEF CancelledCall, Goto
  <2> QED
    BY <2>1, <2>2, <2>3
<1>3. UNCHANGED <<connection, autocommit, flags, stack, _task_connection_owner>>
  BY DEF CancelledCall, wrapper
<1>4. pc'[f] = label /\ label \in Label \ {"start", "connecting"}
  BY <1>2 DEF Calls, FlowTypes, Label
<1>5. (Nested(f)' <=> Nested(f)) /\ Place(f)' /\ (Nested(f) => pc[f] = "row" /\ label = "exit")
  BY <1>1, <1>2, <1>4, SameProgram
     DEF Nested, Place, Top, Opening, Begun, Closing, Stage, Command
<1> QED
  BY <1>1, <1>2, <1>3, <1>4, <1>5, Beside DEF flags

\* A cancellation of a call that is still queued leaves every flow at its place
\* in the family of blocks.
LEMMA CancelQueuedStage ==
  ASSUME OneOwner, Calls, Stage, UNCHANGED scenario, NEW f \in Flow, CancelQueued(f)
  PROVE  Stage'
<1> DEFINE queue == raw[at[f]].queue
<1>1. PICK i \in DOMAIN queue :
        queue[i] = f /\ raw' = [raw EXCEPT ![at[f]].queue = RemoveAt(queue, i)]
  BY DEF CancelQueued
<1>2. at[f] # None /\ Head(queue) # f /\ CancelledCall(f)
  BY DEF CancelQueued
<1>3. at[f] = connection /\ connection \in Raw /\ ~Lone(f) /\ pc[f] \in Command
  BY <1>2, Called
<1>4. ~Top(f)
  BY <1>3, Alone DEF Command
<1>5. /\ Alike(raw'[connection], raw[connection])
      /\ \A c \in Raw \ {connection} : raw'[c] = raw[c]
  BY <1>1, <1>3 DEF Calls, RawState, Alike
<1>6. /\ raw'[connection].autocommit = raw[connection].autocommit
      /\ OwnRows(raw[connection], Root(f)) => OwnRows(raw'[connection], Root(f))
  BY <1>5 DEF Alike, OwnRows
<1> QED
  BY <1>2, <1>4, <1>5, <1>6, CancelledChild

\* A cancellation of a call the server is carrying out leaves every flow at its
\* place in the family of blocks.
LEMMA CancelRunningStage ==
  ASSUME OneOwner, Calls, Stage, UNCHANGED scenario, NEW f \in Flow, CancelRunning(f)
  PROVE  Stage'
<1> DEFINE r == raw[connection]
<1>1. at[f] # None /\ pc[f] \notin {"off", "on"} /\ CancelledCall(f)
  BY DEF CancelRunning
<1>2. at[f] = connection /\ connection \in Raw /\ r \in RawState /\ pc[f] \in Command
  BY <1>1, Called DEF Calls
<1>3. PICK s \in Outcomes(r, pc[f], f, sid[f]) : Became(f, s)
  BY <1>1, <1>2 DEF CancelRunning, CancelledCall, Outcomes, Became
<1>4. /\ Alike(raw'[connection], s)
      /\ \A c \in Raw \ {connection} : raw'[c] = raw[c]
      /\ raw'[connection].autocommit = r.autocommit
      /\ OwnRows(r, Root(f)) => OwnRows(raw'[connection], Root(f))
  BY <1>1, <1>3, BecameFacts DEF Alike
<1>5. UNCHANGED <<connection, autocommit, flags, stack, _task_connection_owner>>
  BY <1>1 DEF CancelledCall, wrapper
<1>6. CASE ~Top(f)
  BY <1>1, <1>4, <1>6, CancelledChild
<1>7. CASE Top(f) /\ (pc[f] = "configure" \/ (pc[f] = "row" /\ f \in Bare))
  <2>1. pc' = [pc EXCEPT ![f] = "done"]
    BY <1>1, <1>7 DEF CancelledCall, End, Suspend
  <2>2. ~InBlock(f)
    BY <1>7 DEF InBlock, Begun, Ending
  <2>3. Alike(r, Opened(TRUE)) => Alike(raw'[connection], Opened(TRUE))
    BY <1>1, <1>3, <1>7, RestAnswer
  <2> QED
    BY <1>4, <1>5, <1>7, <2>1, <2>2, <2>3, RestStep DEF Label
<1>8. CASE Top(f) /\ pc[f] = "row" /\ f \notin Bare
  <2>1. pc' = [pc EXCEPT ![f] = "exit"]
    BY <1>1, <1>8 DEF CancelledCall, Goto
  <2> QED
    BY <1>4, <1>5, <1>8, <2>1, BodyStep DEF Begun, flags
<1>9. CASE Top(f) /\ pc[f] \in {"commit", "rollback"}
  <2>1. f \notin Bare
    BY <1>9 DEF Calls, Written
  <2>2. pc' = [pc EXCEPT ![f] = "finally"]
    BY <1>1, <1>9, <2>1 DEF CancelledCall, Goto
  <2>3. s.tx = "idle" /\ s.rows = {} /\ s.saved = <<>>
    BY <1>2, <1>3, <1>9 DEF Outcomes, After, AfterError, Ended, RawState, Commits
  <2> QED
    BY <1>4, <1>5, <1>9, <2>2, <2>3, TransactionOver DEF Alike, flags
<1>10. Top(f) => pc[f] \in {"configure", "row", "commit", "rollback"}
  BY <1>1, <1>2 DEF Stage, Place, Before, Begun, Ending, Command
<1> QED
  BY <1>6, <1>7, <1>8, <1>9, <1>10

\* Whatever a flow does, and whoever is cancelled.
LEMMA StepStage ==
  ASSUME OneOwner, Calls, Stage, [Next]_vars
  PROVE  Stage'
<1>1. CASE UNCHANGED vars
  <2>1. /\ UNCHANGED <<scenario, pc, wrapper, raw>>
    BY <1>1 DEF vars, server
  <2>2. UNCHANGED <<connection, autocommit, _task_connection_owner, in_atomic_block,
                    commit_on_exit, needs_rollback, savepoint_ids, atomic_blocks>>
    BY <2>1 DEF wrapper, flags, stack
  <2>3. InTurn' /\ Owner' /\ \A g \in Flow : Place(g)' /\ (InBlock(g)' <=> InBlock(g))
    BY <2>1, <2>2, SameProgram DEF Stage, InTurn, Owner, Place, InBlock, Top
  <2>4. AtRest => AtRest'
    BY <2>1, <2>2 DEF AtRest, Alike, Opened
  <2>5. ASSUME NEW g \in Flow, Within(g)
        PROVE  Within(g)'
    <3>1. Deep(g)' <=> Deep(g)
      BY <2>1, <2>2, SameProgram DEF Deep, Nested, Top, Children
    <3>2. OwnRows(raw[connection], g)'
      BY <2>1, <2>2, <2>5, SameProgram DEF Within, OwnRows, Root
    <3> QED
      BY <2>1, <2>2, <2>5, <3>1, <3>2 DEF Within
  <2> QED
    BY <2>1, <2>3, <2>4, <2>5, SameProgram DEF Stage
<1>2. CASE Next
  <2>1. UNCHANGED scenario
    BY <1>2 DEF Next
  <2>2. PICK f \in Flow : Step(f) \/ Cancel(f)
    BY <1>2 DEF Next
  <2> QED
    BY <2>1, <2>2, EnterRefusedStage, EnterNestedStage, EnterOutermostStage, EnterBareStage,
       ConnectionOpenedStage, BareStatementStage, SendStage, ConfiguredStage,
       SettledStage, SeeAutocommitStage, BeginTransactionStage, EnterBlockStage, SavepointCreatedStage,
       EnteredStage, OnCommitStage, BodyStage, RowWrittenStage, ChildrenDoneStage,
       ExitStage, ReleasedStage, RolledBackToStage, TidiedStage, CommittedStage,
       RolledBackStage, FinallyStage, AutocommitRestoredStage, CancelConnectingStage,
       CancelQueuedStage, CancelRunningStage
       DEF Step, Cancel
<1> QED
  BY <1>1, <1>2

\* At the start nobody is in a block.
LEMMA InitStage ==
  ASSUME OneOwner, Init
  PROVE  Stage
<1>1. Calls /\ scenario \in Scenarios /\ \A f \in Flow : pc[f] = "start"
  BY InitCalls DEF Init
<1>2. InTurn
  BY <1>1 DEF InTurn
<1>3. Owner
  <2>1. \A f \in Flow : Top(f) => _task_connection_owner = TaskOf[f]
    BY <1>1, OneTask, ProgramFacts DEF Init, Top
  <2> QED
    BY <1>1, <2>1 DEF Init, Owner, Opened
<1>4. \A f \in Flow : Place(f) /\ ~InBlock(f)
  BY <1>1 DEF Place, InBlock, Before, Begun, Ending
<1>5. AtRest
  BY <1>1, ProgramFacts DEF Init, AtRest, Alike, Opened
<1> QED
  BY <1>2, <1>3, <1>4, <1>5 DEF Stage

\* The invariant of the blocks holds throughout, when one task has them all.
LEMMA StageHolds ==
  ASSUME OneOwner
  PROVE  Spec => []Stage
<1>1. Init => Stage
  BY InitStage
<1>2. Calls /\ Stage /\ [Next]_vars => Stage'
  BY StepStage
<1> QED
  BY <1>1, <1>2, CallsHold, PTL DEF Spec

\* A transaction of the server only ever holds the rows of one outermost block
\* and of what it awaits, however many statements and blocks other tasks run on
\* the wrapper meanwhile.
THEOREM NobodyJoins ==
  ASSUME OneOwner
  PROVE  Spec => []TransactionNotShared
<1>1. ASSUME Calls, Stage
      PROVE  TransactionNotShared
  <2>1. SUFFICES ASSUME NEW c \in Raw, NEW r \in raw[c].rows, NEW s \in raw[c].rows
                 PROVE  Root(r[1]) = Root(s[1])
    BY DEF TransactionNotShared, TransactionNeverShared
  <2>2. c = connection /\ connection # None
    BY <1>1, ProgramFacts DEF Stage, Owner, Calls
  <2>3. PICK f \in Flow : InBlock(f)
    BY <1>1, <2>2 DEF Stage, AtRest, Alike, Opened
  <2> QED
    BY <1>1, <2>2, <2>3 DEF Stage, Within, OwnRows
<1> QED
  BY <1>1, CallsHold, StageHolds, PTL

\* When every flow has ended, the wrapper and its connection are as they were,
\* whoever was cancelled on the way.
THEOREM LeftAsItWas ==
  ASSUME OneOwner
  PROVE  Spec => []WrapperAtRest
<1>1. ASSUME Calls, Stage
      PROVE  WrapperAtRest
  <2>1. SUFFICES ASSUME \A f \in Flow : Over(f), connection # None
                 PROVE  /\ ~in_atomic_block /\ savepoint_ids = <<>> /\ atomic_blocks = <<>>
                        /\ autocommit /\ raw[connection] = Opened(TRUE)
    BY DEF WrapperAtRest
  <2>2. AtRest
    BY <1>1, <2>1 DEF Over, Stage, InBlock, Begun, Ending
  <2>3. connection \in Raw /\ raw[connection] \in RawState
    BY <1>1, <2>1 DEF Calls, WrapperTypeOK
  <2>4. raw[connection].queue = <<>>
    <3>1. raw[connection].queue \in Seq(Flow)
      BY <2>3 DEF RawState
    <3>2. ToSet(raw[connection].queue) \cap Flow = {}
      BY <1>1, <2>1, <2>3, ProgramFacts DEF Calls, Lines, Linked, Over, Command
    <3> QED
      BY <3>1, <3>2, ElementOfSeq, EmptySeq, LenProperties DEF ToSet
  <2>5. raw[connection] = Opened(TRUE)
    BY <2>1, <2>2, <2>3, <2>4 DEF AtRest, Alike, Opened, RawState
  <2> QED
    BY <2>1, <2>2, <2>5 DEF AtRest
<1> QED
  BY <1>1, CallsHold, StageHolds, PTL

=============================================================================
