---------------------------- MODULE WritesProofs ----------------------------
(***************************************************************************)
(* Theorems about Writes, for any number of tasks, any keys and any methods *)
(* in any mix: the variables keep their kinds, and aget_or_create() and     *)
(* aupdate_or_create() raise only where another task deletes at the same    *)
(* time.                                                                    *)
(***************************************************************************)
EXTENDS Writes, SequenceTheorems, TLAPS

Ended == {"ok", "raised", "failed"}
Statements == {"get", "get_again", "insert", "update", "exists", "exists_still", "parent",
               "find", "delete"}
Cell == [pk : PrimaryKeys, by : PrimaryKeys] \union {Absent}

\* The kinds of the variables, as functions of tasks and keys.
Shape ==
  /\ operation \in Mixes /\ beginning \in Beginnings
  /\ status \in [Task -> Ended \union {"ready", "busy"}]
  /\ answer \in [Task -> {"none", "found", "created"}]
  /\ stages \in [Task -> Seq([do : Statements, rows : SUBSET (Key \X PrimaryKeys)])]
  /\ DOMAIN tx = Task
  /\ \A t \in Task : DOMAIN tx[t] \subseteq Key /\ \A k \in DOMAIN tx[t] : tx[t][k] \in Cell
  /\ table \in [Key -> Cell]
  /\ earlier \in [Task -> SUBSET Task]
  /\ \A t \in Task : status[t] # "busy" => tx[t] = <<>> /\ stages[t] = <<>>

-----------------------------------------------------------------------------
(* The operations of the runs, and what their statements write.            *)

\* A task is a number, and knows its keys and the size of its batches.
LEMMA TaskFacts ==
  ASSUME operation \in Mixes
  PROVE  /\ Task \subseteq Nat \ {0} /\ PrimaryKeys \subseteq Nat
         /\ Absent \notin [pk : PrimaryKeys, by : PrimaryKeys]
         /\ \A t \in Task : /\ operation[t] \in Operations /\ Do(t) \in Methods
                            /\ operation[t].keys \in Seq(Key) /\ Keys(t) \subseteq Key
                            /\ operation[t].keys # <<>> /\ operation[t].batch \in Nat \ {0}
<1>1. operation \in Seq(Operations)
  BY OperationsAssumption
<1>2. \A t \in Task : operation[t] \in Operations
  BY <1>1 DEF Task
<1>3. \A op \in Operations : /\ op.do \in Methods /\ op.keys \in Seq(Key) /\ op.batch \in Nat \ {0}
                             /\ op.keys # <<>>
  BY OperationsAssumption
<1>4. \A s \in Seq(Key) : ToSet(s) \subseteq Key
  BY DEF ToSet
<1>5. Task \subseteq Nat \ {0}
  BY <1>1 DEF Task
<1> QED
  BY <1>2, <1>3, <1>4, <1>5 DEF Do, Keys, PrimaryKeys, Absent

\* Nothing written is nothing at any key.
LEMMA EmptyTuple == DOMAIN <<>> = {}
OBVIOUS

\* What a task sees is a table, whatever it has written itself.
LEMMA ViewTyped ==
  ASSUME Shape, NEW t \in Task
  PROVE  View(t) \in [Key -> Cell]
BY DEF Shape, View, Over

\* A value other than Absent is a row with a primary key.
LEMMA CellFacts ==
  ASSUME NEW c \in Cell, c # Absent
  PROVE  c.pk \in PrimaryKeys /\ c.by \in PrimaryKeys
BY DEF Cell

\* The rows of a task that a statement hits are of the statement's keys.
LEMMA RowsTyped ==
  ASSUME Shape, NEW t \in Task, stages[t] # <<>>
  PROVE  /\ Head(stages[t]) \in [do : Statements, rows : SUBSET (Key \X PrimaryKeys)]
         /\ Rows(t) \subseteq Key \X PrimaryKeys
         /\ KeysOf(Rows(t)) \subseteq Key
         /\ There(t, Rows(t)) \subseteq Rows(t) /\ KeysOf(There(t, Rows(t))) \subseteq KeysOf(Rows(t))
         /\ Taken(t, Rows(t)) \subseteq KeysOf(Rows(t))
         /\ \A k \in KeysOf(There(t, Rows(t))) \union Taken(t, Rows(t)) : View(t)[k] # Absent
<1>1. stages[t] \in Seq([do : Statements, rows : SUBSET (Key \X PrimaryKeys)])
  BY DEF Shape
<1>2. Head(stages[t]) \in [do : Statements, rows : SUBSET (Key \X PrimaryKeys)]
  BY <1>1, HeadTailProperties
<1>3. Rows(t) \subseteq Key \X PrimaryKeys
  BY <1>2 DEF Rows
<1> QED
  BY <1>2, <1>3 DEF KeysOf, There, Taken

\* A method's script names its own keys.
LEMMA ScriptTyped ==
  ASSUME operation \in Mixes, NEW t \in Task
  PROVE  Script(t) \in Seq([do : Statements, rows : SUBSET (Key \X PrimaryKeys)])
<1> DEFINE S == [do : Statements, rows : SUBSET (Key \X PrimaryKeys)]
<1>1. Keys(t) \subseteq Key /\ 0 \in PrimaryKeys /\ t \in PrimaryKeys
  BY TaskFacts DEF PrimaryKeys
<1>2. \A d \in Statements, r \in SUBSET (Key \X PrimaryKeys) : Stage(d, r) \in Seq(S)
  BY DEF Stage
<1>3. Own(t, 0) \in SUBSET (Key \X PrimaryKeys) /\ Own(t, t) \in SUBSET (Key \X PrimaryKeys)
      /\ Keys(t) \X PrimaryKeys \in SUBSET (Key \X PrimaryKeys)
  BY <1>1 DEF Own
<1>4. ASSUME NEW d \in Statements, NEW pk \in PrimaryKeys
      PROVE  Batches(t, d, pk) \in Seq(S)
  <2> DEFINE n == operation[t].batch
             keys == operation[t].keys
             Batch(i) == SubSeq(keys, 1 + (i - 1) * n, IF i * n < Len(keys) THEN i * n ELSE Len(keys))
             m == (Len(keys) + n - 1) \div n
  <2>1. n \in Nat \ {0} /\ keys \in Seq(Key)
    BY TaskFacts
  <2>2. m \in Int
    BY <2>1
  <2>3. \A i \in 1 .. m : ToSet(Batch(i)) \subseteq Key
    <3> SUFFICES ASSUME NEW i \in 1 .. m
                 PROVE  ToSet(Batch(i)) \subseteq Key
      OBVIOUS
    <3> DEFINE a == 1 + (i - 1) * n
               b == IF i * n < Len(keys) THEN i * n ELSE Len(keys)
    <3>1. (i - 1) * n \in Nat /\ i * n \in Nat
      BY <2>1, <2>2
    <3>2. a \in Nat \ {0} /\ b \in Nat /\ b <= Len(keys) /\ Len(keys) \in Nat
      BY <2>1, <3>1
    <3> HIDE DEF a, b
    <3>3. SubSeq(keys, a, b) \in Seq(Key)
      BY <2>1, <3>2
    <3>4. ToSet(SubSeq(keys, a, b)) \subseteq Key
      BY <3>3 DEF ToSet
    <3> QED
      BY <3>4 DEF a, b
  <2>4. Batches(t, d, pk) = [i \in 1 .. m |-> [do |-> d, rows |-> ToSet(Batch(i)) \X {pk}]]
    BY DEF Batches
  <2> HIDE DEF m, Batch
  <2>5. \A i \in 1 .. m : [do |-> d, rows |-> ToSet(Batch(i)) \X {pk}] \in S
    BY <2>3
  <2> HIDE DEF S
  <2>6. PICK l \in Nat : 1 .. m = 1 .. l
    <3>1. CASE m \in Nat
      BY <3>1
    <3>2. CASE m \notin Nat
      <4>1. 1 .. m = 1 .. 0
        BY <2>2, <3>2
      <4> QED
        BY <4>1
    <3> QED
      BY <3>1, <3>2
  <2>7. Batches(t, d, pk) \in [1 .. l -> S]
    BY <2>4, <2>5, <2>6
  <2> QED
    BY <2>6, <2>7, SeqDef
<1>5. Do(t) \in Methods
  BY TaskFacts
<1> QED
  BY <1>1, <1>2, <1>3, <1>4, <1>5
     DEF Script, AGetOrCreate, ACreate, ABulkCreate, ABulkUpdate, AUpdate, ADelete,
         ADeleteInstance, ASave, Saves, Methods, Statements

-----------------------------------------------------------------------------
(* Why aget_or_create() and aupdate_or_create() return.                    *)

GetsOrCreates(t) == Do(t) \in {"aget_or_create", "aupdate_or_create"}

\* Another task that deletes was at work at the same time.
Gone(t) == \E u \in Task : status[u] # "ready" /\ Overlap(t, u) /\ Deletes(u)

\* Only methods that delete have statements that delete, and only a model with a
\* parent saves one; the other methods never take a row away.
Allowed(t, do) ==
  /\ do \in {"find", "delete"} => Deletes(t)
  /\ do = "parent" => Do(t) = "asave_inherited"

\* What holds of a task whatever the others do.
Behaves(t) ==
  /\ \A i \in DOMAIN stages[t] : Allowed(t, stages[t][i].do)
  /\ GetsOrCreates(t) => Len(stages[t]) <= 1
  /\ \A k \in DOMAIN tx[t] : tx[t][k] = Absent => Deletes(t)
  /\ \A u \in earlier[t] : status[u] \in Ended

\* A row refused the insert, and is still there or was deleted.
Explained(t) ==
  GetsOrCreates(t) =>
    /\ stages[t] # <<>> /\ Head(stages[t]).do = "get_again" => Taken(t, Rows(t)) # {} \/ Gone(t)
    /\ status[t] = "raised" => Gone(t)

Inductive == Shape /\ \A t \in Task : Behaves(t) /\ Explained(t)

-----------------------------------------------------------------------------
(* What a step of a task changes.                                          *)

\* Writing keeps the kinds, touches no other session, and takes a row away only
\* if the method deletes.
Written(t) ==
  /\ DOMAIN tx' = Task /\ table' \in [Key -> Cell]
  /\ DOMAIN tx'[t] \subseteq Key
  /\ \A k \in DOMAIN tx'[t] : tx'[t][k] \in Cell /\ (tx'[t][k] = Absent => Deletes(t))
  /\ \A u \in Task \ {t} : tx'[u] = tx[u]
  /\ \A k \in Key : table'[k] = Absent => table[k] = Absent \/ Deletes(t)

\* A task at work keeps the invariant for itself; the others stay where they were.
Stepped(t) ==
  /\ Shape' /\ UNCHANGED run /\ Behaves(t)'
  /\ \A u \in Task \ {t} : /\ stages'[u] = stages[u] /\ status'[u] = status[u]
                           /\ tx'[u] = tx[u] /\ earlier'[u] = earlier[u]
  /\ \A k \in Key : table'[k] = Absent => table[k] = Absent \/ Deletes(t)
  /\ status[t] \notin Ended /\ status'[t] # "ready"
  /\ status[t] = "ready" \/ earlier'[t] = earlier[t]

\* A statement that writes cells leaves cells.
LEMMA WriteTyped ==
  ASSUME Shape, NEW t \in Task, Behaves(t), NEW new, DOMAIN new \subseteq Key,
         \A k \in DOMAIN new : new[k] \in Cell /\ (new[k] = Absent => Deletes(t)), Write(t, new)
  PROVE  Written(t)
<1>1. CASE Atomic(t)
  BY <1>1 DEF Write, Written, Over, Shape, Behaves
<1>2. CASE ~Atomic(t)
  BY <1>2 DEF Write, Written, Over, Shape, Behaves
<1> QED
  BY <1>1, <1>2

\* A statement that writes nothing.
LEMMA ReadTyped ==
  ASSUME Shape, NEW t \in Task, Behaves(t), UNCHANGED <<tx, table>>
  PROVE  Written(t)
BY DEF Shape, Behaves, Written

\* The types of a run stay.
LEMMA RunStays ==
  ASSUME UNCHANGED run
  PROVE  /\ operation' = operation /\ beginning' = beginning
         /\ Task' = Task /\ PrimaryKeys' = PrimaryKeys /\ Cell' = Cell
         /\ \A t : Do(t)' = Do(t) /\ (Deletes(t)' <=> Deletes(t))
                   /\ (GetsOrCreates(t)' <=> GetsOrCreates(t))
                   /\ \A do : Allowed(t, do)' <=> Allowed(t, do)
BY DEF run, Task, PrimaryKeys, Cell, Do, Deletes, GetsOrCreates, Allowed

\* The list of stages after the only one of a list is what replaces it.
LEMMA TheOnlyStage ==
  ASSUME NEW S, NEW s \in Seq(S), s # <<>>, Len(s) <= 1, NEW more \in Seq(S)
  PROVE  more \o Tail(s) = more
<1>1. Len(s) \in Nat \ {0}
  BY EmptySeq
<1>2. Len(s) = 1
  <2>1. \A n \in Nat : n # 0 /\ n <= 1 => n = 1
    OBVIOUS
  <2>2. Len(s) \in Nat /\ Len(s) # 0
    BY <1>1
  <2> QED
    BY <2>1, <2>2, Zenon
<1>3. Tail(s) \in Seq(S) /\ Len(Tail(s)) = 0
  BY <1>2, HeadTailProperties
<1>4. Tail(s) = <<>>
  BY <1>3, EmptySeq
<1> QED
  BY <1>4, ConcatEmptySeq

\* A statement that the method goes on from.
LEMMA GoesTyped ==
  ASSUME Shape, NEW t \in Task, Behaves(t), status[t] = "busy", stages[t] # <<>>,
         NEW more \in Seq([do : Statements, rows : SUBSET (Key \X PrimaryKeys)]),
         \A i \in DOMAIN more : Allowed(t, more[i].do),
         GetsOrCreates(t) => Len(more) <= 1,
         Then(t, more), Goes, Written(t),
         UNCHANGED answer \/ \E how \in {"none", "found", "created"} : Found(t, how)
  PROVE  Stepped(t) /\ (GetsOrCreates(t) => stages'[t] = more)
<1> DEFINE S == [do : Statements, rows : SUBSET (Key \X PrimaryKeys)]
<1>1. status' = status /\ earlier' = earlier /\ UNCHANGED run
  BY DEF Goes
<1>2. /\ operation' = operation /\ beginning' = beginning
      /\ Task' = Task /\ PrimaryKeys' = PrimaryKeys /\ Cell' = Cell
  BY <1>1, RunStays
<1>3. stages[t] \in Seq(S) /\ Tail(stages[t]) \in Seq(S) /\ Len(Tail(stages[t])) = Len(stages[t]) - 1
      /\ \A i \in 1 .. Len(Tail(stages[t])) : Tail(stages[t])[i] = stages[t][i + 1]
  <2>1. stages[t] \in Seq(S)
    BY DEF Shape
  <2> QED
    BY <2>1, HeadTailProperties
<1>4. more \o Tail(stages[t]) \in Seq(S)
  BY <1>3, ConcatProperties
<1>5. /\ stages' \in [Task -> Seq(S)] /\ \A u \in Task \ {t} : stages'[u] = stages[u]
      /\ stages'[t] = more \o Tail(stages[t])
  BY <1>4 DEF Shape, Then
<1>6. answer' \in [Task -> {"none", "found", "created"}]
  BY DEF Found, Shape
<1>7. \A u \in Task : DOMAIN tx'[u] \subseteq Key /\ \A k \in DOMAIN tx'[u] : tx'[u][k] \in Cell
  BY DEF Written, Shape
<1>8. \A u \in Task : status'[u] # "busy" => tx'[u] = <<>> /\ stages'[u] = <<>>
  BY <1>1, <1>5 DEF Written, Shape
<1>9. Shape'
  BY <1>1, <1>2, <1>5, <1>6, <1>7, <1>8 DEF Shape, Written
<1>10. \A i \in DOMAIN stages'[t] : Allowed(t, stages'[t][i].do)
  <2> DEFINE n == Len(more)
             m == Len(Tail(stages[t]))
             all == more \o Tail(stages[t])
  <2>1. n \in Nat /\ m \in Nat /\ DOMAIN all = 1 .. n + m /\ DOMAIN more = 1 .. n
        /\ DOMAIN stages[t] = 1 .. m + 1
        /\ \A i \in 1 .. n + m : all[i] = IF i <= n THEN more[i] ELSE Tail(stages[t])[i - n]
    BY <1>3, <1>4, ConcatProperties, LenProperties
  <2>2. \A i \in 1 .. n + m : all[i] = IF i <= n THEN more[i] ELSE stages[t][i - n + 1]
    BY <1>3, <2>1
  <2>3. \A i \in DOMAIN stages[t] : Allowed(t, stages[t][i].do)
    BY DEF Behaves
  <2> HIDE DEF n, m, all
  <2>4. ASSUME NEW i \in 1 .. n + m
        PROVE  Allowed(t, all[i].do)
    <3>1. CASE i <= n
      BY <2>1, <2>2, <3>1
    <3>2. CASE ~(i <= n)
      <4>1. i - n + 1 \in DOMAIN stages[t] /\ all[i] = stages[t][i - n + 1]
        BY <2>1, <2>2, <3>2
      <4> QED
        BY <2>3, <4>1
    <3> QED
      BY <3>1, <3>2
  <2> QED
    BY <1>5, <2>1, <2>4 DEF all
<1>11. GetsOrCreates(t) => stages'[t] = more
  <2> SUFFICES ASSUME GetsOrCreates(t)
               PROVE  stages'[t] = more
    OBVIOUS
  <2>1. Len(stages[t]) <= 1
    BY DEF Behaves
  <2>2. more \o Tail(stages[t]) = more
    BY <1>3, <2>1, TheOnlyStage
  <2> QED
    BY <1>5, <2>2
<1>12. Behaves(t)'
  BY <1>1, <1>10, <1>11, RunStays DEF Behaves, Written
<1> QED
  BY <1>1, <1>5, <1>9, <1>11, <1>12 DEF Stepped, Written, Ended

\* The end of a method.
LEMMA EndsTyped ==
  ASSUME Shape, NEW t \in Task, Behaves(t), status[t] = "busy",
         NEW how \in Ended, Ends(t, how), UNCHANGED answer,
         table' \in [Key -> Cell], \A k \in Key : table'[k] = Absent => table[k] = Absent \/ Deletes(t)
  PROVE  Stepped(t) /\ status'[t] = how /\ stages'[t] = <<>>
<1>1. UNCHANGED run /\ earlier' = earlier
  BY DEF Ends
<1>2. /\ operation' = operation /\ beginning' = beginning
      /\ Task' = Task /\ PrimaryKeys' = PrimaryKeys /\ Cell' = Cell
  BY <1>1, RunStays
<1>3. /\ stages' \in [Task -> Seq([do : Statements, rows : SUBSET (Key \X PrimaryKeys)])]
      /\ stages'[t] = <<>> /\ \A u \in Task \ {t} : stages'[u] = stages[u]
  BY EmptySeq DEF Ends, Shape
<1>4. DOMAIN tx' = Task /\ tx'[t] = <<>> /\ \A u \in Task \ {t} : tx'[u] = tx[u]
  BY DEF Ends, Shape
<1>5. \A u \in Task : DOMAIN tx'[u] \subseteq Key /\ \A k \in DOMAIN tx'[u] : tx'[u][k] \in Cell
  BY <1>4, EmptyTuple DEF Shape
<1>6. \A u \in Task : status'[u] # "busy" => tx'[u] = <<>> /\ stages'[u] = <<>>
  BY <1>3, <1>4 DEF Ends, Shape
<1>7. status' \in [Task -> Ended \union {"ready", "busy"}] /\ status'[t] = how
      /\ \A u \in Task \ {t} : status'[u] = status[u]
  BY DEF Ends, Shape
<1>8. Shape'
  BY <1>1, <1>2, <1>3, <1>4, <1>5, <1>6, <1>7 DEF Shape
<1>9. Behaves(t)'
  <2>1. Len(stages'[t]) = 0 /\ DOMAIN stages'[t] = {} /\ DOMAIN tx'[t] = {}
    BY <1>3, <1>4, EmptyTuple
  <2>2. \A u \in earlier'[t] : status'[u] \in Ended
    BY <1>1, <1>7 DEF Behaves, Shape
  <2> QED
    BY <2>1, <2>2 DEF Behaves
<1> QED
  BY <1>1, <1>3, <1>4, <1>7, <1>8, <1>9 DEF Stepped, Ended

\* One stage, or none, is a list of stages.
LEMMA StageTyped ==
  ASSUME NEW d \in Statements, NEW rows \in SUBSET (Key \X PrimaryKeys)
  PROVE  /\ Stage(d, rows) \in Seq([do : Statements, rows : SUBSET (Key \X PrimaryKeys)])
         /\ Len(Stage(d, rows)) = 1 /\ DOMAIN Stage(d, rows) = {1} /\ Stage(d, rows) # <<>>
         /\ Stage(d, rows)[1].do = d /\ Head(Stage(d, rows)) = [do |-> d, rows |-> rows]
BY DEF Stage

-----------------------------------------------------------------------------
(* Every step of a task.                                                   *)

\* A statement goes on with no stage.
LEMMA GoesOn ==
  ASSUME Shape, NEW t \in Task, Behaves(t), status[t] = "busy", stages[t] # <<>>,
         Then(t, <<>>), Goes, Written(t),
         UNCHANGED answer \/ \E how \in {"none", "found", "created"} : Found(t, how)
  PROVE  Stepped(t) /\ Explained(t)'
<1>1. <<>> \in Seq([do : Statements, rows : SUBSET (Key \X PrimaryKeys)]) /\ Len(<<>>) = 0
      /\ (\A i \in DOMAIN <<>> : Allowed(t, <<>>[i].do)) /\ Len(<<>>) <= 1
  BY EmptySeq, EmptyTuple
<1>2. Stepped(t) /\ (GetsOrCreates(t) => stages'[t] = <<>>)
  BY <1>1, GoesTyped, Zenon
<1>3. status'[t] = "busy" /\ UNCHANGED run
  BY DEF Goes
<1> QED
  BY <1>2, <1>3, RunStays DEF Explained

\* A statement goes on with one stage that is not a second read of the row.
LEMMA GoesOnWith ==
  ASSUME Shape, NEW t \in Task, Behaves(t), status[t] = "busy", stages[t] # <<>>,
         NEW d \in Statements \ {"get_again"}, Allowed(t, d),
         NEW rows \in SUBSET (Key \X PrimaryKeys),
         Then(t, Stage(d, rows)), Goes, Written(t),
         UNCHANGED answer \/ \E how \in {"none", "found", "created"} : Found(t, how)
  PROVE  Stepped(t) /\ Explained(t)'
<1> DEFINE more == Stage(d, rows)
<1>0. /\ more \in Seq([do : Statements, rows : SUBSET (Key \X PrimaryKeys)])
      /\ (\A i \in DOMAIN more : Allowed(t, more[i].do)) /\ Len(more) <= 1
  <2>1. d \in Statements
    OBVIOUS
  <2>2. /\ more \in Seq([do : Statements, rows : SUBSET (Key \X PrimaryKeys)])
        /\ Len(more) = 1 /\ DOMAIN more = {1} /\ more[1].do = d
    BY <2>1, StageTyped
  <2> HIDE DEF more
  <2> QED
    BY <2>2
<1>1. Stepped(t) /\ (GetsOrCreates(t) => stages'[t] = more)
  BY <1>0, GoesTyped, Zenon
<1>2. status'[t] = "busy" /\ UNCHANGED run
  BY DEF Goes
<1> QED
  BY <1>1, <1>2, StageTyped, RunStays DEF Explained

\* Who deletes at the same time goes on doing so.
LEMMA GoneStays ==
  ASSUME Shape, NEW t \in Task, NEW v \in Task, Stepped(v), status[t] # "ready", Gone(t)
  PROVE  Gone(t)'
<1>1. PICK u \in Task : status[u] # "ready" /\ Overlap(t, u) /\ Deletes(u)
  BY DEF Gone
<1>2. status'[u] # "ready" /\ earlier'[u] = earlier[u] /\ earlier'[t] = earlier[t]
  BY <1>1 DEF Stepped
<1>3. Overlap(t, u)' /\ Deletes(u)' /\ u \in Task'
  BY <1>1, <1>2, RunStays DEF Overlap, Stepped
<1> QED
  BY <1>2, <1>3 DEF Gone

\* Raise, by a method that does not get or create or whose row is gone.
LEMMA RaiseTyped ==
  ASSUME Shape, NEW t \in Task, Behaves(t), status[t] = "busy",
         ~GetsOrCreates(t) \/ Gone(t), Raise(t)
  PROVE  Stepped(t) /\ Explained(t)'
<1>1. Ends(t, "raised") /\ UNCHANGED answer /\ table' = table /\ "raised" \in Ended
  BY DEF Raise, Ended
<1>2. table' \in [Key -> Cell]
  BY <1>1 DEF Shape
<1>3. Stepped(t) /\ stages'[t] = <<>>
  BY <1>1, <1>2, EndsTyped
<1>4. Gone(t) => Gone(t)'
  BY <1>3, GoneStays
<1>5. UNCHANGED run
  BY <1>3 DEF Stepped
<1> QED
  BY <1>3, <1>4, <1>5, RunStays DEF Explained

\* What Runs(t, do) says of a task.
LEMMA RunsFacts ==
  ASSUME Shape, NEW t \in Task, Behaves(t), NEW do, Runs(t, do)
  PROVE  /\ status[t] = "busy" /\ stages[t] # <<>> /\ Allowed(t, do)
         /\ Head(stages[t]).do = do /\ Head(stages[t]) = stages[t][1]
         /\ Rows(t) \in SUBSET (Key \X PrimaryKeys)
<1>1. stages[t] # <<>> /\ Head(stages[t]).do = do
  BY DEF Runs
<1>2. stages[t] \in Seq([do : Statements, rows : SUBSET (Key \X PrimaryKeys)])
  BY DEF Shape
<1>3. 1 \in DOMAIN stages[t] /\ Head(stages[t]) = stages[t][1]
  BY <1>1, <1>2, EmptySeq, LenProperties
<1> QED
  BY <1>1, <1>3, RowsTyped DEF Runs, Behaves

\* A method's script has only statements it is allowed.
LEMMA ScriptAllowed ==
  ASSUME operation \in Mixes, NEW t \in Task
  PROVE  \A i \in DOMAIN Script(t) : Allowed(t, Script(t)[i].do)
<1>1. \A d, r : DOMAIN Stage(d, r) = {1} /\ Stage(d, r)[1].do = d
  BY DEF Stage
<1>2. ASSUME NEW d \in {"insert", "update"}, NEW pk
      PROVE  \A i \in DOMAIN Batches(t, d, pk) : Allowed(t, Batches(t, d, pk)[i].do)
  BY DEF Batches, Allowed
<1>3. Do(t) \in Methods
  BY TaskFacts
<1> QED
  BY <1>1, <1>2, <1>3
     DEF Script, AGetOrCreate, ACreate, ABulkCreate, ABulkUpdate, AUpdate, ADelete,
         ADeleteInstance, ASave, Saves, Methods, Allowed, Deletes

\* A method that begins owes its script, and may run every statement of it.
LEMMA BeginStep ==
  ASSUME Shape, NEW t \in Task, Behaves(t), Begin(t)
  PROVE  Stepped(t) /\ Explained(t)'
<1> DEFINE S == [do : Statements, rows : SUBSET (Key \X PrimaryKeys)]
<1>1. UNCHANGED run /\ status[t] = "ready" /\ UNCHANGED <<answer, tx, table>>
  BY DEF Begin
<1>2. /\ operation' = operation /\ beginning' = beginning
      /\ Task' = Task /\ PrimaryKeys' = PrimaryKeys /\ Cell' = Cell
  BY <1>1, RunStays
<1>3. Script(t) \in Seq(S)
  BY ScriptTyped DEF Shape
<1>4. /\ stages' \in [Task -> Seq(S)] /\ stages'[t] = Script(t)
      /\ \A u \in Task \ {t} : stages'[u] = stages[u]
  BY <1>3 DEF Begin, Shape
<1>5. /\ status' \in [Task -> Ended \union {"ready", "busy"}] /\ status'[t] = "busy"
      /\ \A u \in Task \ {t} : status'[u] = status[u]
  BY DEF Begin, Shape
<1>6. /\ earlier' \in [Task -> SUBSET Task]
      /\ earlier'[t] = {u \in Task : status[u] \in Ended}
      /\ \A u \in Task \ {t} : earlier'[u] = earlier[u]
  BY DEF Begin, Shape, Ended
<1>7. Shape'
  BY <1>1, <1>2, <1>4, <1>5, <1>6 DEF Shape
<1>8. \A i \in DOMAIN Script(t) : Allowed(t, Script(t)[i].do)
  BY <1>3, StageTyped, ScriptAllowed DEF Shape
<1>9. GetsOrCreates(t) => Len(Script(t)) <= 1 /\ Head(Script(t)).do = "get"
  BY DEF GetsOrCreates, Script, AGetOrCreate, Stage
<1>10. tx[t] = <<>> /\ \A u \in earlier'[t] : status'[u] \in Ended
  BY <1>1, <1>5, <1>6 DEF Shape, Ended
<1>11. Behaves(t)'
  BY <1>1, <1>4, <1>8, <1>9, <1>10, RunStays, EmptyTuple DEF Behaves
<1>12. Explained(t)'
  BY <1>1, <1>4, <1>5, <1>9, RunStays DEF Explained
<1> QED
  BY <1>1, <1>4, <1>5, <1>6, <1>7, <1>11, <1>12 DEF Stepped, Ended

\* aget_or_create or aupdate_or_create that finds the row goes on without a second read.
LEMMA FoundItStep ==
  ASSUME Shape, NEW t \in Task, Behaves(t), status[t] = "busy", stages[t] # <<>>, FoundIt(t)
  PROVE  Stepped(t) /\ Explained(t)'
<1> DEFINE k == Head(operation[t].keys)
<1>1. Written(t) /\ Found(t, "found") /\ Goes
  BY ReadTyped DEF FoundIt
<1>2. CASE Do(t) = "aupdate_or_create"
  <2>1. Then(t, Stage("update", {<<k, View(t)[k].pk>>}))
    BY <1>2 DEF FoundIt
  <2>2. View(t)[k].pk \in PrimaryKeys
    <3>1. k \in Key
      BY TaskFacts, HeadTailProperties DEF Shape
    <3>2. View(t)[k] \in Cell
      BY <3>1, ViewTyped
    <3>3. Absent.pk \in PrimaryKeys
      BY DEF Absent, PrimaryKeys
    <3> QED
      BY <3>2, <3>3 DEF Cell
  <2>3. {<<k, View(t)[k].pk>>} \in SUBSET (Key \X PrimaryKeys)
    BY <2>2, TaskFacts, HeadTailProperties DEF Shape
  <2> QED
    BY <1>1, <2>1, <2>3, GoesOnWith DEF Statements, Allowed
<1>3. CASE Do(t) # "aupdate_or_create"
  <2>1. Then(t, <<>>)
    BY <1>3 DEF FoundIt
  <2> QED
    BY <1>1, <2>1, GoesOn
<1> QED
  BY <1>2, <1>3

\* The first read finds nothing: the INSERT is next.
LEMMA GetStep ==
  ASSUME Shape, NEW t \in Task, Behaves(t), Get(t)
  PROVE  Stepped(t) /\ Explained(t)'
<1>1. status[t] = "busy" /\ stages[t] # <<>>
  BY RunsFacts DEF Get
<1>2. CASE Taken(t, Rows(t)) # {}
  BY <1>1, <1>2, FoundItStep DEF Get
<1>3. CASE Taken(t, Rows(t)) = {}
  <2>1. Then(t, Stage("insert", Own(t, t))) /\ UNCHANGED answer /\ Goes /\ Written(t)
    BY <1>3, ReadTyped DEF Get
  <2>2. Own(t, t) \in SUBSET (Key \X PrimaryKeys)
    BY TaskFacts DEF Own, Shape, PrimaryKeys
  <2> QED
    BY <1>1, <2>1, <2>2, GoesOnWith DEF Statements, Allowed
<1> QED
  BY <1>2, <1>3

\* The second read of aget_or_create finds the row, or a delete under way explains its absence.
LEMMA GetAgainStep ==
  ASSUME Shape, NEW t \in Task, Behaves(t), Explained(t), GetAgain(t)
  PROVE  Stepped(t) /\ Explained(t)'
<1>1. status[t] = "busy" /\ stages[t] # <<>> /\ Head(stages[t]).do = "get_again"
  BY RunsFacts DEF GetAgain
<1>2. CASE Taken(t, Rows(t)) # {}
  BY <1>1, <1>2, FoundItStep DEF GetAgain
<1>3. CASE Taken(t, Rows(t)) = {}
  BY <1>1, <1>3, RaiseTyped DEF GetAgain, Explained
<1> QED
  BY <1>2, <1>3

\* The INSERT refused: the row that refused it is there when the second read is put next.
LEMMA InsertRefusedStep ==
  ASSUME Shape, NEW t \in Task, Behaves(t), status[t] = "busy", stages[t] # <<>>,
         Taken(t, Rows(t)) # {}, InsertRefused(t)
  PROVE  Stepped(t) /\ Explained(t)'
<1>1. CASE GetsOrCreates(t)
  <2>1. Then(t, Stage("get_again", Rows(t))) /\ UNCHANGED <<answer, tx, table>> /\ Goes /\ Written(t)
    BY <1>1, ReadTyped DEF InsertRefused, GetsOrCreates
  <2> DEFINE more == Stage("get_again", Rows(t))
  <2>2. /\ more \in Seq([do : Statements, rows : SUBSET (Key \X PrimaryKeys)])
        /\ Len(more) = 1 /\ DOMAIN more = {1} /\ more[1].do = "get_again"
        /\ Head(more) = [do |-> "get_again", rows |-> Rows(t)]
    <3>1. "get_again" \in Statements
      BY DEF Statements
    <3>2. Rows(t) \in SUBSET (Key \X PrimaryKeys)
      BY RowsTyped
    <3> QED
      BY <3>1, <3>2, StageTyped
  <2>3. Allowed(t, "get_again")
    BY DEF Allowed
  <2> HIDE DEF more
  <2>4. (\A i \in DOMAIN more : Allowed(t, more[i].do)) /\ Len(more) <= 1
    BY <2>2, <2>3
  <2>5. Then(t, more)
    BY <2>1 DEF more
  <2>6. Stepped(t) /\ stages'[t] = more
    BY <1>1, <2>1, <2>2, <2>4, <2>5, GoesTyped, Zenon
  <2>7. Taken(t, Rows(t))' = Taken(t, Rows(t))
    BY <2>1, <2>2, <2>6 DEF Taken, View, Over, KeysOf, Rows
  <2>8. status'[t] = "busy"
    BY <2>1 DEF Goes
  <2> QED
    BY <2>6, <2>7, <2>8 DEF Explained
<1>2. CASE ~GetsOrCreates(t)
  BY <1>2, RaiseTyped DEF InsertRefused, GetsOrCreates
<1> QED
  BY <1>1, <1>2

\* An INSERT that goes through adds rows, and takes none away.
LEMMA InsertStep ==
  ASSUME Shape, NEW t \in Task, Behaves(t), Insert(t)
  PROVE  Stepped(t) /\ Explained(t)'
<1> DEFINE taken == Taken(t, Rows(t))
           written == IF Do(t) = "abulk_create_update" THEN KeysOf(Rows(t)) ELSE KeysOf(Rows(t)) \ taken
           New(k) == Row(IF k \in taken THEN View(t)[k].pk
                                        ELSE (CHOOSE r \in Rows(t) : r[1] = k)[2], t)
           new == [k \in written |-> New(k)]
<1>1. status[t] = "busy" /\ stages[t] # <<>>
  BY RunsFacts DEF Insert
<1>2. CASE taken # {} /\ Do(t) \notin {"abulk_create_ignore", "abulk_create_update"}
  BY <1>1, <1>2, InsertRefusedStep DEF Insert
<1>3. CASE ~(taken # {} /\ Do(t) \notin {"abulk_create_ignore", "abulk_create_update"})
  <2>1. Then(t, <<>>) /\ Found(t, "created") /\ Goes /\ Write(t, new)
    BY <1>3 DEF Insert
  <2>2. t \in PrimaryKeys /\ t # -1
    BY TaskFacts DEF Shape, PrimaryKeys
  <2>3. ASSUME NEW k \in written
        PROVE  New(k) \in Cell /\ New(k) # Absent
    <3>1. k \in KeysOf(Rows(t))
      OBVIOUS
    <3>2. ASSUME k \in taken
          PROVE  View(t)[k].pk \in PrimaryKeys
      <4>1. k \in Key /\ View(t)[k] # Absent
        BY <1>1, <3>1, <3>2, RowsTyped
      <4> QED
        BY <4>1, ViewTyped, CellFacts
    <3>3. (CHOOSE r \in Rows(t) : r[1] = k)[2] \in PrimaryKeys
      <4>1. \E r \in Rows(t) : r[1] = k
        BY <3>1 DEF KeysOf
      <4>2. (CHOOSE r \in Rows(t) : r[1] = k) \in Rows(t)
        BY <4>1
      <4> QED
        BY <1>1, <4>2, RowsTyped
    <3> QED
      BY <2>2, <3>2, <3>3 DEF Row, Cell, Absent
  <2>4. DOMAIN new \subseteq Key
    BY <1>1, RowsTyped
  <2>5. \A k \in DOMAIN new : new[k] \in Cell /\ (new[k] = Absent => Deletes(t))
    BY <2>3
  <2> HIDE DEF new
  <2>6. Written(t)
    BY <2>1, <2>4, <2>5, WriteTyped
  <2> QED
    BY <1>1, <2>1, <2>6, GoesOn
<1> QED
  BY <1>2, <1>3

\* asave's UPDATE that matched no row is followed by an INSERT, never by a second read.
LEMMA NothingUpdatedStep ==
  ASSUME Shape, NEW t \in Task, Behaves(t), status[t] = "busy", stages[t] # <<>>, NothingUpdated(t)
  PROVE  Stepped(t) /\ Explained(t)'
<1>1. Rows(t) \in SUBSET (Key \X PrimaryKeys)
  BY RowsTyped
<1>2. CASE Do(t) \in {"asave", "asave_select"}
  <2>1. PICK d \in {"insert", "exists_still"} :
          Then(t, Stage(d, Rows(t))) /\ UNCHANGED <<answer, tx, table>> /\ Goes
    BY <1>2 DEF NothingUpdated
  <2> QED
    BY <1>1, <2>1, ReadTyped, GoesOnWith DEF Statements, Allowed
<1>3. CASE Do(t) \in {"asave_fields", "asave_inherited_fields"}
  BY <1>3, RaiseTyped DEF NothingUpdated, GetsOrCreates
<1>4. CASE Do(t) \notin {"asave", "asave_select", "asave_fields", "asave_inherited_fields"}
  <2>1. Then(t, <<>>) /\ UNCHANGED <<answer, tx, table>> /\ Goes
    BY <1>4 DEF NothingUpdated
  <2> QED
    BY <2>1, ReadTyped, GoesOn
<1> QED
  BY <1>2, <1>3, <1>4

\* An UPDATE changes rows, and takes none away.
LEMMA UpdateStep ==
  ASSUME Shape, NEW t \in Task, Behaves(t), Update(t)
  PROVE  Stepped(t) /\ Explained(t)'
<1> DEFINE hit == KeysOf(There(t, Rows(t)))
           new == [k \in hit |-> Row(View(t)[k].pk, t)]
<1>1. status[t] = "busy" /\ stages[t] # <<>>
  BY RunsFacts DEF Update
<1>2. CASE hit = {}
  BY <1>1, <1>2, NothingUpdatedStep DEF Update
<1>3. CASE hit # {}
  <2>1. Then(t, <<>>) /\ Found(t, "found") /\ Goes /\ Write(t, new)
    BY <1>3 DEF Update
  <2>2. t \in PrimaryKeys /\ t # -1
    BY TaskFacts DEF Shape, PrimaryKeys
  <2>3. ASSUME NEW k \in hit
        PROVE  k \in Key /\ Row(View(t)[k].pk, t) \in Cell /\ Row(View(t)[k].pk, t) # Absent
    <3>1. k \in Key /\ View(t)[k] # Absent
      BY <1>1, RowsTyped
    <3>2. View(t)[k].pk \in PrimaryKeys
      BY <3>1, ViewTyped, CellFacts
    <3> QED
      BY <2>2, <3>1, <3>2 DEF Row, Cell, Absent
  <2>4. DOMAIN new \subseteq Key
    BY <2>3
  <2>5. \A k \in DOMAIN new : new[k] \in Cell /\ (new[k] = Absent => Deletes(t))
    BY <2>3
  <2> HIDE DEF new
  <2>6. Written(t)
    BY <2>1, <2>4, <2>5, WriteTyped
  <2> QED
    BY <1>1, <2>1, <2>6, GoesOn
<1> QED
  BY <1>2, <1>3

\* The existence check of _ado_update writes nothing.
LEMMA ExistsStep ==
  ASSUME Shape, NEW t \in Task, Behaves(t), Exists(t) \/ ExistsStill(t)
  PROVE  Stepped(t) /\ Explained(t)'
<1>1. status[t] = "busy" /\ stages[t] # <<>> /\ Rows(t) \in SUBSET (Key \X PrimaryKeys)
  BY RunsFacts DEF Exists, ExistsStill
<1>2. Goes /\ Written(t)
  BY ReadTyped DEF Exists, ExistsStill
<1>3. \/ \E d \in {"insert", "update"} : Then(t, Stage(d, Rows(t))) /\ UNCHANGED answer
      \/ Then(t, <<>>) /\ Found(t, "found")
  BY DEF Exists, ExistsStill
<1> QED
  BY <1>1, <1>2, <1>3, GoesOn, GoesOnWith DEF Statements, Allowed

\* The parent of an inherited model is written first, and the child comes next.
LEMMA SaveParentStep ==
  ASSUME Shape, NEW t \in Task, Behaves(t), SaveParent(t)
  PROVE  Stepped(t) /\ Explained(t)'
<1>1. /\ status[t] = "busy" /\ stages[t] # <<>> /\ Rows(t) \in SUBSET (Key \X PrimaryKeys)
      /\ ~GetsOrCreates(t)
  BY RunsFacts DEF SaveParent, Allowed, GetsOrCreates
<1>2. CASE Columns["parent"] \subseteq Columns[StatementTable("parent")]
  <2>1. Then(t, Stage("update", Rows(t))) /\ UNCHANGED <<answer, tx, table>> /\ Goes
    BY <1>2 DEF SaveParent
  <2> QED
    BY <1>1, <2>1, ReadTyped, GoesOnWith DEF Statements, Allowed
<1>3. CASE ~(Columns["parent"] \subseteq Columns[StatementTable("parent")])
  BY <1>1, <1>3, RaiseTyped DEF SaveParent
<1> QED
  BY <1>2, <1>3

\* adelete's collection writes nothing.
LEMMA FindStep ==
  ASSUME Shape, NEW t \in Task, Behaves(t), Find(t)
  PROVE  Stepped(t) /\ Explained(t)'
<1>1. status[t] = "busy" /\ stages[t] # <<>> /\ Allowed(t, "delete")
  BY RunsFacts DEF Find, Allowed
<1>2. Goes /\ Written(t) /\ UNCHANGED answer /\ Then(t, Stage("delete", There(t, Rows(t))))
  BY ReadTyped DEF Find
<1>3. There(t, Rows(t)) \in SUBSET (Key \X PrimaryKeys)
  BY <1>1, RowsTyped
<1> QED
  BY <1>1, <1>2, <1>3, GoesOnWith DEF Statements

\* Only a method that deletes takes rows away, and while it is at work it is known to delete.
LEMMA DeleteStep ==
  ASSUME Shape, NEW t \in Task, Behaves(t), Delete(t)
  PROVE  Stepped(t) /\ Explained(t)'
<1> DEFINE hit == KeysOf(There(t, Rows(t)))
           new == [k \in hit |-> Absent]
<1>1. status[t] = "busy" /\ stages[t] # <<>> /\ Deletes(t)
  BY RunsFacts DEF Delete, Allowed
<1>2. /\ Then(t, <<>>) /\ Goes /\ Write(t, new)
      /\ \E how \in {"none", "found", "created"} : Found(t, how)
  BY DEF Delete
<1>3. DOMAIN new \subseteq Key /\ \A k \in DOMAIN new : new[k] \in Cell
  BY <1>1, RowsTyped DEF Cell
<1> HIDE DEF new
<1>4. Written(t)
  BY <1>1, <1>2, <1>3, WriteTyped
<1> QED
  BY <1>1, <1>2, <1>4, GoesOn

\* The block's commit adds what the method wrote: only a delete under way takes a row away.
LEMMA ReturnStep ==
  ASSUME Shape, NEW t \in Task, Behaves(t), Return(t)
  PROVE  Stepped(t) /\ Explained(t)'
<1>1. status[t] = "busy" /\ Ends(t, "ok") /\ UNCHANGED answer /\ table' = View(t) /\ "ok" \in Ended
  BY DEF Return, Ended
<1>2. table' \in [Key -> Cell]
  BY <1>1, ViewTyped
<1>3. \A k \in Key : table'[k] = Absent => table[k] = Absent \/ Deletes(t)
  BY <1>1 DEF View, Over, Behaves, Shape
<1>4. Stepped(t) /\ status'[t] = "ok" /\ stages'[t] = <<>>
  BY <1>1, <1>2, <1>3, EndsTyped
<1> QED
  BY <1>4 DEF Explained

\* A block that fails writes nothing.
LEMMA FailStep ==
  ASSUME Shape, NEW t \in Task, Behaves(t), Fail(t) \/ Deadlocked(t)
  PROVE  Stepped(t) /\ Explained(t)'
<1>1. status[t] = "busy" /\ Ends(t, "failed") /\ UNCHANGED answer /\ table' = table /\ "failed" \in Ended
  BY DEF Fail, Deadlocked, Ended
<1>2. table' \in [Key -> Cell]
  BY <1>1 DEF Shape
<1>3. Stepped(t) /\ status'[t] = "failed" /\ stages'[t] = <<>>
  BY <1>1, <1>2, EndsTyped
<1> QED
  BY <1>3 DEF Explained

\* Every step of a task keeps the invariant for the task itself.
LEMMA OwnStep ==
  ASSUME Shape, NEW t \in Task, Behaves(t), Explained(t), Step(t) \/ Fail(t)
  PROVE  Stepped(t) /\ Explained(t)'
BY BeginStep, GetStep, GetAgainStep, InsertStep, UpdateStep, ExistsStep, SaveParentStep, FindStep,
   DeleteStep, ReturnStep, FailStep DEF Step

\* What another task's step leaves of a task.
LEMMA OthersStep ==
  ASSUME Shape, NEW t \in Task, Behaves(t), Explained(t), NEW u \in Task \ {t}, Behaves(u), Stepped(u)
  PROVE  Behaves(t)' /\ Explained(t)'
<1>1. /\ stages'[t] = stages[t] /\ status'[t] = status[t] /\ tx'[t] = tx[t] /\ earlier'[t] = earlier[t]
      /\ UNCHANGED run
  BY DEF Stepped
<1>2. Behaves(t)'
  <2>1. \A v \in earlier[t] : status'[v] \in Ended
    BY DEF Stepped, Behaves, Shape
  <2> QED
    BY <1>1, <2>1, RunStays DEF Behaves
<1>3. Gone(t) /\ status[t] # "ready" => Gone(t)'
  BY GoneStays
<1>4. ASSUME GetsOrCreates(t), stages[t] # <<>>, Head(stages[t]).do = "get_again"
      PROVE  Taken(t, Rows(t))' # {} \/ Gone(t)'
  <2>1. status[t] = "busy"
    BY <1>4 DEF Shape
  <2>2. CASE Gone(t)
    BY <1>3, <2>1, <2>2
  <2>3. CASE Taken(t, Rows(t)) # {}
    <3>1. PICK k \in KeysOf(Rows(t)) : View(t)[k] # Absent
      BY <2>3 DEF Taken
    <3>2. k \in Key /\ k \in KeysOf(Rows(t))'
      BY <1>1, <1>4, RowsTyped DEF Rows, KeysOf
    <3>3. CASE View(t)'[k] # Absent
      BY <3>2, <3>3 DEF Taken
    <3>4. CASE View(t)'[k] = Absent
      <4>1. table[k] # Absent /\ table'[k] = Absent
        BY <1>1, <3>1, <3>2, <3>4 DEF View, Over, Shape, Stepped
      <4>2. Deletes(u)
        BY <3>2, <4>1 DEF Stepped
      <4>3. u \notin earlier'[t] /\ t \notin earlier'[u] /\ status'[u] # "ready"
        BY <1>1, <2>1 DEF Behaves, Stepped, Ended
      <4>4. Overlap(t, u)' /\ Deletes(u)' /\ u \in Task'
        BY <1>1, <4>2, <4>3, RunStays DEF Overlap
      <4> QED
        BY <4>3, <4>4 DEF Gone
    <3> QED
      BY <3>3, <3>4
  <2> QED
    BY <1>4, <2>2, <2>3 DEF Explained
<1>5. ASSUME GetsOrCreates(t), status[t] = "raised"
      PROVE  Gone(t)'
  BY <1>3, <1>5 DEF Explained
<1> QED
  BY <1>1, <1>2, <1>4, <1>5, RunStays DEF Explained

-----------------------------------------------------------------------------
(* The theorems.                                                           *)

\* Shape, Behaves and Explained hold in every state: one case per action, for the task
\* that takes it (OwnStep) and for every other task (OthersStep).
LEMMA InductiveInvariant == Spec => []Inductive
<1>1. Init => Inductive
  <2> SUFFICES ASSUME Init
               PROVE  Inductive
    OBVIOUS
  <2>1. 0 \in PrimaryKeys /\ Row(0, 0) \in Cell /\ Absent \in Cell
    BY DEF PrimaryKeys, Row, Cell
  <2>2. /\ operation \in Mixes /\ beginning \in Beginnings
        /\ status = [t \in Task |-> "ready"] /\ answer = [t \in Task |-> "none"]
        /\ stages = [t \in Task |-> <<>>] /\ tx = [t \in Task |-> <<>>]
        /\ earlier = [t \in Task |-> {}]
        /\ table \in [Key -> Cell]
    BY <2>1 DEF Init
  <2>3. Shape
    BY <2>2, EmptySeq, EmptyTuple DEF Shape
  <2>4. ASSUME NEW t \in Task
        PROVE  Behaves(t) /\ Explained(t)
    BY <2>2, EmptyTuple DEF Behaves, Explained
  <2> QED
    BY <2>3, <2>4 DEF Inductive
<1>2. Inductive /\ [Next]_vars => Inductive'
  <2> SUFFICES ASSUME Inductive, [Next]_vars
               PROVE  Inductive'
    OBVIOUS
  <2>1. CASE UNCHANGED vars
    <3>1. /\ UNCHANGED run /\ stages' = stages /\ status' = status /\ answer' = answer
          /\ tx' = tx /\ table' = table /\ earlier' = earlier
      BY <2>1 DEF vars
    <3>2. Task' = Task /\ Shape'
      BY <3>1, RunStays DEF Inductive, Shape
    <3>3. ASSUME NEW t \in Task
          PROVE  Behaves(t)' /\ Explained(t)'
      <4>1. Behaves(t)'
        BY <3>1, RunStays DEF Inductive, Behaves
      <4>2. Taken(t, Rows(t))' = Taken(t, Rows(t)) /\ (Gone(t) => Gone(t)')
        BY <3>1, RunStays DEF Taken, View, Rows, Gone, Overlap
      <4> QED
        BY <3>1, <4>1, <4>2, RunStays DEF Inductive, Explained
    <3> QED
      BY <3>2, <3>3 DEF Inductive
  <2>2. CASE \E t \in Task : Step(t) \/ Fail(t)
    <3>1. PICK t \in Task : Step(t) \/ Fail(t)
      BY <2>2
    <3>2. Stepped(t) /\ Explained(t)'
      BY <3>1, OwnStep DEF Inductive
    <3>3. \A u \in Task \ {t} : Behaves(u)' /\ Explained(u)'
      BY <3>2, OthersStep DEF Inductive
    <3>4. Task' = Task
      BY <3>2, RunStays DEF Stepped
    <3> QED
      BY <3>2, <3>3, <3>4 DEF Inductive, Stepped
  <2> QED
    BY <2>1, <2>2 DEF Next, Finished
<1> QED
  BY <1>1, <1>2, PTL DEF Spec

\* Whatever the methods, their keys and their number: the variables keep their
\* kinds, and a task that has ended holds no locks and owes no statement.
THEOREM TypeCorrect == Spec => []TypeOK
<1>1. Inductive => TypeOK
  <2> SUFFICES ASSUME Inductive
               PROVE  TypeOK
    OBVIOUS
  <2>1. Shape
    BY DEF Inductive
  <2>2. ASSUME NEW t \in Task, NEW i \in DOMAIN stages[t]
        PROVE  stages[t][i].rows \subseteq Key \X PrimaryKeys
    <3> DEFINE S == [do : Statements, rows : SUBSET (Key \X PrimaryKeys)]
    <3>1. stages[t] \in Seq(S)
      BY <2>1 DEF Shape
    <3> HIDE DEF S
    <3>2. DOMAIN stages[t] = 1 .. Len(stages[t])
      BY <3>1, LenProperties
    <3>3. stages[t][i] \in S
      BY <3>1, <3>2, ElementOfSeq
    <3> QED
      BY <3>3 DEF S
  <2>3. \A k \in Key : table[k] = Absent \/ (table[k].pk \in PrimaryKeys /\ table[k].by \in PrimaryKeys)
    BY <2>1, CellFacts DEF Shape
  <2> QED
    BY <2>1, <2>2, <2>3 DEF Shape, TypeOK, Ended
<1> QED
  BY <1>1, InductiveInvariant, PTL

\* With any number of other tasks, aget_or_create() and aupdate_or_create() raise
\* only if one of them deletes while they are at work: the refused INSERT proves
\* that the row was there, and nothing but a delete takes it away again.
THEOREM GetOrCreateReturnsAlways == Spec => []GetOrCreateReturns
<1>1. Inductive => GetOrCreateReturns
  BY DEF Inductive, Explained, GetsOrCreates, Gone, GetOrCreateReturns
<1> QED
  BY <1>1, InductiveInvariant, PTL

=============================================================================
