------------------------ MODULE RelatedManagersProofs ------------------------
(***************************************************************************)
(* Theorems about RelatedManagers, for any number of tasks and operations: *)
(* no foreign key gets two values, and the objects that are prefetched are *)
(* those of the relation once nobody writes.                               *)
(***************************************************************************)
EXTENDS RelatedManagers, SequenceTheorems, FiniteSetTheorems, TLAPS

Pairs == Source \X Target

Stages == [do : StageKinds, pairs : SUBSET Pairs]

\* What a task may have to do: a through table is written by its own statements,
\* and no statement gives a foreign key two values.
Due(t) ==
  {s \in Stages :
     /\ s.do \in {"missing", "insert", "insert_missing", "delete"} => ManyToMany(t)
     /\ s.do \in {"point", "null"} => ~ManyToMany(t)
     /\ s.do = "point" => OneEach(s.pairs)}

\* The kinds of the variables.
Shape ==
  /\ operation \in Pairings /\ committed \in SUBSET Pairs
  /\ status \in [Task -> {"ready", "busy", "ok", "raised"}]
  /\ tx \in [Task -> [add : SUBSET Pairs, del : SUBSET Pairs]]
  /\ stages \in [Task -> Seq(Stages)]
  /\ \A t \in Task : stages[t] \in Seq(Due(t))
  /\ order \in Seq(Task)
  /\ cache = NoCache \/ cache \subseteq Target
  /\ reader = NoCache \/ reader \subseteq Target

\* Only a transaction that is open has changed something, and nobody has changed
\* what another one has.
Locks ==
  /\ \A t \in Task : tx[t].add \intersect tx[t].del = {}
  /\ \A t \in Task : status[t] # "busy" => tx[t] = Nothing
  /\ \A t, u \in Task : t # u => Locked(t) \intersect Locked(u) = {}

\* A foreign key holds one value, in the database and in what a transaction sees.
OneValue ==
  \A t \in Task : ~ManyToMany(t) => OneEach(committed) /\ OneEach(View(t))

Inductive == Shape /\ Locks /\ OneValue

\* What a task begins with: it forgets what is prefetched before it changes
\* anything.
Begins(s) == s = <<>> \/ Head(s).do \in {"forget", "read"}

Unchanged(t) == tx[t] = Nothing /\ Begins(stages[t])

\* Of operations on the watched instance: what is prefetched is what the relation
\* holds, and is forgotten before one of them changes it.
Current ==
  (\A t \in Task : Me(t) = Watched) /\ ~stale =>
    /\ (\E t \in Task : status[t] = "busy") => reader = NoCache
    /\ \A t \in Task : status[t] = "busy" => cache = NoCache \/ Unchanged(t)
    /\ cache # NoCache => cache = TargetsOf(Watched, committed)
    /\ reader # NoCache => reader = TargetsOf(Watched, committed)

-----------------------------------------------------------------------------
(* Sequences.                                                              *)

\* The first member of one sequence put before another.
LEMMA Before ==
  ASSUME NEW S, NEW r \in Seq(S), NEW s \in Seq(S), r # <<>>
  PROVE  r \o s \in Seq(S) /\ r \o s # <<>> /\ Head(r \o s) = Head(r)
<1>1. Len(r) \in Nat \ {0} /\ Len(s) \in Nat
  BY EmptySeq, LenProperties
<1>2. r \o s \in Seq(S) /\ Len(r \o s) = Len(r) + Len(s) /\ (r \o s)[1] = r[1]
  BY <1>1, ConcatProperties
<1>3. r \o s # <<>>
  BY <1>1, <1>2, EmptySeq
<1> QED
  BY <1>1, <1>2, <1>3

\* A sequence of one.
LEMMA One ==
  ASSUME NEW S, NEW x \in S
  PROVE  <<x>> \in Seq(S) /\ <<x>> # <<>> /\ Head(<<x>>) = x
OBVIOUS

\* The members of sequences put together.
LEMMA Members ==
  ASSUME NEW S, NEW s \in Seq(S)
  PROVE  ToSet(s) \subseteq S
BY LenProperties, ElementOfSeq DEF ToSet

\* A finite set as a sequence.
LEMMA SetAsSequence ==
  ASSUME NEW S, IsFiniteSet(S)
  PROVE  SetToSeq(S) \in Seq(S)
<1> DEFINE n == Cardinality(S)
           Q == {f \in [1 .. n -> S] : IsInjective(f)}
<1>1. n \in Nat /\ ExistsBijection(1 .. n, S)
  BY FS_CardinalityType
<1>2. Q # {}
  BY <1>1 DEF ExistsBijection, Bijection, Injection, IsInjective
<1>3. SetToSeq(S) \in Q
  BY <1>2 DEF SetToSeq
<1> QED
  BY <1>1, <1>3, SeqDef

-----------------------------------------------------------------------------
(* What the operations have to do.                                         *)

\* An operation is on the relation of its run.
LEMMA OperationTyped ==
  ASSUME operation \in Pairings, NEW t \in Task
  PROVE  /\ operation[t] \in Operations /\ Manager(t) \in Managers /\ Me(t) \in Source
         /\ operation[t].objs \subseteq Target
         /\ Manager(t) = "symmetrical" => Source = Target
         /\ \A u \in Task : ManyToMany(t) <=> ManyToMany(u)
<1>1. operation \in Seq(Operations)
  BY OperationsAssumption
<1>2. operation[t] \in Operations
  BY <1>1, LenProperties, ElementOfSeq DEF Task
<1>3. operation[t] \in [manager : Managers, instance : Source, objs : SUBSET Target,
                        do : {"aadd", "aremove", "aclear", "aset", "aset_clear"}]
  BY <1>2, OperationsAssumption
<1> QED
  BY <1>2, <1>3, OperationsAssumption DEF Task, Manager, Me, ManyToMany

\* The pairs of an instance with its objects, and those of the mirror.
LEMMA PairsTyped ==
  ASSUME operation \in Pairings, NEW t \in Task, NEW objs \in SUBSET Target
  PROVE  /\ {Me(t)} \X objs \in SUBSET Pairs /\ OneEach({Me(t)} \X objs)
         /\ Manager(t) = "symmetrical" => Mirror({Me(t)} \X objs) \in SUBSET Pairs
         /\ RemoveFilters(t, objs) \in SUBSET Pairs
<1>1. Me(t) \in Source /\ (Manager(t) = "symmetrical" => Source = Target)
  BY OperationTyped
<1>2. {Me(t)} \X objs \in SUBSET Pairs /\ OneEach({Me(t)} \X objs)
  BY <1>1 DEF Pairs, OneEach
<1>3. Manager(t) = "symmetrical" => Mirror({Me(t)} \X objs) \in SUBSET Pairs
  BY <1>1 DEF Pairs, Mirror
<1> QED
  BY <1>2, <1>3 DEF RemoveFilters

\* One statement.
LEMMA StageDue ==
  ASSUME NEW t, NEW do \in StageKinds, NEW pairs \in SUBSET Pairs,
         do \in {"missing", "insert", "insert_missing", "delete"} => ManyToMany(t),
         do \in {"point", "null"} => ~ManyToMany(t), do = "point" => OneEach(pairs)
  PROVE  /\ Stage(do, pairs) \in Seq(Due(t)) /\ Stage(do, pairs) # <<>>
         /\ Head(Stage(do, pairs)).do = do
<1> DEFINE s == [do |-> do, pairs |-> pairs]
<1>1. s \in Due(t)
  BY DEF Due, Stages
<1>2. Stage(do, pairs) = <<s>>
  BY DEF Stage
<1> HIDE DEF s
<1>3. Stage(do, pairs) \in Seq(Due(t)) /\ Stage(do, pairs) # <<>> /\ Head(Stage(do, pairs)) = s
  BY <1>1, <1>2, One
<1> QED
  BY <1>3 DEF s

\* One statement for each pair.
LEMMA OneByOneDue ==
  ASSUME NEW t, NEW do \in {"point", "null"}, NEW pairs \in SUBSET Pairs, ~ManyToMany(t)
  PROVE  OneByOne(do, pairs) \in Seq(Due(t))
<1>1. IsFiniteSet(pairs)
  BY OperationsAssumption, FS_Product, FS_Subset DEF Pairs
<1>2. PICK each \in Seq(pairs) : each = SetToSeq(pairs)
  BY <1>1, SetAsSequence
<1>3. DOMAIN each = 1 .. Len(each) /\ Len(each) \in Nat
  BY LenProperties
<1>4. OneByOne(do, pairs) = [i \in 1 .. Len(each) |-> [do |-> do, pairs |-> {each[i]}]]
  BY <1>2, <1>3 DEF OneByOne
<1>5. ASSUME NEW i \in 1 .. Len(each)
      PROVE  [do |-> do, pairs |-> {each[i]}] \in Due(t)
  <2>1. each[i] \in pairs
    BY <1>5, ElementOfSeq
  <2>2. {each[i]} \in SUBSET Pairs /\ OneEach({each[i]})
    BY <2>1 DEF OneEach
  <2>3. do \in StageKinds
    BY DEF StageKinds
  <2> QED
    BY <2>2, <2>3 DEF Due, Stages
<1> QED
  BY <1>3, <1>4, <1>5, SeqDef

\* Every operation begins by forgetting what is prefetched.
LEMMA ForgetDue ==
  ASSUME NEW t, NEW s \in Seq(Due(t))
  PROVE  Forget \o s \in Seq(Due(t)) /\ Forget \o s # <<>> /\ Head(Forget \o s).do = "forget"
<1>1. Forget \in Seq(Due(t)) /\ Forget # <<>> /\ Head(Forget).do = "forget"
  BY StageDue DEF Forget, StageKinds
<1> QED
  BY <1>1, Before

\* What aadd() has to do.
LEMMA AAddDue ==
  ASSUME operation \in Pairings, NEW t \in Task, NEW objs \in SUBSET Target
  PROVE  AAdd(t, objs) \in Seq(Due(t)) /\ AAdd(t, objs) # <<>> /\ Head(AAdd(t, objs)).do = "forget"
<1> DEFINE there == {Me(t)} \X objs
           rest == IF ManyToMany(t) THEN AddItems(t, objs) ELSE PointEach(t, objs)
<1>1. /\ there \in SUBSET Pairs /\ OneEach(there)
      /\ Manager(t) = "symmetrical" => Mirror(there) \in SUBSET Pairs
  BY PairsTyped
<1>2. ASSUME ManyToMany(t)
      PROVE  AddItems(t, objs) \in Seq(Due(t))
  <2>1. <<>> \in Seq(Due(t))
    OBVIOUS
  <2>2. /\ Stage("missing", there) \in Seq(Due(t)) /\ Stage("missing", there) # <<>>
        /\ Stage("insert", there) \in Seq(Due(t)) /\ Stage("insert", there) # <<>>
    BY <1>1, <1>2, StageDue DEF StageKinds
  <2>3. ASSUME Manager(t) = "symmetrical"
        PROVE  Stage("insert", Mirror(there)) \in Seq(Due(t))
    <3>1. Mirror(there) \in SUBSET Pairs /\ "insert" \in StageKinds
      BY <1>1, <2>3 DEF StageKinds
    <3> HIDE DEF there
    <3> QED
      BY <1>2, <3>1, StageDue
  <2> HIDE DEF there
  <2> QED
    BY <2>1, <2>2, <2>3, Before DEF AddItems, there
<1>3. ASSUME ~ManyToMany(t)
      PROVE  PointEach(t, objs) \in Seq(Due(t))
  BY <1>1, <1>3, StageDue, OneByOneDue DEF PointEach, StageKinds
<1>4. rest \in Seq(Due(t))
  BY <1>2, <1>3
<1>5. AAdd(t, objs) = Forget \o rest
  BY DEF AAdd
<1> HIDE DEF rest
<1> QED
  BY <1>4, <1>5, ForgetDue

\* What aremove() has to do, which is nothing for no objects of a foreign key.
LEMMA ARemoveDue ==
  ASSUME operation \in Pairings, NEW t \in Task, NEW objs \in SUBSET Target
  PROVE  /\ ARemove(t, objs) \in Seq(Due(t))
         /\ ARemove(t, objs) # <<>> => Head(ARemove(t, objs)).do = "forget"
<1>1. {Me(t)} \X objs \in SUBSET Pairs /\ RemoveFilters(t, objs) \in SUBSET Pairs
  BY PairsTyped
<1>2. /\ <<>> \in Seq(Due(t)) /\ Stage("find", RemoveFilters(t, objs)) \in Seq(Due(t))
      /\ Unset(t, objs) \in Seq(Due(t))
  BY <1>1, StageDue DEF Unset, StageKinds
<1>3. CASE ManyToMany(t)
  BY <1>2, <1>3, ForgetDue DEF ARemove
<1>4. CASE ~ManyToMany(t)
  BY <1>2, <1>4, ForgetDue DEF ARemove
<1> QED
  BY <1>3, <1>4

\* What aclear() has to do.
LEMMA AClearDue ==
  ASSUME operation \in Pairings, NEW t \in Task
  PROVE  AClear(t) \in Seq(Due(t)) /\ AClear(t) # <<>> /\ Head(AClear(t)).do = "forget"
<1>1. {Me(t)} \X Target \in SUBSET Pairs /\ RemoveFilters(t, Target) \in SUBSET Pairs
  BY PairsTyped
<1>2. Stage("find", RemoveFilters(t, Target)) \in Seq(Due(t)) /\ Unset(t, Target) \in Seq(Due(t))
  BY <1>1, StageDue DEF Unset, StageKinds
<1> QED
  BY <1>2, ForgetDue DEF AClear

\* What a task has to do when it begins.
LEMMA ScriptDue ==
  ASSUME operation \in Pairings, NEW t \in Task
  PROVE  Script(t) \in Seq(Due(t)) /\ Begins(Script(t))
<1> DEFINE op == operation[t]
<1>1. /\ op.objs \in SUBSET Target
      /\ op.do \in {"aadd", "aremove", "aclear", "aset", "aset_clear"}
  BY OperationTyped, OperationsAssumption
<1>2. AAdd(t, op.objs) \in Seq(Due(t)) /\ Begins(AAdd(t, op.objs))
  BY <1>1, AAddDue DEF Begins
<1>3. ARemove(t, op.objs) \in Seq(Due(t)) /\ Begins(ARemove(t, op.objs))
  BY <1>1, ARemoveDue DEF Begins
<1>4. AClear(t) \in Seq(Due(t)) /\ Begins(AClear(t))
  BY AClearDue DEF Begins
<1>5. Stage("read", {}) \in Seq(Due(t)) /\ Begins(Stage("read", {}))
  BY StageDue DEF Begins, StageKinds
<1>6. AClear(t) \o AAdd(t, op.objs) \in Seq(Due(t)) /\ Begins(AClear(t) \o AAdd(t, op.objs))
  BY <1>1, AAddDue, AClearDue, Before DEF Begins
<1> QED
  BY <1>1, <1>2, <1>3, <1>4, <1>5, <1>6 DEF Script, OnlyAdds

\* What aset() has to do once it has read.
LEMMA DifferenceDue ==
  ASSUME operation \in Pairings, NEW t \in Task, NEW old \in SUBSET Target
  PROVE  /\ Difference(t, old) \in Seq(Due(t)) /\ Difference(t, old) # <<>>
         /\ Head(Difference(t, old)).do = "forget"
<1> DEFINE less == ARemove(t, old \ operation[t].objs)
           more == AAdd(t, operation[t].objs \ old)
<1>1. old \ operation[t].objs \in SUBSET Target /\ operation[t].objs \ old \in SUBSET Target
  BY OperationTyped
<1>2. less \in Seq(Due(t)) /\ (less # <<>> => Head(less).do = "forget")
  BY <1>1, ARemoveDue
<1>3. more \in Seq(Due(t)) /\ more # <<>> /\ Head(more).do = "forget"
  BY <1>1, AAddDue
<1>4. Difference(t, old) = less \o more
  BY DEF Difference
<1> HIDE DEF less, more
<1>5. CASE less = <<>>
  <2>1. less \o more = more
    BY <1>3, <1>5, ConcatEmptySeq
  <2> QED
    BY <1>3, <1>4, <2>1
<1>6. CASE less # <<>>
  BY <1>2, <1>3, <1>4, <1>6, Before
<1> QED
  BY <1>5, <1>6

-----------------------------------------------------------------------------
(* The steps.                                                              *)

\* Nobody changes the run.
LEMMA SameRun ==
  ASSUME UNCHANGED relation
  PROVE  /\ Task' = Task
         /\ \A t : Me(t)' = Me(t) /\ ManyToMany(t)' = ManyToMany(t) /\ Due(t)' = Due(t)
         /\ \A t, p : Key(t, p)' = Key(t, p)
<1>1. operation' = operation
  BY DEF relation
<1> QED
  BY <1>1 DEF Task, Me, Manager, ManyToMany, Due, Key

\* What a task has still to do once its first stage is done.
LEMMA ThenDue ==
  ASSUME Shape, NEW t \in Task, stages[t] # <<>>, NEW more \in Seq(Due(t)), Then(t, more),
         UNCHANGED relation
  PROVE  /\ stages' \in [Task -> Seq(Stages)] /\ \A u \in Task : stages'[u] \in Seq(Due(u)')
         /\ stages'[t] = more \o Tail(stages[t]) /\ \A u \in Task \ {t} : stages'[u] = stages[u]
<1>1. stages \in [Task -> Seq(Stages)] /\ \A u \in Task : stages[u] \in Seq(Due(u))
  BY DEF Shape
<1>2. PICK r : r = more \o Tail(stages[t])
  OBVIOUS
<1>3. Tail(stages[t]) \in Seq(Due(t))
  BY <1>1, HeadTailProperties
<1>4. r \in Seq(Due(t))
  BY <1>2, <1>3, ConcatProperties
<1>5. r \in Seq(Stages)
  <2>1. Due(t) \subseteq Stages
    BY DEF Due
  <2>2. Len(r) \in Nat /\ r \in [1 .. Len(r) -> Due(t)]
    BY <1>4, LenProperties, ElementOfSeq
  <2> QED
    BY <2>1, <2>2, SeqDef
<1>6. stages' = [stages EXCEPT ![t] = r]
  BY <1>2 DEF Then
<1>7. stages' \in [Task -> Seq(Stages)]
  BY <1>1, <1>5, <1>6
<1>8. stages'[t] = r /\ \A u \in Task \ {t} : stages'[u] = stages[u]
  BY <1>1, <1>6
<1> QED
  BY <1>1, <1>2, <1>4, <1>7, <1>8, SameRun

\* What a transaction has changed after one more statement, and what it sees.
LEMMA Changes ==
  ASSUME Shape, Locks, NEW t \in Task, NEW add \in SUBSET Pairs, NEW del \in SUBSET Pairs,
         Change(t, add, del), UNCHANGED <<relation, committed>>
  PROVE  /\ tx' \in [Task -> [add : SUBSET Pairs, del : SUBSET Pairs]]
         /\ tx'[t].add \intersect tx'[t].del = {}
         /\ tx'[t].add \union tx'[t].del = tx[t].add \union tx[t].del \union add \union del
         /\ View(t)' = (View(t) \ del) \union add
         /\ \A u \in Task \ {t} : tx'[u] = tx[u] /\ View(u)' = View(u)
<1>1. tx \in [Task -> [add : SUBSET Pairs, del : SUBSET Pairs]] /\ tx[t].add \intersect tx[t].del = {}
  BY DEF Shape, Locks
<1> DEFINE a == (tx[t].add \ del) \union add
           d == (tx[t].del \union del) \ add
<1>2. tx' = [tx EXCEPT ![t] = [add |-> a, del |-> d]]
  BY DEF Change
<1>3. a \in SUBSET Pairs /\ d \in SUBSET Pairs
  BY <1>1
<1>4. /\ a \intersect d = {} /\ a \union d = tx[t].add \union tx[t].del \union add \union del
      /\ (committed \ d) \union a
           = (((committed \ tx[t].del) \union tx[t].add) \ del) \union add
  BY <1>1
<1> HIDE DEF a, d
<1>5. tx' \in [Task -> [add : SUBSET Pairs, del : SUBSET Pairs]]
  BY <1>1, <1>2, <1>3
<1>6. tx'[t].add = a /\ tx'[t].del = d /\ \A u \in Task \ {t} : tx'[u] = tx[u]
  BY <1>1, <1>2
<1> QED
  BY <1>4, <1>5, <1>6 DEF View

\* A statement that changes only rows it needs, of which nobody else has changed
\* one, leaves every foreign key its value.
LEMMA StatementKeeps ==
  ASSUME Inductive, NEW t \in Task, status[t] = "busy", stages[t] # <<>>,
         \A u \in Task : ~WaitsFor(t, u),
         NEW more \in Seq(Due(t)), Then(t, more),
         NEW add \in SUBSET Pairs, NEW del \in SUBSET Pairs, Change(t, add, del),
         \A p \in add \union del : Key(t, p) \in Needs(t),
         ~ManyToMany(t) => OneEach((View(t) \ del) \union add),
         UNCHANGED Statement
  PROVE  Inductive'
<1>1. UNCHANGED relation /\ UNCHANGED <<status, committed, order, cache, reader>>
  BY DEF Statement
<1>2. /\ tx' \in [Task -> [add : SUBSET Pairs, del : SUBSET Pairs]]
      /\ tx'[t].add \intersect tx'[t].del = {}
      /\ tx'[t].add \union tx'[t].del = tx[t].add \union tx[t].del \union add \union del
      /\ View(t)' = (View(t) \ del) \union add
      /\ \A u \in Task \ {t} : tx'[u] = tx[u] /\ View(u)' = View(u)
  BY <1>1, Changes DEF Inductive
<1>3. Task' = Task
  BY <1>1, SameRun
<1>4. Shape'
  BY <1>1, <1>2, <1>3, ThenDue DEF Inductive, Shape, relation
<1>5. \A u \in Task : ManyToMany(u)' = ManyToMany(u)
  BY <1>1, SameRun
<1>6. \A u \in Task \ {t} : Locked(u)' = Locked(u)
  BY <1>1, <1>2, SameRun DEF Locked
<1>7. Locked(t)' \subseteq Locked(t) \union Needs(t)
  <2>1. Locked(t)' = {Key(t, p) : p \in tx'[t].add \union tx'[t].del}
    BY <1>1, SameRun DEF Locked
  <2> QED
    BY <1>2, <2>1 DEF Locked
<1>8. \A u \in Task \ {t} : Needs(t) \intersect Locked(u) = {}
  <2> SUFFICES ASSUME NEW u \in Task \ {t}
               PROVE  Needs(t) \intersect Locked(u) = {}
    OBVIOUS
  <2>1. CASE status[u] = "busy"
    BY <2>1 DEF WaitsFor
  <2>2. CASE status[u] # "busy"
    <3>1. tx[u] = Nothing
      BY <2>2 DEF Inductive, Locks
    <3> QED
      BY <3>1 DEF Locked, Nothing
  <2> QED
    BY <2>1, <2>2
<1>9. Locks'
  <2>1. \A u, v \in Task : u # v => Locked(u)' \intersect Locked(v)' = {}
    BY <1>6, <1>7, <1>8 DEF Inductive, Locks
  <2> QED
    BY <1>1, <1>2, <1>3, <2>1 DEF Inductive, Locks
<1>10. OneValue'
  BY <1>1, <1>2, <1>3, <1>5 DEF Inductive, OneValue, OneEach
<1> QED
  BY <1>4, <1>9, <1>10 DEF Inductive

\* Reading changes nothing.
LEMMA ReadingKeeps ==
  ASSUME Inductive, NEW t \in Task, stages[t] # <<>>, NEW more \in Seq(Due(t)), Then(t, more),
         UNCHANGED <<relation, status, tx, committed, order, reader>>,
         cache' = NoCache \/ UNCHANGED cache
  PROVE  Inductive'
<1>1. Task' = Task /\ \A u \in Task : ManyToMany(u)' = ManyToMany(u)
  BY SameRun
<1>2. Shape'
  BY <1>1, ThenDue DEF Inductive, Shape, relation
<1>3. Locks'
  <2>1. \A u \in Task : Locked(u)' = Locked(u)
    BY SameRun DEF Locked
  <2> QED
    BY <1>1, <2>1 DEF Inductive, Locks
<1>4. OneValue'
  BY <1>1 DEF Inductive, OneValue, View
<1> QED
  BY <1>2, <1>3, <1>4 DEF Inductive

\* The end of an operation.
LEMMA EndKeeps ==
  ASSUME Inductive, NEW t \in Task, status[t] = "busy", NEW how \in {"ok", "raised"},
         Ends(t, how), UNCHANGED committed \/ committed' = View(t)
  PROVE  Inductive'
<1>1. /\ UNCHANGED relation /\ UNCHANGED <<cache, reader>> /\ order' = Append(order, t)
      /\ status' = [status EXCEPT ![t] = how] /\ stages' = [stages EXCEPT ![t] = <<>>]
      /\ tx' = [tx EXCEPT ![t] = Nothing]
  BY DEF Ends
<1>2. Task' = Task /\ \A u \in Task : ManyToMany(u)' = ManyToMany(u) /\ Due(u)' = Due(u)
  BY <1>1, SameRun
<1>3. /\ tx \in [Task -> [add : SUBSET Pairs, del : SUBSET Pairs]] /\ committed \in SUBSET Pairs
      /\ status \in [Task -> {"ready", "busy", "ok", "raised"}]
      /\ stages \in [Task -> Seq(Stages)] /\ \A u \in Task : stages[u] \in Seq(Due(u))
      /\ order \in Seq(Task) /\ operation \in Pairings
  BY DEF Inductive, Shape
<1>4. /\ tx'[t] = Nothing /\ \A u \in Task \ {t} : tx'[u] = tx[u]
      /\ Nothing \in [add : SUBSET Pairs, del : SUBSET Pairs]
      /\ tx' \in [Task -> [add : SUBSET Pairs, del : SUBSET Pairs]]
  BY <1>1, <1>3 DEF Nothing
<1>5. View(t) \in SUBSET Pairs /\ committed' \in SUBSET Pairs
  BY <1>3 DEF View
<1>6. Shape'
  <2>1. order' \in Seq(Task)
    BY <1>1, <1>3, AppendProperties
  <2>2. status' \in [Task -> {"ready", "busy", "ok", "raised"}]
    BY <1>1, <1>3
  <2>3. stages' \in [Task -> Seq(Stages)] /\ \A u \in Task : stages'[u] \in Seq(Due(u))
    BY <1>1, <1>3
  <2> QED
    BY <1>1, <1>2, <1>3, <1>4, <1>5, <2>1, <2>2, <2>3 DEF Inductive, Shape, relation
<1>7. Locks'
  <2>1. Locked(t)' = {} /\ \A u \in Task \ {t} : Locked(u)' = Locked(u)
    BY <1>1, <1>4, SameRun DEF Locked, Nothing
  <2>2. \A u \in Task \ {t} : status'[u] = status[u]
    BY <1>1, <1>3
  <2>3. \A u \in Task : tx'[u].add \intersect tx'[u].del = {}
    BY <1>4 DEF Inductive, Locks, Nothing
  <2>4. \A u \in Task : status'[u] # "busy" => tx'[u] = Nothing
    BY <1>4, <2>2 DEF Inductive, Locks
  <2>5. \A u, v \in Task : u # v => Locked(u)' \intersect Locked(v)' = {}
    BY <2>1 DEF Inductive, Locks
  <2> QED
    BY <1>2, <2>3, <2>4, <2>5 DEF Locks
<1>8. ASSUME NEW u \in Task, ~ManyToMany(u)
      PROVE  OneEach(committed') /\ OneEach(View(u)')
  <2>1. ~ManyToMany(t)
    BY <1>3, <1>8, OperationTyped
  <2>2. OneEach(committed) /\ OneEach(View(t)) /\ OneEach(View(u))
    BY <1>8, <2>1 DEF Inductive, OneValue
  <2>3. OneEach(committed')
    BY <2>2
  <2>4. CASE u = t
    BY <1>4, <2>3, <2>4 DEF View, Nothing, OneEach
  <2>5. CASE u # t
    <3>1. View(u)' = (committed' \ tx[u].del) \union tx[u].add
      BY <1>4, <2>5 DEF View
    <3>2. Locked(u) \intersect Locked(t) = {}
      BY <2>5 DEF Inductive, Locks
    <3>3. \A p \in tx[u].add, q \in tx[t].add : p[2] # q[2]
      BY <1>8, <2>1, <3>2 DEF Locked, Key
    <3>4. \A p \in committed' : p \in committed \/ p \in tx[t].add
      BY DEF View
    <3>5. ASSUME NEW p \in View(u)', NEW q \in View(u)', p[2] = q[2]
          PROVE  p = q
      <4>1. p \in View(u) \/ p \in tx[t].add
        BY <3>1, <3>4 DEF View
      <4>2. q \in View(u) \/ q \in tx[t].add
        BY <3>1, <3>4 DEF View
      <4>3. p \in tx[u].add \/ p \in committed'
        BY <3>1
      <4>4. q \in tx[u].add \/ q \in committed'
        BY <3>1
      <4> QED
        BY <2>2, <2>3, <3>3, <3>5, <4>1, <4>2, <4>3, <4>4 DEF OneEach
    <3> QED
      BY <2>3, <3>5 DEF OneEach
  <2> QED
    BY <2>3, <2>4, <2>5
<1>9. OneValue'
  BY <1>2, <1>8 DEF OneValue, OneEach
<1> QED
  BY <1>6, <1>7, <1>9 DEF Inductive

\* The statement a task runs, and what it sees.
LEMMA Running ==
  ASSUME Inductive, NEW t \in Task, NEW do, Runs(t, do)
  PROVE  /\ status[t] = "busy" /\ stages[t] # <<>> /\ \A u \in Task : ~WaitsFor(t, u)
         /\ Head(stages[t]) \in Due(t) /\ Head(stages[t]).do = do
         /\ Head(stages[t]).pairs \in SUBSET Pairs /\ View(t) \in SUBSET Pairs
         /\ ~ManyToMany(t) => OneEach(View(t))
         /\ <<>> \in Seq(Due(t)) /\ operation \in Pairings
<1>1. /\ committed \in SUBSET Pairs /\ tx[t] \in [add : SUBSET Pairs, del : SUBSET Pairs]
      /\ stages[t] \in Seq(Due(t)) /\ operation \in Pairings
  BY DEF Inductive, Shape
<1>2. stages[t] # <<>> /\ status[t] = "busy" /\ Head(stages[t]).do = do
      /\ \A u \in Task : ~WaitsFor(t, u)
  BY DEF Runs
<1>3. Head(stages[t]) \in Due(t)
  BY <1>1, <1>2, HeadTailProperties
<1>4. Head(stages[t]).pairs \in SUBSET Pairs
  BY <1>3 DEF Due, Stages
<1>5. View(t) \in SUBSET Pairs
  BY <1>1 DEF View
<1> QED
  BY <1>1, <1>2, <1>3, <1>4, <1>5 DEF Inductive, OneValue

\* Nothing is read or written: the instance forgets, or an operation reads.
LEMMA ReadsKeep ==
  ASSUME Inductive, NEW t \in Task, RemovePrefetchedObjects(t) \/ ReadOld(t) \/ ReadMissing(t) \/ Find(t)
  PROVE  Inductive'
<1>1. CASE RemovePrefetchedObjects(t)
  <2>1. Runs(t, "forget") /\ Then(t, <<>>)
        /\ UNCHANGED <<relation, status, tx, committed, order, reader>>
        /\ (cache' = NoCache \/ UNCHANGED cache)
    BY <1>1 DEF RemovePrefetchedObjects
  <2>2. stages[t] # <<>> /\ <<>> \in Seq(Due(t))
    BY <2>1, Running
  <2> QED
    BY <2>1, <2>2, ReadingKeeps
<1>2. CASE ReadOld(t)
  <2> DEFINE more == Difference(t, TargetsOf(Me(t), View(t)))
  <2>1. Runs(t, "read") /\ Then(t, more)
        /\ UNCHANGED <<relation, status, tx, committed, order, cache, reader>>
    BY <1>2 DEF ReadOld, Statement
  <2>2. TargetsOf(Me(t), View(t)) \in SUBSET Target
    BY DEF TargetsOf
  <2>3. stages[t] # <<>> /\ more \in Seq(Due(t))
    BY <2>1, <2>2, Running, DifferenceDue
  <2> HIDE DEF more
  <2> QED
    BY <2>1, <2>3, ReadingKeeps
<1>3. CASE ReadMissing(t)
  <2> DEFINE missing == Head(stages[t]).pairs \ View(t)
             more == Stage("insert_missing", missing)
  <2>1. Runs(t, "missing") /\ Then(t, more)
        /\ UNCHANGED <<relation, status, tx, committed, order, cache, reader>>
    BY <1>3 DEF ReadMissing, Statement
  <2>2. stages[t] # <<>> /\ missing \in SUBSET Pairs /\ ManyToMany(t)
    BY <2>1, Running DEF Due
  <2>3. more \in Seq(Due(t))
    <3> HIDE DEF missing
    <3> QED
      BY <2>2, StageDue DEF StageKinds
  <2> HIDE DEF more
  <2> QED
    BY <2>1, <2>2, <2>3, ReadingKeeps
<1>4. CASE Find(t)
  <2> DEFINE found == Head(stages[t]).pairs \intersect View(t)
             more == IF ManyToMany(t) THEN Stage("delete", found) ELSE OneByOne("null", found)
  <2>1. Runs(t, "find") /\ Then(t, more)
        /\ UNCHANGED <<relation, status, tx, committed, order, cache, reader>>
    BY <1>4 DEF Find, Statement
  <2>2. stages[t] # <<>> /\ found \in SUBSET Pairs
    BY <2>1, Running
  <2>3. more \in Seq(Due(t))
    <3> HIDE DEF found
    <3>1. CASE ManyToMany(t)
      BY <2>2, <3>1, StageDue DEF StageKinds
    <3>2. CASE ~ManyToMany(t)
      BY <2>2, <3>2, OneByOneDue
    <3> QED
      BY <3>1, <3>2
  <2> HIDE DEF more
  <2> QED
    BY <2>1, <2>2, <2>3, ReadingKeeps
<1> QED
  BY <1>1, <1>2, <1>3, <1>4

\* Rows are added that are not there, of a through table.
LEMMA InsertsKeep ==
  ASSUME Inductive, NEW t \in Task, Insert(t) \/ InsertMissing(t)
  PROVE  Inductive'
<1> DEFINE pairs == Head(stages[t]).pairs
<1>1. PICK do \in {"insert", "insert_missing"} :
        /\ Runs(t, do)
        /\ \/ Then(t, <<>>) /\ Change(t, pairs \ View(t), {}) /\ UNCHANGED Statement
           \/ Ends(t, "raised") /\ UNCHANGED committed
  BY DEF Insert, InsertMissing
<1>2. /\ status[t] = "busy" /\ stages[t] # <<>> /\ \A u \in Task : ~WaitsFor(t, u)
      /\ Head(stages[t]).do = do /\ pairs \in SUBSET Pairs /\ <<>> \in Seq(Due(t))
      /\ Head(stages[t]) \in Due(t)
  BY <1>1, Running
<1>3. ManyToMany(t)
  BY <1>2 DEF Due
<1>4. Needs(t) = {Key(t, p) : p \in pairs}
  BY <1>2 DEF Needs
<1>5. CASE Ends(t, "raised") /\ UNCHANGED committed
  BY <1>2, <1>5, EndKeeps
<1>6. CASE Then(t, <<>>) /\ Change(t, pairs \ View(t), {}) /\ UNCHANGED Statement
  <2>1. \A p \in (pairs \ View(t)) \union {} : Key(t, p) \in Needs(t)
    BY <1>4
  <2>2. pairs \ View(t) \in SUBSET Pairs /\ {} \in SUBSET Pairs
    BY <1>2
  <2> HIDE DEF pairs
  <2> QED
    BY <1>2, <1>3, <1>6, <2>1, <2>2, StatementKeeps
<1> QED
  BY <1>1, <1>5, <1>6

\* Foreign keys are pointed at the instance.
LEMMA PointKeeps ==
  ASSUME Inductive, NEW t \in Task, Point(t)
  PROVE  Inductive'
<1> DEFINE pairs == Head(stages[t]).pairs
           moved == {p[2] : p \in pairs}
           lost == {p \in View(t) : p[2] \in moved} \ pairs
<1>1. Runs(t, "point") /\ Then(t, <<>>) /\ Change(t, pairs, lost) /\ UNCHANGED Statement
  BY DEF Point
<1>2. /\ status[t] = "busy" /\ stages[t] # <<>> /\ \A u \in Task : ~WaitsFor(t, u)
      /\ Head(stages[t]).do = "point" /\ pairs \in SUBSET Pairs /\ <<>> \in Seq(Due(t))
      /\ Head(stages[t]) \in Due(t) /\ View(t) \in SUBSET Pairs
      /\ ~ManyToMany(t) => OneEach(View(t))
  BY <1>1, Running
<1>3. ~ManyToMany(t) /\ OneEach(pairs)
  BY <1>2 DEF Due
<1>4. Needs(t) = {Key(t, p) : p \in pairs}
  BY <1>2 DEF Needs
<1>5. \A p \in pairs \union lost : Key(t, p) \in Needs(t)
  BY <1>3, <1>4 DEF Key
<1>6. OneEach((View(t) \ lost) \union pairs)
  BY <1>2, <1>3 DEF OneEach
<1>7. lost \in SUBSET Pairs
  BY <1>2
<1> HIDE DEF pairs, lost
<1> QED
  BY <1>1, <1>2, <1>5, <1>6, <1>7, StatementKeeps

\* Rows are taken away, or foreign keys emptied.
LEMMA DeletesKeep ==
  ASSUME Inductive, NEW t \in Task, UnsetRows(t) \/ DeleteRows(t) \/ SaveNull(t)
  PROVE  Inductive'
<1> DEFINE pairs == Head(stages[t]).pairs
           saved == {p[2] : p \in pairs}
           gone == IF Head(stages[t]).do = "null" THEN {p \in View(t) : p[2] \in saved}
                                                  ELSE pairs \intersect View(t)
<1>1. PICK do \in {"unset", "delete", "null"} :
        Runs(t, do) /\ Then(t, <<>>) /\ Change(t, {}, gone) /\ UNCHANGED Statement
  BY DEF UnsetRows, DeleteRows, SaveNull, Runs
<1>2. /\ status[t] = "busy" /\ stages[t] # <<>> /\ \A u \in Task : ~WaitsFor(t, u)
      /\ Head(stages[t]).do = do /\ pairs \in SUBSET Pairs /\ <<>> \in Seq(Due(t))
      /\ Head(stages[t]) \in Due(t) /\ View(t) \in SUBSET Pairs
      /\ ~ManyToMany(t) => OneEach(View(t))
  BY <1>1, Running
<1>3. \A p \in {} \union gone : Key(t, p) \in Needs(t)
  <2>1. CASE do = "null"
    <3>1. Needs(t) = {Key(t, p) : p \in pairs} /\ ~ManyToMany(t)
      BY <1>2, <2>1 DEF Needs, Due
    <3> QED
      BY <1>2, <2>1, <3>1 DEF Key
  <2>2. CASE do # "null"
    <3>1. Needs(t) = {Key(t, p) : p \in pairs \intersect View(t)}
      BY <1>2, <2>2 DEF Needs
    <3> QED
      BY <1>2, <2>2, <3>1
  <2> QED
    BY <2>1, <2>2
<1>4. gone \in SUBSET Pairs /\ {} \in SUBSET Pairs
  BY <1>2
<1> HIDE DEF gone
<1>5. ~ManyToMany(t) => OneEach((View(t) \ gone) \union {})
  BY <1>2 DEF OneEach
<1> QED
  BY <1>1, <1>2, <1>3, <1>4, <1>5, StatementKeeps

\* An operation begins, or is refused before it begins.
LEMMA BeginKeeps ==
  ASSUME Inductive, NEW t \in Task, Begin(t)
  PROVE  Inductive'
<1>1. /\ UNCHANGED <<relation, tx, committed, cache, reader>> /\ status[t] = "ready"
      /\ \/ /\ status' = [status EXCEPT ![t] = "raised"] /\ order' = Append(order, t)
            /\ UNCHANGED stages
         \/ /\ status' = [status EXCEPT ![t] = "busy"] /\ UNCHANGED order
            /\ stages' = [stages EXCEPT ![t] = Script(t)]
  BY DEF Begin
<1>2. Task' = Task /\ \A u \in Task : ManyToMany(u)' = ManyToMany(u) /\ Due(u)' = Due(u)
  BY <1>1, SameRun
<1>3. /\ status \in [Task -> {"ready", "busy", "ok", "raised"}]
      /\ stages \in [Task -> Seq(Stages)] /\ \A u \in Task : stages[u] \in Seq(Due(u))
      /\ order \in Seq(Task) /\ operation \in Pairings
  BY DEF Inductive, Shape
<1>4. PICK s : s = Script(t)
  OBVIOUS
<1>5. s \in Seq(Due(t))
  BY <1>3, <1>4, ScriptDue
<1>6. s \in Seq(Stages)
  <2>1. Due(t) \subseteq Stages
    BY DEF Due
  <2>2. Len(s) \in Nat /\ s \in [1 .. Len(s) -> Due(t)]
    BY <1>5, LenProperties, ElementOfSeq
  <2> QED
    BY <2>1, <2>2, SeqDef
<1>7. stages' \in [Task -> Seq(Stages)] /\ \A u \in Task : stages'[u] \in Seq(Due(u))
  BY <1>1, <1>3, <1>4, <1>5, <1>6
<1>8. /\ status' \in [Task -> {"ready", "busy", "ok", "raised"}] /\ order' \in Seq(Task)
      /\ \A u \in Task \ {t} : status'[u] = status[u]
  <2>1. Append(order, t) \in Seq(Task)
    BY <1>3, AppendProperties
  <2> QED
    BY <1>1, <1>3, <2>1
<1>9. Shape'
  BY <1>1, <1>2, <1>7, <1>8 DEF Inductive, Shape, relation
<1>10. Locks'
  <2>1. \A u \in Task : Locked(u)' = Locked(u)
    BY <1>1, SameRun DEF Locked
  <2>2. tx[t] = Nothing
    BY <1>1 DEF Inductive, Locks
  <2> QED
    BY <1>1, <1>2, <1>8, <2>1, <2>2 DEF Inductive, Locks
<1>11. OneValue'
  BY <1>1, <1>2 DEF Inductive, OneValue, View
<1> QED
  BY <1>9, <1>10, <1>11 DEF Inductive

\* The invariant of types, locks and foreign keys is kept by every step.
LEMMA InductiveStep ==
  ASSUME Inductive, [Next]_vars
  PROVE  Inductive'
<1>1. ASSUME NEW t \in Task, Commit(t) \/ Fail(t) \/ Deadlocked(t)
      PROVE  Inductive'
  <2>1. PICK how \in {"ok", "raised"} :
          status[t] = "busy" /\ Ends(t, how) /\ (UNCHANGED committed \/ committed' = View(t))
    BY <1>1 DEF Commit, Fail, Deadlocked
  <2> QED
    BY <2>1, EndKeeps
<1>2. ASSUME Prefetch \/ Prefetched \/ UNCHANGED vars
      PROVE  Inductive'
  <2>1. /\ UNCHANGED relation /\ UNCHANGED <<stages, status, tx, committed, order>>
        /\ cache' \in {cache, reader} /\ reader' \in {reader, NoCache, TargetsOf(Watched, committed)}
    BY <1>2 DEF Prefetch, Prefetched, vars, writers
  <2>2. Task' = Task /\ \A u \in Task : ManyToMany(u)' = ManyToMany(u) /\ Due(u)' = Due(u)
    BY <2>1, SameRun
  <2>3. TargetsOf(Watched, committed) \subseteq Target
    BY DEF TargetsOf
  <2>4. Shape'
    BY <2>1, <2>2, <2>3 DEF Inductive, Shape, relation
  <2>5. Locks'
    <3>1. \A u \in Task : Locked(u)' = Locked(u)
      BY <2>1, SameRun DEF Locked
    <3> QED
      BY <2>1, <2>2, <3>1 DEF Inductive, Locks
  <2>6. OneValue'
    BY <2>1, <2>2 DEF Inductive, OneValue, View
  <2> QED
    BY <2>4, <2>5, <2>6 DEF Inductive
<1> QED
  BY <1>1, <1>2, BeginKeeps, ReadsKeep, InsertsKeep, PointKeeps, DeletesKeep DEF Next, Step

\* A run begins with nothing done.
LEMMA InitInductive == Init => Inductive
<1> SUFFICES ASSUME Init
             PROVE  Inductive
  OBVIOUS
<1>1. /\ operation \in Pairings /\ beginning \in SUBSET Pairs /\ committed = beginning
      /\ stages = [t \in Task |-> <<>>] /\ status = [t \in Task |-> "ready"]
      /\ tx = [t \in Task |-> Nothing] /\ order = <<>> /\ cache = NoCache /\ reader = NoCache
      /\ (\E t \in Task : ~ManyToMany(t)) => OneEach(beginning)
  BY OperationsAssumption DEF Init, Pairs
<1>2. Shape
  BY <1>1 DEF Shape, Nothing
<1>3. Locks
  BY <1>1 DEF Locks, Locked, Nothing
<1>4. OneValue
  BY <1>1 DEF OneValue, OneEach, View, Nothing
<1> QED
  BY <1>2, <1>3, <1>4 DEF Inductive

\* The invariant holds.
LEMMA InductiveInvariant == Spec => []Inductive
BY InitInductive, InductiveStep, PTL DEF Spec

\* Whatever the tasks do to one relation, and whoever waits, fails or is ended: no
\* foreign key gets two values, in the database or in what a transaction sees, and
\* no transaction both adds and takes away a row.
THEOREM TypeCorrect == Spec => []TypeOK
<1>1. Inductive => TypeOK
  <2> SUFFICES ASSUME Inductive
               PROVE  TypeOK
    OBVIOUS
  <2>1. ASSUME NEW t \in Task, NEW i \in DOMAIN stages[t]
        PROVE  stages[t][i].do \in StageKinds
    <3>1. stages[t] \in Seq(Stages)
      BY DEF Inductive, Shape
    <3>2. stages[t][i] \in Stages
      BY <2>1, <3>1, LenProperties, ElementOfSeq
    <3> QED
      BY <3>2 DEF Stages
  <2>2. ToSet(order) \subseteq Task
    BY Members DEF Inductive, Shape
  <2> QED
    BY <2>1, <2>2 DEF Inductive, Shape, Locks, OneValue, TypeOK, Pairs
<1> QED
  BY <1>1, InductiveInvariant, PTL

-----------------------------------------------------------------------------
(* What is prefetched.                                                     *)

\* A task that goes on changes nothing for the others, and nothing for what is
\* prefetched if that is forgotten or if it has changed nothing itself.
LEMMA TaskGoesOn ==
  ASSUME Inductive, Current, NEW t \in Task, status[t] = "busy",
         UNCHANGED <<relation, status, committed, reader, stale>>,
         \A u \in Task \ {t} : tx'[u] = tx[u] /\ stages'[u] = stages[u],
         \/ cache' = NoCache /\ Me(t) = Watched
         \/ UNCHANGED cache /\ (Unchanged(t) => Unchanged(t)')
  PROVE  Current'
<1>1. Task' = Task /\ \A u \in Task : Me(u)' = Me(u)
  BY SameRun
<1> SUFFICES ASSUME \A u \in Task : Me(u) = Watched, ~stale
             PROVE  /\ (\E u \in Task : status'[u] = "busy") => reader' = NoCache
                    /\ \A u \in Task : status'[u] = "busy" => cache' = NoCache \/ Unchanged(u)'
                    /\ cache' # NoCache => cache' = TargetsOf(Watched, committed)'
                    /\ reader' # NoCache => reader' = TargetsOf(Watched, committed)'
  BY <1>1 DEF Current
<1>2. TargetsOf(Watched, committed)' = TargetsOf(Watched, committed)
  BY DEF TargetsOf
<1>3. \A u \in Task \ {t} : Unchanged(u)' = Unchanged(u)
  BY DEF Unchanged
<1> QED
  BY <1>2, <1>3 DEF Current

\* The cache is forgotten, or an operation reads what to remove and to add.
LEMMA ForgetCurrent ==
  ASSUME Inductive, Current, NEW t \in Task, RemovePrefetchedObjects(t) \/ ReadOld(t)
  PROVE  Current'
<1>1. PICK do \in {"forget", "read"}, more \in Seq(Due(t)) :
        /\ Runs(t, do) /\ Then(t, more)
        /\ UNCHANGED <<relation, status, tx, committed, reader, stale>>
        /\ do = "forget" => cache' = IF Me(t) = Watched THEN NoCache ELSE cache
        /\ do = "read" => UNCHANGED cache /\ more # <<>> /\ Head(more).do = "forget"
  <2>1. CASE RemovePrefetchedObjects(t)
    <3>1. <<>> \in Seq(Due(t))
      OBVIOUS
    <3> QED
      BY <2>1, <3>1 DEF RemovePrefetchedObjects
  <2>2. CASE ReadOld(t)
    <3>1. Runs(t, "read") /\ TargetsOf(Me(t), View(t)) \in SUBSET Target
      BY <2>2 DEF ReadOld, TargetsOf
    <3>2. PICK more : more = Difference(t, TargetsOf(Me(t), View(t)))
      OBVIOUS
    <3>3. more \in Seq(Due(t)) /\ more # <<>> /\ Head(more).do = "forget"
      BY <3>1, <3>2, Running, DifferenceDue
    <3> QED
      BY <2>2, <3>2, <3>3 DEF ReadOld, Statement
  <2> QED
    BY <2>1, <2>2
<1>2. stages[t] # <<>> /\ status[t] = "busy"
  BY <1>1, Running
<1>3. stages'[t] = more \o Tail(stages[t]) /\ \A u \in Task \ {t} : stages'[u] = stages[u]
  BY <1>1, <1>2, ThenDue DEF Inductive
<1>4. CASE do = "forget"
  <2>1. CASE Me(t) = Watched
    BY <1>1, <1>2, <1>3, <1>4, <2>1, TaskGoesOn
  <2>2. CASE Me(t) # Watched
    BY <1>1, <2>2, SameRun DEF Current
  <2> QED
    BY <2>1, <2>2
<1>5. CASE do = "read"
  <2>1. Tail(stages[t]) \in Seq(Due(t))
    BY <1>2, HeadTailProperties DEF Inductive, Shape
  <2>2. more \o Tail(stages[t]) # <<>> /\ Head(more \o Tail(stages[t])) = Head(more)
    BY <1>1, <1>5, <2>1, Before
  <2>3. Unchanged(t) => Unchanged(t)'
    BY <1>1, <1>3, <1>5, <2>2 DEF Unchanged, Begins
  <2> QED
    BY <1>1, <1>2, <1>3, <1>5, <2>3, TaskGoesOn
<1> QED
  BY <1>1, <1>4, <1>5

\* The other statements come after the cache is forgotten.
LEMMA StatementCurrent ==
  ASSUME Inductive, Current, NEW t \in Task, NEW do \in StageKinds \ {"forget", "read"},
         Runs(t, do), UNCHANGED Statement,
         \A u \in Task \ {t} : tx'[u] = tx[u] /\ stages'[u] = stages[u]
  PROVE  Current'
<1>1. stages[t] # <<>> /\ status[t] = "busy" /\ Head(stages[t]).do = do
  BY Running
<1>2. ~Unchanged(t)
  BY <1>1 DEF Unchanged, Begins
<1> QED
  BY <1>1, <1>2, TaskGoesOn DEF Statement

\* They all are such statements.
LEMMA StatementsCurrent ==
  ASSUME Inductive, Current, NEW t \in Task, UNCHANGED Statement,
         \/ ReadMissing(t) \/ Insert(t) \/ InsertMissing(t) \/ Point(t) \/ UnsetRows(t)
         \/ Find(t) \/ DeleteRows(t) \/ SaveNull(t)
  PROVE  Current'
<1>1. PICK do \in StageKinds \ {"forget", "read"} :
        /\ Runs(t, do) /\ \E more : Then(t, more)
        /\ UNCHANGED tx \/ \E add, del : Change(t, add, del)
  <2>1. ASSUME ReadMissing(t) \/ Find(t)
        PROVE  /\ Runs(t, "missing") \/ Runs(t, "find")
               /\ (\E more : Then(t, more)) /\ UNCHANGED tx
    BY <2>1 DEF ReadMissing, Find
  <2>2. ASSUME \/ Insert(t) \/ InsertMissing(t) \/ Point(t)
               \/ UnsetRows(t) \/ DeleteRows(t) \/ SaveNull(t)
        PROVE  \E do \in StageKinds \ {"forget", "read"} :
                 Runs(t, do) /\ (\E more : Then(t, more)) /\ (\E add, del : Change(t, add, del))
    <3>1. ASSUME InsertMissing(t)
          PROVE  /\ Runs(t, "insert_missing") /\ (\E more : Then(t, more))
                 /\ (\E add, del : Change(t, add, del))
      <4>1. ~Ends(t, "raised")
        <5>1. Runs(t, "insert_missing")
          BY <3>1 DEF InsertMissing
        <5>2. status[t] = "busy" /\ status \in [Task -> {"ready", "busy", "ok", "raised"}]
          BY <5>1, Running DEF Inductive, Shape
        <5>3. status' = status
          BY DEF Statement
        <5> QED
          BY <5>2, <5>3 DEF Ends
      <4> QED
        BY <3>1, <4>1 DEF InsertMissing
    <3>2. ASSUME Insert(t)
          PROVE  Runs(t, "insert") /\ (\E more : Then(t, more)) /\ (\E add, del : Change(t, add, del))
      BY <3>2 DEF Insert
    <3>3. ASSUME Point(t)
          PROVE  Runs(t, "point") /\ (\E more : Then(t, more)) /\ (\E add, del : Change(t, add, del))
      BY <3>3 DEF Point
    <3>4. ASSUME UnsetRows(t)
          PROVE  Runs(t, "unset") /\ (\E more : Then(t, more)) /\ (\E add, del : Change(t, add, del))
      BY <3>4 DEF UnsetRows
    <3>5. ASSUME DeleteRows(t)
          PROVE  Runs(t, "delete") /\ (\E more : Then(t, more)) /\ (\E add, del : Change(t, add, del))
      BY <3>5 DEF DeleteRows
    <3>6. ASSUME SaveNull(t)
          PROVE  Runs(t, "null") /\ (\E more : Then(t, more)) /\ (\E add, del : Change(t, add, del))
      BY <3>6 DEF SaveNull
    <3> QED
      BY <2>2, <3>1, <3>2, <3>3, <3>4, <3>5, <3>6 DEF StageKinds
  <2> QED
    BY <2>1, <2>2 DEF StageKinds
<1>2. /\ stages \in [Task -> Seq(Stages)]
      /\ tx \in [Task -> [add : SUBSET Pairs, del : SUBSET Pairs]]
  BY DEF Inductive, Shape
<1>3. \A u \in Task \ {t} : stages'[u] = stages[u]
  BY <1>1, <1>2 DEF Then
<1>4. \A u \in Task \ {t} : tx'[u] = tx[u]
  BY <1>1, <1>2 DEF Change
<1> QED
  BY <1>1, <1>3, <1>4, StatementCurrent

\* An operation that ends without having changed anything leaves the relation; one
\* that has, has forgotten the cache.
LEMMA EndCurrent ==
  ASSUME Inductive, Current, NEW t \in Task, status[t] = "busy", NEW how \in {"ok", "raised"},
         Ends(t, how), UNCHANGED committed \/ (committed' = View(t) /\ stages[t] = <<>>)
  PROVE  Current'
<1>1. /\ UNCHANGED relation /\ UNCHANGED <<cache, reader, stale>>
      /\ status' = [status EXCEPT ![t] = how] /\ stages' = [stages EXCEPT ![t] = <<>>]
      /\ tx' = [tx EXCEPT ![t] = Nothing]
  BY DEF Ends
<1>2. Task' = Task /\ \A u \in Task : Me(u)' = Me(u)
  BY <1>1, SameRun
<1>3. /\ tx \in [Task -> [add : SUBSET Pairs, del : SUBSET Pairs]]
      /\ status \in [Task -> {"ready", "busy", "ok", "raised"}]
      /\ stages \in [Task -> Seq(Stages)]
  BY DEF Inductive, Shape
<1>4. /\ status'[t] # "busy"
      /\ \A u \in Task \ {t} : status'[u] = status[u] /\ tx'[u] = tx[u] /\ stages'[u] = stages[u]
  BY <1>1, <1>3
<1>5. \A u \in Task \ {t} : Unchanged(u)' = Unchanged(u)
  BY <1>4 DEF Unchanged
<1> SUFFICES ASSUME \A u \in Task : Me(u) = Watched, ~stale
             PROVE  /\ (\E u \in Task : status'[u] = "busy") => reader' = NoCache
                    /\ \A u \in Task : status'[u] = "busy" => cache' = NoCache \/ Unchanged(u)'
                    /\ cache' # NoCache => cache' = TargetsOf(Watched, committed)'
                    /\ reader' # NoCache => reader' = TargetsOf(Watched, committed)'
  BY <1>1, <1>2 DEF Current
<1>6. reader = NoCache /\ (cache = NoCache \/ Unchanged(t))
  BY DEF Current
<1>7. Unchanged(t) => committed' = committed
  <2>1. (committed \ {}) \union {} = committed
    OBVIOUS
  <2>2. Unchanged(t) => View(t) = committed
    BY <2>1 DEF Unchanged, View, Nothing
  <2> QED
    BY <2>2
<1>8. cache # NoCache => cache = TargetsOf(Watched, committed) /\ committed' = committed
  BY <1>6, <1>7 DEF Current
<1>9. cache' # NoCache => cache' = TargetsOf(Watched, committed)'
  BY <1>1, <1>8 DEF TargetsOf
<1> QED
  BY <1>1, <1>4, <1>5, <1>6, <1>9 DEF Current

\* One that begins has changed nothing yet, and nobody is reading.
LEMMA BeginCurrent ==
  ASSUME Inductive, Current, NEW t \in Task, Begin(t)
  PROVE  Current'
<1>1. /\ UNCHANGED <<relation, tx, committed, cache, reader>> /\ status[t] = "ready"
      /\ \/ status' = [status EXCEPT ![t] = "raised"] /\ UNCHANGED <<stages, stale>>
         \/ /\ status' = [status EXCEPT ![t] = "busy"]
            /\ stages' = [stages EXCEPT ![t] = Script(t)]
            /\ stale' = (stale \/ reader # NoCache)
  BY DEF Begin
<1>2. Task' = Task /\ \A u \in Task : Me(u)' = Me(u)
  BY <1>1, SameRun
<1>3. /\ status \in [Task -> {"ready", "busy", "ok", "raised"}]
      /\ stages \in [Task -> Seq(Stages)] /\ operation \in Pairings
      /\ tx[t] = Nothing
  BY <1>1 DEF Inductive, Shape, Locks
<1>4. \A u \in Task \ {t} : status'[u] = status[u] /\ stages'[u] = stages[u]
  BY <1>1, <1>3
<1>5. \A u \in Task \ {t} : Unchanged(u)' = Unchanged(u)
  BY <1>1, <1>4 DEF Unchanged
<1>6. PICK s : s = Script(t) /\ Begins(s)
  BY <1>3, ScriptDue
<1>7. status'[t] = "busy" => Unchanged(t)' /\ (~stale' => ~stale /\ reader = NoCache)
  BY <1>1, <1>3, <1>6 DEF Unchanged
<1>8. ~stale' => ~stale
  BY <1>1
<1>9. TargetsOf(Watched, committed)' = TargetsOf(Watched, committed)
  BY <1>1 DEF TargetsOf
<1> SUFFICES ASSUME \A u \in Task : Me(u) = Watched, ~stale'
             PROVE  /\ (\E u \in Task : status'[u] = "busy") => reader' = NoCache
                    /\ \A u \in Task : status'[u] = "busy" => cache' = NoCache \/ Unchanged(u)'
                    /\ cache' # NoCache => cache' = TargetsOf(Watched, committed)'
                    /\ reader' # NoCache => reader' = TargetsOf(Watched, committed)'
  BY <1>2 DEF Current
<1> QED
  BY <1>1, <1>4, <1>5, <1>7, <1>8, <1>9 DEF Current

\* A reader reads while nobody writes, and nobody begins until it is done, unless
\* they overlap.
LEMMA PrefetchCurrent ==
  ASSUME Inductive, Current, Prefetch \/ Prefetched \/ UNCHANGED vars
  PROVE  Current'
<1>1. /\ UNCHANGED relation /\ UNCHANGED <<stages, status, tx, committed>>
      /\ \/ /\ UNCHANGED cache /\ reader' = TargetsOf(Watched, committed)
            /\ stale' = (stale \/ Busy)
         \/ reader # NoCache /\ cache' = reader /\ reader' = NoCache /\ UNCHANGED stale
         \/ UNCHANGED <<cache, reader, stale>>
  BY DEF Prefetch, Prefetched, vars, writers
<1>2. Task' = Task /\ \A u \in Task : Me(u)' = Me(u)
  BY <1>1, SameRun
<1>3. /\ TargetsOf(Watched, committed)' = TargetsOf(Watched, committed)
      /\ \A u : Unchanged(u)' = Unchanged(u)
  BY <1>1 DEF TargetsOf, Unchanged
<1> SUFFICES ASSUME \A u \in Task : Me(u) = Watched, ~stale'
             PROVE  /\ (\E u \in Task : status'[u] = "busy") => reader' = NoCache
                    /\ \A u \in Task : status'[u] = "busy" => cache' = NoCache \/ Unchanged(u)'
                    /\ cache' # NoCache => cache' = TargetsOf(Watched, committed)'
                    /\ reader' # NoCache => reader' = TargetsOf(Watched, committed)'
  BY <1>2 DEF Current
<1>4. ~stale
  BY <1>1
<1>5. CASE UNCHANGED cache /\ reader' = TargetsOf(Watched, committed) /\ stale' = (stale \/ Busy)
  <2>1. \A u \in Task : status[u] # "busy"
    BY <1>5 DEF Busy
  <2> QED
    BY <1>1, <1>3, <1>4, <1>5, <2>1 DEF Current
<1>6. CASE reader # NoCache /\ cache' = reader /\ reader' = NoCache
  BY <1>1, <1>3, <1>4, <1>6 DEF Current
<1>7. CASE UNCHANGED <<cache, reader, stale>>
  BY <1>1, <1>3, <1>4, <1>7 DEF Current
<1> QED
  BY <1>1, <1>5, <1>6, <1>7

\* Every step keeps what is prefetched current.
LEMMA CurrentStep ==
  ASSUME Inductive, Current, [Next]_vars
  PROVE  Current'
<1>1. ASSUME NEW t \in Task, Commit(t) \/ Fail(t) \/ Deadlocked(t)
      PROVE  Current'
  <2>1. PICK how \in {"ok", "raised"} :
          /\ status[t] = "busy" /\ Ends(t, how)
          /\ UNCHANGED committed \/ (committed' = View(t) /\ stages[t] = <<>>)
    BY <1>1 DEF Commit, Fail, Deadlocked
  <2> QED
    BY <2>1, EndCurrent
<1>2. ASSUME NEW t \in Task, ReadMissing(t) \/ Insert(t) \/ Point(t) \/ UnsetRows(t)
                             \/ Find(t) \/ DeleteRows(t) \/ SaveNull(t)
      PROVE  Current'
  <2>1. UNCHANGED Statement
    BY <1>2 DEF ReadMissing, Insert, Point, UnsetRows, Find, DeleteRows, SaveNull, Statement
  <2> QED
    BY <1>2, <2>1, StatementsCurrent
<1>3. ASSUME NEW t \in Task, InsertMissing(t)
      PROVE  Current'
  <2>1. CASE UNCHANGED Statement
    BY <1>3, <2>1, StatementsCurrent
  <2>2. CASE ~UNCHANGED Statement
    <3>1. Runs(t, "insert_missing") /\ Ends(t, "raised") /\ UNCHANGED committed
      BY <1>3, <2>2 DEF InsertMissing
    <3>2. status[t] = "busy"
      BY <3>1, Running
    <3> QED
      BY <3>1, <3>2, EndCurrent
  <2> QED
    BY <2>1, <2>2
<1> QED
  BY <1>1, <1>2, <1>3, BeginCurrent, ForgetCurrent, PrefetchCurrent DEF Next, Step

\* However many tasks change the relation of the watched instance, in whatever order
\* their statements run and however they end: once all are done, the objects that are
\* prefetched are those of the relation, unless a prefetch overlapped with a write.
THEOREM CacheStaysCurrent == Spec => []CacheIsCurrent
<1>1. Init => Current
  BY DEF Init, Current
<1>2. Inductive /\ Current /\ [Next]_vars => Current'
  BY CurrentStep
<1>3. Current => CacheIsCurrent
  BY DEF Current, CacheIsCurrent
<1> QED
  BY <1>1, <1>2, <1>3, InductiveInvariant, PTL DEF Spec

=============================================================================
