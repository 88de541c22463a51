--------------------------- MODULE RelatedManagers ---------------------------
(***************************************************************************)
(* aadd, aremove, aclear and aset of the related managers, run by several  *)
(* tasks on connections of their own, while another task prefetches the    *)
(* relation into the cache of the instance.  A relation is a set of pairs  *)
(* <<source, target>>: the rows of a through table, or the objects whose   *)
(* foreign key points at an instance.                                      *)
(*                                                                         *)
(* An operation is a sequence of stages, most of them one statement.  The  *)
(* database runs at READ COMMITTED: a statement sees what is committed and *)
(* what its own transaction did, and is one step, taken when no other      *)
(* transaction has changed a row it needs.                                 *)
(***************************************************************************)
EXTENDS Naturals, Sequences, FiniteSets, SequencesExt

CONSTANTS
  Source, Target,  \* the objects of both ends; the same set for a symmetrical relation
  Operations,      \* what a task may be asked to do, each a record:
                   \*   manager  "fast", "signals", "custom" (many to many, by its add
                   \*            plan), "symmetrical", "bulk", "each" (reverse foreign
                   \*            key, bulk=...), "required" (its column is not null)
                   \*   do       "aadd", "aremove", "aclear", "aset", "aset_clear"
                   \*   instance the source the manager belongs to
                   \*   objs     its arguments, a set of targets
  Pairings,        \* the operations of the tasks of a run, sequences of operations
  Beginnings,      \* the relations a run may begin with
  Watched          \* the instance the reader prefetches, shared with the writers

\* The rows of a relation are those of a through table, or have a foreign key each.
Through == {"fast", "signals", "custom", "symmetrical"}
Managers == Through \union {"bulk", "each", "required"}

\* Operations of one run work on one relation.
ASSUME OperationsAssumption ==
  /\ Source \subseteq Nat \ {0} /\ Target \subseteq Nat \ {0} /\ Watched \in Source
  /\ IsFiniteSet(Source) /\ IsFiniteSet(Target)
  /\ Operations \subseteq [manager : Managers, instance : Source, objs : SUBSET Target,
                           do : {"aadd", "aremove", "aclear", "aset", "aset_clear"}]
  /\ \A op \in Operations : op.manager = "symmetrical" => Source = Target
  /\ Pairings \subseteq Seq(Operations) /\ Beginnings \subseteq SUBSET (Source \X Target)
  /\ \A pairing \in Pairings : \A t, u \in DOMAIN pairing :
       pairing[t].manager \in Through <=> pairing[u].manager \in Through

VARIABLES
  operation, beginning,  \* the run, never change
  stages,     \* what each task still has to do
  status,     \* "ready", "busy", "ok" or "raised", of each task
  tx,         \* the rows each task's transaction has added and taken away
  committed,  \* the relation
  order,      \* the tasks whose operation has ended, in order
  overlap,    \* an operation began while another was busy
  cache,      \* the prefetched targets of the watched instance, NoCache for none
  reader,     \* what the reader has read and not yet put into the cache
  stale       \* a read and a write of the watched instance have overlapped

relation == <<operation, beginning>>
writers == <<stages, status, tx, committed, order, overlap>>
vars == <<relation, writers, cache, reader, stale>>

Task == DOMAIN operation
NoCache == {0}
Nothing == [add |-> {}, del |-> {}]

Manager(t) == operation[t].manager
Me(t) == operation[t].instance
ManyToMany(t) == Manager(t) \in Through

Mirror(pairs) == {<<p[2], p[1]>> : p \in pairs}

\* A foreign key holds one value.
OneEach(pairs) == \A p, q \in pairs : p[2] = q[2] => p = q

Init ==
  /\ operation \in Pairings /\ beginning \in Beginnings
  /\ (\E t \in Task : ~ManyToMany(t)) => OneEach(beginning)
  /\ (\E t \in Task : Manager(t) = "symmetrical") => Mirror(beginning) = beginning
  /\ stages = [t \in Task |-> <<>>] /\ status = [t \in Task |-> "ready"]
  /\ tx = [t \in Task |-> Nothing] /\ committed = beginning
  /\ order = <<>> /\ overlap = FALSE
  /\ cache = NoCache /\ reader = NoCache /\ stale = FALSE

-----------------------------------------------------------------------------
(* The pairs an operation is about.                                        *)

TargetsOf(s, pairs) == {o \in Target : <<s, o>> \in pairs}

\* _build_remove_filters(): a symmetrical relation is removed both ways.
RemoveFilters(t, objs) ==
  LET there == {Me(t)} \X objs IN
  IF Manager(t) = "symmetrical" THEN there \union Mirror(there) ELSE there

Stage(do, pairs) == <<[do |-> do, pairs |-> pairs]>>
Forget == Stage("forget", {})

\* _aadd_items(): the mirror never sends signals, so it is always added fast.
AddItems(t, objs) ==
  LET there == {Me(t)} \X objs IN
  IF objs = {} THEN <<>>
    ELSE Stage(IF Manager(t) \in {"signals", "custom"} THEN "missing" ELSE "insert", there)
         \o (IF Manager(t) = "symmetrical" THEN Stage("insert", Mirror(there)) ELSE <<>>)

\* A statement for each of the pairs.
OneByOne(do, pairs) ==
  LET each == SetToSeq(pairs) IN [i \in DOMAIN each |-> [do |-> do, pairs |-> {each[i]}]]

\* Reverse foreign key: one UPDATE of all objects, or a save of each.
PointEach(t, objs) ==
  IF Manager(t) = "each" THEN OneByOne("point", {Me(t)} \X objs)
                         ELSE Stage("point", {Me(t)} \X objs)

AAdd(t, objs) == Forget \o (IF ManyToMany(t) THEN AddItems(t, objs) ELSE PointEach(t, objs))

\* aremove() and aclear() of a reverse foreign key end in _aclear().
Unset(t, objs) == Stage(IF Manager(t) = "each" THEN "find" ELSE "unset", {Me(t)} \X objs)

ARemove(t, objs) ==
  IF ManyToMany(t)
    THEN Forget \o (IF objs = {} THEN <<>> ELSE Stage("find", RemoveFilters(t, objs)))
    ELSE IF objs = {} THEN <<>> ELSE Forget \o Unset(t, objs)

AClear(t) ==
  Forget \o (IF ManyToMany(t) THEN Stage("find", RemoveFilters(t, Target)) ELSE Unset(t, Target))

\* The aset() of a column that is not null adds, whatever clear is.
OnlyAdds(op) == op.do = "aadd" \/ (op.do # "aremove" /\ op.manager = "required")

Script(t) ==
  LET op == operation[t] IN
  IF OnlyAdds(op) THEN AAdd(t, op.objs)
  ELSE
  CASE op.do = "aremove" -> ARemove(t, op.objs)
    [] op.do = "aclear" -> AClear(t)
    [] op.do = "aset" -> Stage("read", {})
    [] op.do = "aset_clear" -> AClear(t) \o AAdd(t, op.objs)

\* Mutant of Difference: every object is added, nothing is removed.
DifferenceAdds(t, old) == AAdd(t, operation[t].objs)

\* aset() removes what it read and was not given, and adds what it did not read.
Difference(t, old) == ARemove(t, old \ operation[t].objs) \o AAdd(t, operation[t].objs \ old)

-----------------------------------------------------------------------------
(* The database.                                                           *)

View(t) == (committed \ tx[t].del) \union tx[t].add

\* A through row is locked by itself, a foreign key with the row it is in.
Key(t, p) == IF ManyToMany(t) THEN p ELSE p[2]
Locked(t) == {Key(t, p) : p \in tx[t].add \union tx[t].del}

\* The rows a stage changes.
Needs(t) ==
  LET stage == Head(stages[t]) IN
  CASE stage.do \in {"insert", "insert_missing", "point", "null"} -> {Key(t, p) : p \in stage.pairs}
    [] stage.do \in {"unset", "delete"} -> {Key(t, p) : p \in stage.pairs \intersect View(t)}
    [] stage.do \in {"forget", "read", "missing", "find"} -> {}

WaitsFor(t, u) == u # t /\ status[u] = "busy" /\ Needs(t) \intersect Locked(u) # {}
Runs(t, do) ==
  /\ status[t] = "busy" /\ stages[t] # <<>> /\ Head(stages[t]).do = do
  /\ \A u \in Task : ~WaitsFor(t, u)

Change(t, add, del) ==
  tx' = [tx EXCEPT ![t] = [add |-> (@.add \ del) \union add, del |-> (@.del \union del) \ add]]

Then(t, more) == stages' = [stages EXCEPT ![t] = more \o Tail(@)]

Ends(t, how) ==
  /\ status' = [status EXCEPT ![t] = how] /\ order' = Append(order, t)
  /\ stages' = [stages EXCEPT ![t] = <<>>] /\ tx' = [tx EXCEPT ![t] = Nothing]
  /\ UNCHANGED <<relation, overlap, cache, reader, stale>>

-----------------------------------------------------------------------------
(* The operations.                                                         *)

\* aremove() raises for an object whose foreign key, as the program has it in
\* memory, does not point at the instance.
NotRelated(t) ==
  /\ operation[t].do = "aremove" /\ ~ManyToMany(t)
  /\ \E o \in operation[t].objs : <<Me(t), o>> \notin beginning

Begin(t) ==
  /\ status[t] = "ready"
  /\ IF NotRelated(t)
       THEN /\ status' = [status EXCEPT ![t] = "raised"] /\ order' = Append(order, t)
            /\ UNCHANGED <<stages, overlap, stale>>
       ELSE /\ status' = [status EXCEPT ![t] = "busy"] /\ UNCHANGED order
            /\ stages' = [stages EXCEPT ![t] = Script(t)]
            /\ overlap' = (overlap \/ \E u \in Task : status[u] = "busy")
            /\ stale' = (stale \/ reader # NoCache)
  /\ UNCHANGED <<relation, tx, committed, cache, reader>>

\* Mutant of RemovePrefetchedObjects: the cache is kept.
RemovePrefetchedObjectsNever(t) ==
  Runs(t, "forget") /\ Then(t, <<>>)
  /\ UNCHANGED <<relation, status, tx, committed, order, overlap, cache, reader, stale>>

RemovePrefetchedObjects(t) ==
  /\ Runs(t, "forget") /\ Then(t, <<>>)
  /\ cache' = IF Me(t) = Watched THEN NoCache ELSE cache
  /\ UNCHANGED <<relation, status, tx, committed, order, overlap, reader, stale>>

Statement == <<relation, status, committed, order, overlap, cache, reader, stale>>

ReadOld(t) ==
  /\ Runs(t, "read") /\ Then(t, Difference(t, TargetsOf(Me(t), View(t))))
  /\ UNCHANGED <<Statement, tx>>

ReadMissing(t) ==
  /\ Runs(t, "missing")
  /\ Then(t, Stage("insert_missing", Head(stages[t]).pairs \ View(t)))
  /\ UNCHANGED <<Statement, tx>>

\* ON CONFLICT DO NOTHING leaves a row that is there, and unlocked.
Insert(t) ==
  /\ Runs(t, "insert") /\ Then(t, <<>>)
  /\ Change(t, Head(stages[t]).pairs \ View(t), {})
  /\ UNCHANGED Statement

\* A through model of the project does not ignore conflicts.
InsertMissing(t) ==
  LET pairs == Head(stages[t]).pairs IN
  /\ Runs(t, "insert_missing")
  /\ IF Manager(t) = "custom" /\ pairs \intersect View(t) # {}
       THEN Ends(t, "raised") /\ UNCHANGED committed
       ELSE Then(t, <<>>) /\ Change(t, pairs \ View(t), {}) /\ UNCHANGED Statement

\* Mutant of Point: the object keeps its old foreign key.
PointAdds(t) ==
  Runs(t, "point") /\ Then(t, <<>>) /\ Change(t, Head(stages[t]).pairs, {}) /\ UNCHANGED Statement

\* aupdate() of the foreign key, or the asave() of one object.
Point(t) ==
  LET pairs == Head(stages[t]).pairs
      moved == {p[2] : p \in pairs}
  IN
  /\ Runs(t, "point") /\ Then(t, <<>>)
  /\ Change(t, pairs, {p \in View(t) : p[2] \in moved} \ pairs)
  /\ UNCHANGED Statement

UnsetRows(t) ==
  /\ Runs(t, "unset") /\ Then(t, <<>>)
  /\ Change(t, {}, Head(stages[t]).pairs \intersect View(t))
  /\ UNCHANGED Statement

\* adelete() of through rows reads them before it deletes them by primary key;
\* _aclear(bulk=False) reads the objects before it saves each of them.
Find(t) ==
  LET found == Head(stages[t]).pairs \intersect View(t) IN
  /\ Runs(t, "find")
  /\ Then(t, IF ManyToMany(t) THEN Stage("delete", found) ELSE OneByOne("null", found))
  /\ UNCHANGED <<Statement, tx>>

DeleteRows(t) ==
  /\ Runs(t, "delete") /\ Then(t, <<>>)
  /\ Change(t, {}, Head(stages[t]).pairs \intersect View(t))
  /\ UNCHANGED Statement

\* asave(update_fields=[...]) asks for the primary key only.
SaveNull(t) ==
  LET saved == {p[2] : p \in Head(stages[t]).pairs} IN
  /\ Runs(t, "null") /\ Then(t, <<>>)
  /\ Change(t, {}, {p \in View(t) : p[2] \in saved})
  /\ UNCHANGED Statement

Commit(t) ==
  /\ status[t] = "busy" /\ stages[t] = <<>>
  /\ committed' = View(t) /\ Ends(t, "ok")

\* Mutant of Fail: the statements are not in one transaction.
FailKeepingWork(t) ==
  /\ status[t] = "busy"
  /\ committed' = View(t) /\ Ends(t, "raised")

\* A statement or the COMMIT fails, or the task is cancelled: aatomic() takes
\* everything back.
Fail(t) ==
  /\ status[t] = "busy"
  /\ Ends(t, "raised") /\ UNCHANGED committed

\* Mutant of Deadlocked: nobody is told.
DeadlockedNever(t) == FALSE

\* PostgreSQL ends one of two transactions that wait for each other.
Deadlocked(t) ==
  /\ status[t] = "busy" /\ stages[t] # <<>>
  /\ \E u \in Task : WaitsFor(t, u) /\ stages[u] # <<>> /\ WaitsFor(u, t)
  /\ Ends(t, "raised") /\ UNCHANGED committed

\* aprefetch_related_objects() on the watched instance, which asks the database
\* only when nothing is cached.
Busy == \E t \in Task : status[t] = "busy" /\ Me(t) = Watched
Prefetch ==
  /\ reader = NoCache /\ cache = NoCache /\ Len(order) < Len(operation)
  /\ reader' = TargetsOf(Watched, committed)
  /\ stale' = (stale \/ Busy)
  /\ UNCHANGED <<relation, writers, cache>>

Prefetched ==
  /\ reader # NoCache
  /\ cache' = reader /\ reader' = NoCache
  /\ UNCHANGED <<relation, writers, stale>>

Step(t) ==
  \/ Begin(t) \/ RemovePrefetchedObjects(t) \/ ReadOld(t) \/ ReadMissing(t) \/ Insert(t)
  \/ InsertMissing(t) \/ Point(t) \/ UnsetRows(t) \/ Find(t) \/ DeleteRows(t) \/ SaveNull(t)
  \/ Commit(t) \/ Deadlocked(t)

Next == (\E t \in Task : Step(t) \/ Fail(t)) \/ Prefetch \/ Prefetched

Spec == Init /\ [][Next]_vars

\* The server answers, and its deadlock detector runs.
FairSpec == Spec /\ WF_vars(\E t \in Task : Step(t))

-----------------------------------------------------------------------------
StageKinds == {"forget", "read", "missing", "insert", "insert_missing", "point", "unset",
               "find", "delete", "null"}

\* Every variable keeps its kind, an object has one foreign key, and what a
\* transaction takes away it does not add.
TypeOK ==
  /\ committed \subseteq Source \X Target
  /\ \A t \in Task :
       /\ status[t] \in {"ready", "busy", "ok", "raised"}
       /\ tx[t].add \subseteq Source \X Target /\ tx[t].del \subseteq Source \X Target
       /\ tx[t].add \intersect tx[t].del = {}
       /\ \A i \in DOMAIN stages[t] : stages[t][i].do \in StageKinds
       /\ ~ManyToMany(t) => OneEach(View(t))
  /\ ToSet(order) \subseteq Task
  /\ cache = NoCache \/ cache \subseteq Target

\* What an operation promises, on a relation nobody else touches.
Promised(t, pairs) ==
  LET op == operation[t]
      given == IF op.manager = "symmetrical"
                 THEN ({Me(t)} \X op.objs) \union Mirror({Me(t)} \X op.objs)
                 ELSE {Me(t)} \X op.objs
      stolen == IF ManyToMany(t) THEN {} ELSE {p \in pairs : p[2] \in op.objs}
  IN CASE status[t] # "ok" -> pairs
       [] status[t] = "ok" /\ OnlyAdds(op) ->
            (pairs \ stolen) \union given
       [] status[t] = "ok" /\ op.do = "aremove" -> pairs \ given
       [] OTHER ->
            (((pairs \ RemoveFilters(t, Target)) \ stolen)
               \union IF op.do = "aclear" THEN {} ELSE given)

Quiet == \A t \in Task : status[t] \in {"ok", "raised"}

\* Operations that do not overlap keep their promises one after the other, and
\* one that fails or is cancelled anywhere leaves nothing behind.
OperationsCompose ==
  ~overlap /\ (\A t \in Task : status[t] # "busy") =>
    committed = FoldLeft(LAMBDA pairs, t : Promised(t, pairs), beginning, order)

\* A row that an overlapping operation leaves or takes away is the work of one
\* of them: some order of them has that outcome.  (The outcomes of two rows may
\* need two orders: aset() is not isolated.)  aclear(bulk=False) is left out:
\* it also takes an object that another instance has got meanwhile.
EveryRowIsExplained ==
  Quiet /\ (\A t \in Task : Manager(t) # "each") =>
    \A p \in Source \X Target : \E s \in SetToSeqs(Task) :
      p \in committed <=>
        p \in FoldLeft(LAMBDA pairs, t : Promised(t, pairs), beginning, s)

\* The prefetched objects of an instance are those of the relation once nobody
\* writes through it, unless a prefetch and a write have overlapped.
CacheIsCurrent ==
  Quiet /\ (\A t \in Task : Me(t) = Watched) /\ ~stale /\ cache # NoCache =>
    cache = TargetsOf(Watched, committed)

\* Operations that wait for each other's rows all end.
EveryOperationEnds == <>Quiet

=============================================================================
