-------------------------------- MODULE Writes --------------------------------
(***************************************************************************)
(* The writing methods of querysets and instances, run by several tasks on *)
(* connections of their own against one table.  The table has a unique     *)
(* column, the key, by which aget() and filter() find a row, and an        *)
(* automatic primary key, by which instances are saved and deleted.        *)
(*                                                                         *)
(* An operation is a sequence of stages, one statement each.  The database *)
(* runs at READ COMMITTED: a statement sees what is committed and what its *)
(* own transaction did, and is one step, taken when no other transaction   *)
(* has changed a row it needs.                                             *)
(***************************************************************************)
EXTENDS Integers, Sequences, FiniteSets, SequencesExt

CONSTANTS
  Key,         \* the values of the unique column
  Operations,  \* what a task may be asked to do, each a record:
               \*   do     the method, see Methods
               \*   keys   the rows it is about, in the order given
               \*   batch  how many of them fit in a statement
               \*   block  the caller is inside aatomic()
  Mixes,       \* the operations of the tasks of a run, sequences of operations
  Beginnings   \* the keys whose rows a run may begin with, sets of keys

\* Instances were loaded before the run (with primary key 0), except those that
\* acreate() and abulk_create() insert.
Methods == {"aget_or_create", "aupdate_or_create", "acreate",
            "asave", "asave_fields", "asave_select", "asave_empty", \* update_fields or
              \* force_update, select_on_save, a model of nothing but a key
            "asave_inherited", "asave_inherited_fields",  \* multi-table inheritance
            "abulk_create", "abulk_create_ignore", "abulk_create_update",
            "aupdate", "abulk_update", "adelete", "adelete_instance"}

ASSUME OperationsAssumption ==
  /\ Operations \subseteq [do : Methods, keys : Seq(Key), batch : Nat \ {0}, block : BOOLEAN]
  /\ \A op \in Operations : op.keys # <<>>
  /\ Mixes \subseteq Seq(Operations) /\ Beginnings \subseteq SUBSET Key

VARIABLES
  operation, beginning,  \* the run, never change
  stages,     \* what each task still has to do
  status,     \* "ready", "busy", "ok", "raised" (by the method) or "failed"
  answer,     \* whether the rows were "found", were "created", or "none"
  tx,         \* what each task's open transaction wrote, a function of keys
  table,      \* what is committed, by key
  earlier     \* the tasks that had ended when a task began

run == <<operation, beginning>>
vars == <<run, stages, status, answer, tx, table, earlier>>

Task == DOMAIN operation
Absent == [pk |-> 0, by |-> -1]

\* A row carries its primary key and the task that wrote its other columns: 0 for
\* the beginning.  A task inserts a key at most once, so its number tells the
\* primary keys of a key apart.
Row(pk, by) == [pk |-> pk, by |-> by]

Do(t) == operation[t].do
Keys(t) == ToSet(operation[t].keys)
Saves == {"asave", "asave_select", "asave_empty"}

\* Methods that open a transaction; the rest is in autocommit mode, unless their
\* caller has opened one.
Atomic(t) ==
  \/ operation[t].block
  \/ Do(t) \in {"aget_or_create", "aupdate_or_create", "abulk_create", "abulk_create_ignore",
                "abulk_create_update", "abulk_update", "adelete", "asave_inherited",
                "asave_inherited_fields"}

Init ==
  /\ operation \in Mixes /\ beginning \in Beginnings
  /\ stages = [t \in Task |-> <<>>] /\ status = [t \in Task |-> "ready"]
  /\ answer = [t \in Task |-> "none"]
  /\ tx = [t \in Task |-> <<>>]
  /\ table = [k \in Key |-> IF k \in beginning THEN Row(0, 0) ELSE Absent]
  /\ earlier = [t \in Task |-> {}]

-----------------------------------------------------------------------------
(* What each method has to do.                                             *)

Stage(do, rows) == <<[do |-> do, rows |-> rows]>>
PrimaryKeys == {0} \union Task

Own(t, pk) == Keys(t) \X {pk}

\* _batched_insert() and abulk_update() go through the objects in their order.
Batches(t, do, pk) ==
  LET n == operation[t].batch
      keys == operation[t].keys
      Batch(i) == SubSeq(keys, 1 + (i - 1) * n, IF i * n < Len(keys) THEN i * n ELSE Len(keys))
  IN [i \in 1 .. (Len(keys) + n - 1) \div n |-> [do |-> do, rows |-> ToSet(Batch(i)) \X {pk}]]

AGetOrCreate(t) == Stage("get", Own(t, 0))
ACreate(t) == Stage("insert", Own(t, t))
ABulkCreate(t) == Batches(t, "insert", t)
ABulkUpdate(t) == Batches(t, "update", 0)
AUpdate(t) == Stage("update", Keys(t) \X PrimaryKeys)
ADelete(t) == Stage("find", Keys(t) \X PrimaryKeys)
ADeleteInstance(t) == Stage("delete", Own(t, 0))

ASave(t) ==
  CASE Do(t) \in {"asave", "asave_fields", "asave_inherited_fields"} -> Stage("update", Own(t, 0))
    [] Do(t) \in {"asave_select", "asave_empty"} -> Stage("exists", Own(t, 0))
    [] Do(t) = "asave_inherited" -> Stage("parent", Own(t, 0))

Script(t) ==
  CASE Do(t) \in {"aget_or_create", "aupdate_or_create"} -> AGetOrCreate(t)
    [] Do(t) = "acreate" -> ACreate(t)
    [] Do(t) \in {"abulk_create", "abulk_create_ignore", "abulk_create_update"} -> ABulkCreate(t)
    [] Do(t) = "abulk_update" -> ABulkUpdate(t)
    [] Do(t) = "aupdate" -> AUpdate(t)
    [] Do(t) = "adelete" -> ADelete(t)
    [] Do(t) = "adelete_instance" -> ADeleteInstance(t)
    [] OTHER -> ASave(t)

-----------------------------------------------------------------------------
(* The database.                                                           *)

\* new in the place of old, where new is defined.
Over(new, old) ==
  [k \in DOMAIN new \union DOMAIN old |-> IF k \in DOMAIN new THEN new[k] ELSE old[k]]

View(t) == Over(tx[t], table)

KeysOf(rows) == {r[1] : r \in rows}
There(t, rows) == {r \in rows : View(t)[r[1]] # Absent /\ View(t)[r[1]].pk = r[2]}
Taken(t, rows) == {k \in KeysOf(rows) : View(t)[k] # Absent}

\* The keys whose rows a stage changes: the unique index makes an insert wait for
\* whoever writes its key.
Needs(t) ==
  LET stage == Head(stages[t]) IN
  CASE stage.do = "insert" -> KeysOf(stage.rows)
    [] stage.do \in {"update", "delete"} -> KeysOf(There(t, stage.rows))
    [] OTHER -> {}

WaitsFor(t, u) == u # t /\ status[u] = "busy" /\ Needs(t) \intersect DOMAIN tx[u] # {}

Runs(t, do) ==
  /\ status[t] = "busy" /\ stages[t] # <<>> /\ Head(stages[t]).do = do
  /\ \A u \in Task : ~WaitsFor(t, u)

Rows(t) == Head(stages[t]).rows
Then(t, more) == stages' = [stages EXCEPT ![t] = more \o Tail(@)]
Found(t, how) == answer' = [answer EXCEPT ![t] = how]

\* The statement writes new, a function of keys.
Write(t, new) ==
  IF Atomic(t)
    THEN tx' = [tx EXCEPT ![t] = Over(new, @)] /\ UNCHANGED table
    ELSE table' = Over(new, table) /\ UNCHANGED tx

Ends(t, how) ==
  /\ status' = [status EXCEPT ![t] = how]
  /\ stages' = [stages EXCEPT ![t] = <<>>] /\ tx' = [tx EXCEPT ![t] = <<>>]
  /\ UNCHANGED <<run, earlier>>

Raise(t) == Ends(t, "raised") /\ UNCHANGED <<answer, table>>
Goes == UNCHANGED <<run, status, earlier>>

-----------------------------------------------------------------------------
(* The statements, and what follows them.                                  *)

Begin(t) ==
  /\ status[t] = "ready"
  /\ status' = [status EXCEPT ![t] = "busy"]
  /\ stages' = [stages EXCEPT ![t] = Script(t)]
  /\ earlier' = [earlier EXCEPT ![t] = {u \in Task : status[u] \in {"ok", "raised", "failed"}}]
  /\ UNCHANGED <<run, answer, tx, table>>

\* aget() of the row; aupdate_or_create() goes on to update it by its primary key.
FoundIt(t) ==
  LET k == Head(operation[t].keys) IN
  /\ Found(t, "found")
  /\ Then(t, IF Do(t) = "aupdate_or_create" THEN Stage("update", {<<k, View(t)[k].pk>>}) ELSE <<>>)
  /\ UNCHANGED <<tx, table>> /\ Goes

Get(t) ==
  /\ Runs(t, "get")
  /\ IF Taken(t, Rows(t)) # {}
       THEN FoundIt(t)
       ELSE /\ Then(t, Stage("insert", Own(t, t)))
            /\ UNCHANGED <<answer, tx, table>> /\ Goes

\* After the IntegrityError: the row may be gone again.
GetAgain(t) ==
  /\ Runs(t, "get_again")
  /\ IF Taken(t, Rows(t)) # {} THEN FoundIt(t) ELSE Raise(t)

\* Mutant of InsertRefused: the error is raised at once.
InsertRefusedAtOnce(t) == Raise(t)

\* The unique index refuses the statement.  aget_or_create() and
\* aupdate_or_create() roll back to where they were and read once more.
InsertRefused(t) ==
  IF Do(t) \in {"aget_or_create", "aupdate_or_create"}
    THEN Then(t, Stage("get_again", Rows(t))) /\ UNCHANGED <<answer, tx, table>> /\ Goes
    ELSE Raise(t)

Insert(t) ==
  LET taken == Taken(t, Rows(t))
      written == IF Do(t) = "abulk_create_update" THEN KeysOf(Rows(t)) ELSE KeysOf(Rows(t)) \ taken
      New(k) == Row(IF k \in taken THEN View(t)[k].pk
                                   ELSE (CHOOSE r \in Rows(t) : r[1] = k)[2], t)
  IN
  /\ Runs(t, "insert")
  /\ IF taken # {} /\ Do(t) \notin {"abulk_create_ignore", "abulk_create_update"}
       THEN InsertRefused(t)
       ELSE /\ Then(t, <<>>) /\ Found(t, "created") /\ Goes
            /\ Write(t, [k \in written |-> New(k)])

\* Mutant of NothingUpdated: the row is not inserted.
NothingUpdatedNoInsert(t) ==
  Then(t, <<>>) /\ UNCHANGED <<answer, tx, table>> /\ Goes

\* No row was updated: asave() inserts it, asave(force_update=True) and
\* asave(update_fields=...) raise NotUpdated, the others do not look.
NothingUpdated(t) ==
  CASE Do(t) = "asave" ->
         Then(t, Stage("insert", Rows(t))) /\ UNCHANGED <<answer, tx, table>> /\ Goes
    [] Do(t) = "asave_select" ->
         Then(t, Stage("exists_still", Rows(t))) /\ UNCHANGED <<answer, tx, table>> /\ Goes
    [] Do(t) \in {"asave_fields", "asave_inherited_fields"} -> Raise(t)
    [] OTHER -> Then(t, <<>>) /\ UNCHANGED <<answer, tx, table>> /\ Goes

Update(t) ==
  LET hit == KeysOf(There(t, Rows(t))) IN
  /\ Runs(t, "update")
  /\ IF hit = {} THEN NothingUpdated(t)
       ELSE /\ Then(t, <<>>) /\ Found(t, "found") /\ Goes
            /\ Write(t, [k \in hit |-> Row(View(t)[k].pk, t)])

\* select_on_save: an UPDATE only if the row is there.  A model of nothing but a
\* key has nothing to update.
Exists(t) ==
  /\ Runs(t, "exists") /\ UNCHANGED <<tx, table>> /\ Goes
  /\ IF There(t, Rows(t)) = {} THEN Then(t, Stage("insert", Rows(t))) /\ UNCHANGED answer
     ELSE IF Do(t) = "asave_empty" THEN Then(t, <<>>) /\ Found(t, "found")
     ELSE Then(t, Stage("update", Rows(t))) /\ UNCHANGED answer

\* select_on_save: no row was updated although it was there a moment ago.
ExistsStill(t) ==
  /\ Runs(t, "exists_still") /\ UNCHANGED <<tx, table>> /\ Goes
  /\ IF There(t, Rows(t)) = {} THEN Then(t, Stage("insert", Rows(t))) /\ UNCHANGED answer
     ELSE Then(t, <<>>) /\ Found(t, "found")

\* _asave_parents() saves the parent's columns.  _ado_update() and _ado_insert()
\* name the table of the instance's class, whichever class is being saved, and an
\* inherited table has but its own columns.
Columns == [parent |-> {"id", "name"}, child |-> {"parent_ptr_id", "detail"}]
StatementTable(cls) == "child"

SaveParent(t) ==
  /\ Runs(t, "parent")
  /\ IF Columns["parent"] \subseteq Columns[StatementTable("parent")]
       THEN Then(t, Stage("update", Rows(t))) /\ UNCHANGED <<answer, tx, table>> /\ Goes
       ELSE Raise(t)

\* adelete() of a queryset reads the objects and deletes them by primary key.
Find(t) ==
  /\ Runs(t, "find")
  /\ Then(t, Stage("delete", There(t, Rows(t))))
  /\ UNCHANGED <<answer, tx, table>> /\ Goes

Delete(t) ==
  LET hit == KeysOf(There(t, Rows(t))) IN
  /\ Runs(t, "delete") /\ Then(t, <<>>) /\ Goes
  /\ Found(t, IF hit = {} THEN "none" ELSE "found")
  /\ Write(t, [k \in hit |-> Absent])

Return(t) ==
  /\ status[t] = "busy" /\ stages[t] = <<>>
  /\ table' = View(t) /\ Ends(t, "ok") /\ UNCHANGED answer

\* Mutant of Fail: the transaction stays open.
FailStillOpen(t) ==
  /\ status[t] = "busy"
  /\ status' = [status EXCEPT ![t] = "failed"] /\ stages' = [stages EXCEPT ![t] = <<>>]
  /\ UNCHANGED <<run, answer, tx, table, earlier>>

\* A statement, the COMMIT or a signal handler fails, or the task is cancelled.
Fail(t) ==
  /\ status[t] = "busy"
  /\ Ends(t, "failed") /\ UNCHANGED <<answer, table>>

\* PostgreSQL ends one of two transactions that wait for each other.
Deadlocked(t) ==
  /\ status[t] = "busy" /\ stages[t] # <<>>
  /\ \E u \in Task : WaitsFor(t, u) /\ stages[u] # <<>> /\ WaitsFor(u, t)
  /\ Ends(t, "failed") /\ UNCHANGED <<answer, table>>

Step(t) ==
  \/ Begin(t) \/ Get(t) \/ GetAgain(t) \/ Insert(t) \/ Update(t) \/ Exists(t) \/ ExistsStill(t)
  \/ SaveParent(t) \/ Find(t) \/ Delete(t) \/ Return(t) \/ Deadlocked(t)

Quiet == \A t \in Task : status[t] \in {"ok", "raised", "failed"}
Finished == Quiet /\ UNCHANGED vars

Next == (\E t \in Task : Step(t) \/ Fail(t)) \/ Finished

Spec == Init /\ [][Next]_vars

-----------------------------------------------------------------------------
(* Properties.                                                             *)

\* Every variable keeps its kind, and who is not at work holds no locks.
TypeOK ==
  /\ \A t \in Task :
       /\ status[t] \in {"ready", "busy", "ok", "raised", "failed"}
       /\ answer[t] \in {"none", "found", "created"}
       /\ DOMAIN tx[t] \subseteq Key
       /\ status[t] # "busy" => tx[t] = <<>> /\ stages[t] = <<>>
       /\ \A i \in DOMAIN stages[t] : stages[t][i].rows \subseteq Key \X PrimaryKeys
  /\ \A k \in Key : table[k] = Absent \/ (table[k].pk \in PrimaryKeys /\ table[k].by \in PrimaryKeys)

\* What a method makes of a row and answers, alone.
Alone(t, row) ==
  LET new == Row(IF Do(t) \in Saves THEN 0 ELSE t, t)
      written == IF row = Absent THEN Absent ELSE Row(row.pk, t)
      mine == row # Absent /\ row.pk = 0
      Is(r, a) == [row |-> r, answer |-> a]
  IN
  CASE Do(t) = "aget_or_create" -> IF row = Absent THEN Is(new, "created") ELSE Is(row, "found")
    [] Do(t) \in {"aupdate_or_create", "abulk_create_update"} ->
         IF row = Absent THEN Is(new, "created") ELSE Is(written, "found")
    [] Do(t) \in {"acreate", "abulk_create"} ->
         IF row = Absent THEN Is(new, "created") ELSE Is(row, "raised")
    [] Do(t) = "abulk_create_ignore" -> Is(IF row = Absent THEN new ELSE row, "created")
    [] Do(t) \in Saves ->
         IF row = Absent THEN Is(new, "created")
         ELSE IF ~mine THEN Is(row, "raised")
         ELSE Is(IF Do(t) = "asave_empty" THEN row ELSE written, "found")
    [] Do(t) \in {"asave_fields", "asave_inherited_fields"} ->
         IF mine THEN Is(written, "found") ELSE Is(row, "raised")
    [] Do(t) = "asave_inherited" -> Is(row, "raised")
    [] Do(t) = "aupdate" -> Is(written, IF row = Absent THEN "none" ELSE "found")
    [] Do(t) = "abulk_update" -> Is(IF mine THEN written ELSE row, IF mine THEN "found" ELSE "none")
    [] Do(t) = "adelete" -> Is(Absent, IF row = Absent THEN "none" ELSE "found")
    [] Do(t) = "adelete_instance" -> Is(IF mine THEN Absent ELSE row, IF mine THEN "found" ELSE "none")

Answer(t) == IF status[t] = "ok" THEN answer[t] ELSE status[t]
Overlap(t, u) == t # u /\ t \notin earlier[u] /\ u \notin earlier[t]

\* Several statements see several states of the table: with others at work asave()
\* may try to insert what it could have updated, and bulk methods and
\* aget_or_create() may be refused for what is no longer there.
Excused(t) ==
  \/ Len(operation[t].keys) > 1
  \/ status[t] = "raised" /\ (\E u \in Task : Overlap(t, u))
       /\ Do(t) \in Saves \union {"aget_or_create", "aupdate_or_create"}

\* The row of key k after the tasks of s, one after the other; it no longer fits
\* once one of them could not have answered as it did.  done are those of the
\* failed ones that took effect.
Replay(k, s, done) ==
  LET Follow(acc, t) ==
        LET alone == Alone(t, acc.row) IN
        [row |-> IF status[t] = "ok" \/ t \in done THEN alone.row ELSE acc.row,
         fits |-> acc.fits /\ (status[t] = "failed" \/ Excused(t) \/ alone.answer = Answer(t))]
  IN FoldLeft(Follow, [row |-> IF k \in beginning THEN Row(0, 0) ELSE Absent, fits |-> TRUE],
              SelectSeq(s, LAMBDA t : k \in Keys(t)))

Orders == {s \in SetToSeqs(Task) : \A i, j \in DOMAIN s : s[j] \in earlier[s[i]] => j < i}
MaybeDone == {t \in Task : status[t] = "failed" /\ ~Atomic(t)}

\* Every row, and what every method answered about it, is as if the methods had
\* run one after the other, in an order that respects who had returned before
\* whom; one that raised or failed had no effect, except that in autocommit mode
\* a method may fail when its work is done.
EveryRowIsExplained ==
  Quiet => \A k \in Key : \E s \in Orders : \E done \in SUBSET MaybeDone :
             LET end == Replay(k, s, done) IN end.fits /\ end.row = table[k]

Deletes(u) == Do(u) \in {"adelete", "adelete_instance"}

\* aget_or_create() and aupdate_or_create() return unless the database fails: only
\* a delete between the refused insert and the second read makes them raise.
GetOrCreateReturns ==
  \A t \in Task :
    Do(t) \in {"aget_or_create", "aupdate_or_create"} /\ status[t] = "raised" =>
      \E u \in Task : Overlap(t, u) /\ Deletes(u)

\* asave() of an instance of an inherited model does what asave() does.
InheritedInstancesAreSaved ==
  \A t \in Task : Do(t) = "asave_inherited" => status[t] # "raised"

=============================================================================
