------------------------------ MODULE Collector ------------------------------
(***************************************************************************)
(* AsyncCollector (db/models/deletion.py): adelete() of the rows in roots. *)
(*                                                                         *)
(* acollect() walks the foreign keys that lead to the rows it was given.   *)
(* Django's on_delete handlers are synchronous: CASCADE calls collect(),   *)
(* which only queues what it is given, and _drain_pending_collects()       *)
(* follows the queue after each handler, one coroutine inside the other.   *)
(* stack holds those coroutines.  adelete() then executes the plan in one  *)
(* transaction; PostgreSQL checks Django's foreign keys when it commits.   *)
(***************************************************************************)
EXTENDS Naturals, Sequences, FiniteSets, SequencesExt

CONSTANTS
  Model, Row, ModelOf,  \* the models, the rows that exist and the model of each
  Relation,    \* the foreign keys that have a reverse relation
  Databases,   \* the references there may be at the start
  MaxStack     \* bound: coroutines inside each other before Python gives up

OnDelete == {"CASCADE", "SET_NULL", "PROTECT", "RESTRICT", "DO_NOTHING"}
ForeignKey == [name : STRING, from : Model, to : Model, on_delete : OnDelete,
               null : BOOLEAN, parent_link : BOOLEAN]
Reference == [from : Row, by : Relation, to : Row]

\* One level of inheritance: no parent model has a parent.  A foreign key leads
\* from a row of its model to a row of the model it refers to, and holds one value.
ASSUME SchemaAssumption ==
  /\ IsFiniteSet(Row) /\ ModelOf \in [Row -> Model]
  /\ Relation \subseteq ForeignKey
  /\ \A rel \in Relation : rel.parent_link =>
       /\ rel.on_delete = "CASCADE" /\ ~rel.null
       /\ \A other \in Relation : other.parent_link => other.from # rel.to
  /\ \A db \in Databases :
       /\ db \subseteq Reference
       /\ \A e \in db : ModelOf[e.from] = e.by.from /\ ModelOf[e.to] = e.by.to
       /\ \A e, f \in db : e.from = f.from /\ e.by = f.by => e = f
  /\ MaxStack \in Nat \ {0}

VARIABLES
  rows, refs,          \* the database, as the running transaction sees it
  before,              \* history: the references at the start
  roots, keep_parents, \* the objects adelete() was called for, and its argument
  data,                \* the objects collected, by model
  models,              \* the models of data in the order of its keys
  dependencies,        \* the models to delete before a model
  field_updates, restricted_objects, fast_deletes,
  _pending_collects,
  protected_objects,   \* the local of acollect()
  sorted_models,       \* the local of sort()
  stack,               \* the coroutines under way, innermost last
  pc,                  \* "collect", then the phase of adelete()
  outcome              \* how the call ended

database == <<rows, refs>>
\* What only sort() changes, and what nothing changes.
context == <<before, roots, keep_parents, sorted_models>>
plan == <<data, models, dependencies, field_updates, restricted_objects, fast_deletes>>
walk == <<_pending_collects, protected_objects, stack>>
vars == <<database, context, plan, walk, pc, outcome>>

-----------------------------------------------------------------------------
(* The schema.                                                             *)

Links(m) == {rel \in Relation : rel.from = m /\ rel.parent_link}
Ancestors(m) == {rel.to : rel \in Links(m)}

\* Mutant of Candidates: a child inherits its own link to the parent.
CandidatesWithLinks(m) == {rel \in Relation : rel.to \in {m} \union Ancestors(m)}

\* get_candidate_relations_to_delete(): what leads to a model or is inherited.
Candidates(m) ==
  {rel \in Relation : rel.to = m \/ (rel.to \in Ancestors(m) /\ ~rel.parent_link)}

NothingFollows(m) == \A rel \in Candidates(m) : rel.on_delete = "DO_NOTHING"

CanFastDelete(m, rel) ==
  rel.on_delete = "CASCADE" /\ Links(m) \subseteq {rel} /\ NothingFollows(m)

\* What the collector relies on for its plan to be right: that no foreign key is
\* left to the database (DO_NOTHING) and a row of a parent model is that of one
\* child ...
LeftToTheCollector ==
  /\ \A rel \in Relation : rel.on_delete # "DO_NOTHING"
  /\ \A db \in Databases : \A e, f \in db :
       e.by.parent_link /\ f.by.parent_link /\ e.to = f.to => e = f

\* ... that what cascades has no other parent than the row it cascades from (only
\* the objects given to acollect() get their parents collected) ...
CascadesAreCollected ==
  /\ LeftToTheCollector
  /\ \A rel \in Relation : rel.on_delete = "CASCADE" => Links(rel.from) \subseteq {rel}

\* ... and that no row that restricts is deleted without a look (acollect() compares
\* the restricted objects with those collected only).
NoFastRestriction ==
  \A rel, other \in Relation :
    rel.on_delete = "RESTRICT" /\ other.from = rel.from => ~CanFastDelete(rel.from, other)

\* What it relies on to end: the stack has room for a coroutine and a drain for every
\* row that cascades, one inside the other.
RoomForChains ==
  \A db \in Databases :
    2 * Cardinality({e.from : e \in {x \in db : x.by.on_delete = "CASCADE"}}) + 3 <= MaxStack

\* An object of a child model stands for its parent's row too.
AsParents(objs) == {e.to : e \in {x \in refs : x.by.parent_link /\ x.from \in objs}}

\* Mutant of RelatedObjects: the query is not restricted to objs.
RelatedObjectsUnfiltered(rel, objs) == {e.from : e \in {x \in refs : x.by = rel}}

\* arelated_objects(): the rows whose foreign key holds one of objs.
RelatedObjects(rel, objs) ==
  {e.from : e \in {x \in refs : x.by = rel /\ x.to \in objs \union AsParents(objs)}}

OfModel(objs) == ModelOf[CHOOSE o \in objs : TRUE]

-----------------------------------------------------------------------------
(* The plan.                                                               *)

Add(objs) ==
  /\ data' = [data EXCEPT ![OfModel(objs)] = @ \union objs]
  /\ models' = IF OfModel(objs) \in ToSet(models) THEN models
               ELSE Append(models, OfModel(objs))

\* The rows of first must be deleted before those of m.
AddDependency(m, first) == dependencies' = [dependencies EXCEPT ![m] = @ \union {first}]

Coroutine(kind, objs) ==
  [kind |-> kind, objs |-> objs, fast |-> {}, items |-> <<>>,
   rels |-> IF kind = "drain" THEN {} ELSE Candidates(OfModel(objs))]

Top == stack[Len(stack)]
SetTop(c) == [stack EXCEPT ![Len(stack)] = c]

\* Awaits a coroutine from the innermost one, which continues as c.
Await(c, callee) == stack' = Append(SetTop(c), callee)

RoomToAwait == Len(stack) < MaxStack

\* Fast deletes are recorded as the relation and the objects of the predicate.
Flush(c) == fast_deletes' = fast_deletes \union {<<rel, c.objs>> : rel \in c.fast}

\* acollect() up to its loop: the objects and, unless they are kept, their
\* parents, which are only added.
Init ==
  /\ rows = Row /\ refs \in Databases /\ before = refs
  /\ \E m \in Model : roots \in (SUBSET {r \in Row : ModelOf[r] = m}) \ {{}}
  /\ keep_parents \in BOOLEAN /\ (keep_parents => Cardinality(roots) = 1)
  /\ LET m == OfModel(roots)
         up == IF keep_parents THEN {} ELSE AsParents(roots)
     IN /\ data = [n \in Model |-> {r \in roots \union up : ModelOf[r] = n}]
        /\ models = <<m>> \o SetToSeq({ModelOf[r] : r \in up})
        /\ dependencies = [n \in Model |-> IF \E r \in up : ModelOf[r] = n THEN {m} ELSE {}]
        /\ stack = <<[Coroutine("acollect", roots) EXCEPT !.rels =
                       {rel \in @ : ~(keep_parents /\ rel.to \in Ancestors(m))}]>>
  /\ field_updates = {} /\ restricted_objects = {} /\ fast_deletes = {}
  /\ _pending_collects = <<>> /\ protected_objects = {} /\ sorted_models = <<>>
  /\ pc = "collect" /\ outcome = "none"

-----------------------------------------------------------------------------
(* The loop over the candidate relations, in acollect() and in             *)
(* _acollect_related().  Their order is that of the models' fields.        *)

Following(rel) ==
  pc = "collect" /\ stack # <<>> /\ Top.kind \in {"acollect", "related"} /\ rel \in Top.rels

Without(rel) == [Top EXCEPT !.rels = @ \ {rel}]
Found(rel) == RelatedObjects(rel, Top.objs)

\* Nothing to do.
FollowNothing(rel) ==
  /\ Following(rel)
  /\ \/ rel.on_delete = "DO_NOTHING"
     \/ rel.on_delete # "SET_NULL" /\ ~CanFastDelete(rel.from, rel) /\ Found(rel) = {}
  /\ stack' = SetTop(Without(rel))
  /\ UNCHANGED <<database, context, plan, _pending_collects, protected_objects, pc, outcome>>

FollowFast(rel) ==
  /\ Following(rel) /\ CanFastDelete(rel.from, rel)
  /\ stack' = SetTop([Without(rel) EXCEPT !.fast = @ \union {rel}])
  /\ UNCHANGED <<database, context, plan, _pending_collects, protected_objects, pc, outcome>>

\* SET_NULL is lazy: its handler is called with an empty list too.
Handled(rel, on_delete) ==
  /\ Following(rel) /\ rel.on_delete = on_delete
  /\ ~CanFastDelete(rel.from, rel)
  /\ Found(rel) # {} \/ on_delete = "SET_NULL"

\* The handler returns and its queue is drained.
Drain(rel) ==
  /\ RoomToAwait
  /\ Await(Without(rel), Coroutine("drain", Top.objs))
  /\ UNCHANGED <<database, context, protected_objects, pc, outcome>>

\* Mutant of FollowCascade: collect() queues the objects without adding them.
FollowCascadeQueueOnly(rel) ==
  /\ Handled(rel, "CASCADE")
  /\ _pending_collects' = Append(_pending_collects, Found(rel))
  /\ Drain(rel)
  /\ UNCHANGED plan

\* Mutant of FollowCascade: what depends on what is turned round.
FollowCascadeReversed(rel) ==
  /\ Handled(rel, "CASCADE")
  /\ Add(Found(rel))
  /\ IF rel.null THEN UNCHANGED dependencies ELSE AddDependency(rel.from, rel.to)
  /\ _pending_collects' = Append(_pending_collects, Found(rel))
  /\ Drain(rel)
  /\ UNCHANGED <<field_updates, restricted_objects, fast_deletes>>

\* CASCADE calls collect(): the objects are added, and queued even if they are
\* not new.
FollowCascade(rel) ==
  /\ Handled(rel, "CASCADE")
  /\ Add(Found(rel))
  /\ IF rel.null THEN UNCHANGED dependencies ELSE AddDependency(rel.to, rel.from)
  /\ _pending_collects' = Append(_pending_collects, Found(rel))
  /\ Drain(rel)
  /\ UNCHANGED <<field_updates, restricted_objects, fast_deletes>>

FollowSetNull(rel) ==
  /\ Handled(rel, "SET_NULL")
  /\ field_updates' = field_updates \union {<<rel, Found(rel)>>}
  /\ Drain(rel)
  /\ UNCHANGED <<data, models, dependencies, restricted_objects, fast_deletes,
                 _pending_collects>>

FollowRestrict(rel) ==
  /\ Handled(rel, "RESTRICT")
  /\ restricted_objects' = restricted_objects \union Found(rel)
  /\ AddDependency(rel.to, rel.from)
  /\ Drain(rel)
  /\ UNCHANGED <<data, models, field_updates, fast_deletes, _pending_collects>>

\* PROTECT raises.  acollect() notes it and goes on with its next relation;
\* the coroutines inside it are gone, and with them what they had to follow.
FollowProtect(rel) ==
  /\ Handled(rel, "PROTECT")
  /\ protected_objects' = protected_objects \union {rel}
  /\ stack' = IF Len(stack) = 1 THEN SetTop(Without(rel)) ELSE <<Head(stack)>>
  /\ UNCHANGED <<database, context, plan, _pending_collects, pc, outcome>>

RelatedDone ==
  /\ pc = "collect" /\ stack # <<>> /\ Top.kind = "related" /\ Top.rels = {}
  /\ Flush(Top)
  /\ stack' = Front(stack)
  /\ UNCHANGED <<database, context, data, models, dependencies, field_updates,
                 restricted_objects, _pending_collects, protected_objects, pc, outcome>>

-----------------------------------------------------------------------------
(* _drain_pending_collects().                                              *)

Draining == pc = "collect" /\ stack # <<>> /\ Top.kind = "drain"

TakePending ==
  /\ Draining /\ Top.items = <<>> /\ _pending_collects # <<>>
  /\ stack' = SetTop([Top EXCEPT !.items = _pending_collects])
  /\ _pending_collects' = <<>>
  /\ UNCHANGED <<database, context, plan, protected_objects, pc, outcome>>

FollowItem ==
  /\ Draining /\ Top.items # <<>> /\ RoomToAwait
  /\ Await([Top EXCEPT !.items = Tail(@)], Coroutine("related", Head(Top.items)))
  /\ UNCHANGED <<database, context, plan, _pending_collects, protected_objects, pc, outcome>>

DrainDone ==
  /\ Draining /\ Top.items = <<>> /\ _pending_collects = <<>>
  /\ stack' = Front(stack)
  /\ UNCHANGED <<database, context, plan, _pending_collects, protected_objects, pc, outcome>>

\* RecursionError, raised out of acollect().
GiveUp ==
  /\ pc = "collect" /\ ~RoomToAwait
  /\ (Draining /\ Top.items # <<>>)
     \/ \E rel \in Relation, how \in {"CASCADE", "SET_NULL", "RESTRICT"} : Handled(rel, how)
  /\ outcome' = "recursion" /\ pc' = "done"
  /\ UNCHANGED <<database, context, plan, walk>>

-----------------------------------------------------------------------------
(* The end of acollect(): protected objects, fast deletes, restricted      *)
(* objects.                                                                *)

Collected == UNION {data[m] : m \in Model}

AllFollowed == pc = "collect" /\ Len(stack) = 1 /\ Top.kind = "acollect" /\ Top.rels = {}

RaiseProtected ==
  /\ AllFollowed /\ protected_objects # {}
  /\ outcome' = "protected" /\ pc' = "done"
  /\ UNCHANGED <<database, context, plan, walk>>

\* Mutant of RestrictionHolds: objects of a model that is collected may go.
RestrictionHoldsByModel == \A r \in restricted_objects : data[ModelOf[r]] # {}

RestrictionHolds == restricted_objects \subseteq Collected

AcollectDone ==
  /\ AllFollowed /\ protected_objects = {}
  /\ Flush(Top)
  /\ IF RestrictionHolds THEN pc' = "sort" /\ UNCHANGED outcome
                         ELSE pc' = "done" /\ outcome' = "restricted"
  /\ UNCHANGED <<database, context, data, models, dependencies, field_updates,
                 restricted_objects, walk>>

-----------------------------------------------------------------------------
(* adelete().                                                              *)

\* sort() goes over the models again and again and takes each one whose
\* dependencies it has taken.
Ready(m) == m \notin ToSet(sorted_models) /\ dependencies[m] \subseteq ToSet(sorted_models)

\* How many models it looks at before the i-th, from the one it took last.
Ahead(i) ==
  LET last == IF sorted_models = <<>> THEN 0
              ELSE CHOOSE j \in DOMAIN models : models[j] = Last(sorted_models)
  IN (i + Len(models) - last - 1) % Len(models)

SortTake ==
  /\ pc = "sort"
  /\ \E i \in DOMAIN models :
       /\ Ready(models[i])
       /\ \A j \in DOMAIN models : Ready(models[j]) => Ahead(i) <= Ahead(j)
       /\ sorted_models' = Append(sorted_models, models[i])
  /\ UNCHANGED <<database, before, roots, keep_parents, plan, walk, pc, outcome>>

SortOver == pc = "sort" /\ \A m \in ToSet(models) : ~Ready(m)

\* Mutant of Sort: it tries again when a pass takes none.
SortInsists ==
  /\ SortOver
  /\ IF ToSet(sorted_models) = ToSet(models) THEN models' = sorted_models /\ pc' = "fast"
                                             ELSE UNCHANGED <<models, pc>>
  /\ UNCHANGED <<database, context, data, dependencies, field_updates, restricted_objects,
                 fast_deletes, walk, outcome>>

\* It took all, or a pass took none and it gives up.
Sort ==
  /\ SortOver
  /\ models' = IF ToSet(sorted_models) = ToSet(models) THEN sorted_models ELSE models
  /\ pc' = "fast"
  /\ UNCHANGED <<database, context, data, dependencies, field_updates, restricted_objects,
                 fast_deletes, walk, outcome>>

Erase(gone) == rows' = rows \ gone /\ refs' = {e \in refs : e.from \notin gone}

FastDeletes ==
  /\ pc = "fast"
  /\ Erase(UNION {RelatedObjects(q[1], q[2]) : q \in fast_deletes})
  /\ pc' = "update"
  /\ UNCHANGED <<context, plan, walk, outcome>>

\* Mutant of FieldUpdates: they are not executed.
FieldUpdatesSkipped ==
  /\ pc = "update"
  /\ pc' = "delete"
  /\ UNCHANGED <<database, context, plan, walk, outcome>>

FieldUpdates ==
  /\ pc = "update"
  /\ refs' = {e \in refs : \A u \in field_updates : ~(e.by = u[1] /\ e.from \in u[2])}
  /\ pc' = "delete"
  /\ UNCHANGED <<rows, context, plan, walk, outcome>>

\* One model after the other; models keeps those still to go.
DeleteModel ==
  /\ pc = "delete" /\ models # <<>>
  /\ Erase(data[Head(models)])
  /\ models' = Tail(models)
  /\ UNCHANGED <<context, data, dependencies, field_updates, restricted_objects, fast_deletes,
                 walk, pc, outcome>>

Dangling == {e \in refs : e.to \notin rows}

\* The foreign keys are checked; a violation rolls everything back.
Commit ==
  /\ pc = "delete" /\ models = <<>>
  /\ IF Dangling = {}
       THEN outcome' = "deleted" /\ UNCHANGED database
       ELSE outcome' = "integrity" /\ rows' = Row /\ refs' = before
  /\ pc' = "done"
  /\ UNCHANGED <<context, plan, walk>>

Over == pc = "done" /\ UNCHANGED vars

Next ==
  \/ \E rel \in Relation :
       \/ FollowNothing(rel) \/ FollowFast(rel) \/ FollowCascade(rel)
       \/ FollowSetNull(rel) \/ FollowRestrict(rel) \/ FollowProtect(rel)
  \/ RelatedDone \/ TakePending \/ FollowItem \/ DrainDone \/ GiveUp
  \/ RaiseProtected \/ AcollectDone
  \/ SortTake \/ Sort \/ FastDeletes \/ FieldUpdates \/ DeleteModel \/ Commit \/ Over

Spec == Init /\ [][Next]_vars

\* Its awaits are answered, so the one task goes on.
FairSpec == Spec /\ WF_vars(Next)

-----------------------------------------------------------------------------
\* What cascades, and the rows it can reach.
Cascades == {e \in before : e.by.on_delete = "CASCADE"}
Near == {e.from : e \in Cascades} \union {e.to : e \in Cascades}

\* A set of rows that goes with what cascades from it and, unless they are kept,
\* with its parents.
Closed(S) ==
  \A e \in Cascades : /\ e.to \in S => e.from \in S
                      /\ e.by.parent_link /\ ~keep_parents /\ e.from \in S => e.to \in S

\* The rows that have to go with roots: the least closed set with roots in it.
Doomed ==
  roots \union {r \in Near : \A S \in SUBSET Near :
                              Closed(roots \union S) => r \in roots \union S}

Holds(on_delete, e) == e.by.on_delete = on_delete /\ e.to \in Doomed
Protected == \E e \in before : Holds("PROTECT", e)
Restricted == \E e \in before : Holds("RESTRICT", e) /\ e.from \notin Doomed

\* Rows to delete that refer to each other in a circle by foreign keys that
\* cascade.
Cyclic ==
  \E S \in (SUBSET (Doomed \intersect {e.to : e \in before})) \ {{}} :
    \A r \in S : \E e \in before : e.by.on_delete = "CASCADE" /\ e.to = r /\ e.from \in S

Ended == pc = "done" /\ outcome # "recursion"

\* The plan holds rows under their models, each model once in the order of
\* deletion, and what is queued or under way are rows of one model.
TypeOK ==
  /\ rows \subseteq Row /\ refs \subseteq before
  /\ \A m \in Model : data[m] \subseteq {r \in Row : ModelOf[r] = m}
  /\ IsInjective(models) /\ ToSet(models) \subseteq Model
  /\ dependencies \in [Model -> SUBSET Model]
  /\ restricted_objects \subseteq Row /\ protected_objects \subseteq Relation
  /\ \A q \in fast_deletes \union field_updates : q[1] \in Relation /\ q[2] \subseteq Row
  /\ \A i \in DOMAIN _pending_collects : \E m \in Model : _pending_collects[i] \subseteq data[m]
  /\ \A i \in DOMAIN stack : stack[i].objs \subseteq Collected /\ stack[i].objs # {}
  /\ pc \in {"collect", "sort", "fast", "update", "delete", "done"}

\* adelete() removes exactly the rows that have to go, or changes nothing,
\* however the walk, the queue and the fast deletes shared the work.
TheClosureOrNothing ==
  pc = "done" => IF outcome = "deleted" THEN rows = Row \ Doomed
                                        ELSE rows = Row /\ refs = before

\* ProtectedError and RestrictedError are raised exactly when a row to delete is
\* protected, or restricted by a row that stays, wherever in the walk it is met.
RefusedForAReason ==
  Ended => /\ outcome = "protected" <=> Protected
           /\ outcome = "restricted" <=> ~Protected /\ Restricted

\* The plan leaves no foreign key without its row: the COMMIT is accepted.
NoReferenceDangles == outcome # "integrity"

\* Models that have to be deleted before each other.
Circular ==
  \E S \in (SUBSET {m \in Model : dependencies[m] # {}}) \ {{}} :
    \A m \in S : dependencies[m] \intersect S # {}

\* sort(): no row is deleted while a row that needs it is still there, unless
\* the models depend on each other in a circle.
DependentsGoFirst == pc = "delete" => Circular \/ \A e \in Dangling : e.by.null

\* The coroutines only run out of stack on rows that refer to each other in a
\* circle.
GivesUpOnlyOnCycles == outcome = "recursion" => Cyclic

\* Every call ends, with a result or an exception.
EveryDeleteEnds == <>(pc = "done")

=============================================================================
