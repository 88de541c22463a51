-------------------------- MODULE CollectorClosure --------------------------
(***************************************************************************)
(* Theorems about Collector, for every schema, every database and every    *)
(* length of the walk: adelete() takes exactly the rows that have to go or *)
(* nothing, refuses exactly when a key forbids it, runs out of stack on    *)
(* rows that refer to each other in a circle only, and deletes the rows of *)
(* a model before those it depends on.                                     *)
(***************************************************************************)
EXTENDS CollectorProofs

\* The rows through which a coroutine that follows rel for objs can find something
\* are collected.
Sighted(rel, objs) == \A x \in Reached(objs) : ModelOf[x] = rel.to => x \in Collected

Placed(objs) == Reached(objs) \subseteq Collected

FrameGrounded(c) ==
  /\ \A rel \in c.rels \union c.fast : Sighted(rel, c.objs)
  /\ \A objs \in ToSet(c.items) : Placed(objs)

\* Whatever is collected, queued, under way or noted has its reason in a row that
\* has to go, and a collected row has its parent with it.
Grounded ==
  /\ roots \subseteq Collected /\ Collected \subseteq Doomed
  /\ \A e \in before : e.by.parent_link /\ e.from \in Collected =>
       e.to \in Collected \/ (keep_parents /\ e.from \in roots)
  /\ \A c \in ToSet(stack) : FrameGrounded(c)
  /\ \A objs \in ToSet(_pending_collects) : Placed(objs)
  /\ \A q \in fast_deletes : Sighted(q[1], q[2])
  /\ \A r \in restricted_objects : \E e \in before : e.from = r /\ Holds("RESTRICT", e)
  /\ protected_objects # {} => Protected

\* The walk has done what the key of a reference to a collected row asks for.
Answered(e) ==
  \/ e.by.on_delete = "SET_NULL"
  \/ e.by.on_delete = "CASCADE" /\ (e.from \in Collected \/ FastDeleted(e))
  \/ e.by.on_delete = "RESTRICT" /\ e.from \in restricted_objects

\* While acollect() walks, every reference to a collected row is answered or still
\* to follow.
NothingUnanswered ==
  Walking => \A e \in before : e.to \in Collected => Answered(e) \/ ToFollow(e)

EveryReferenceAnswered == \A e \in before : e.to \in Collected => Answered(e)

\* The plan is made and not refused.
Decided == pc \in {"sort", "fast", "update", "delete"} \/ outcome \in {"deleted", "integrity"}

\* What the end of the walk has decided, and from what.
Verdict ==
  /\ IF pc = "done"
       THEN outcome \in {"protected", "restricted", "recursion", "deleted", "integrity"}
       ELSE outcome = "none"
  /\ outcome = "protected" => protected_objects # {}
  /\ outcome = "restricted" => EveryReferenceAnswered /\ ~RestrictionHolds
  /\ Decided => EveryReferenceAnswered /\ RestrictionHolds

\* The rows deleted without a look.
Fast == {e.from : e \in {x \in before : FastDeleted(x)}}

\* The execution takes rows of the plan only, those deleted without a look first.
Taking ==
  /\ Executing => /\ rows \subseteq Row /\ Row \ rows \subseteq Collected \union Fast
                  /\ Fast \intersect rows = {}
  /\ pc = "done" => IF outcome = "deleted" THEN rows = Row \ (Collected \union Fast)
                                           ELSE rows = Row /\ refs = before

Exact == Inductive /\ Grounded /\ NothingUnanswered /\ Verdict /\ Taking

-----------------------------------------------------------------------------
(* The rows that have to go.                                               *)

\* They are a closed set ...
LEMMA DoomedIsClosed == Closed(Doomed)
<1>1. ASSUME NEW e \in Cascades, e.to \in Doomed
      PROVE  e.from \in Doomed
  <2>1. e.from \in Near
    BY DEF Near
  <2>2. ASSUME NEW S \in SUBSET Near, Closed(roots \union S)
        PROVE  e.from \in roots \union S
    <3>1. e.to \in roots \union S
      BY <1>1, <2>2 DEF Doomed
    <3> QED
      BY <2>2, <3>1 DEF Closed
  <2> QED
    BY <2>1, <2>2 DEF Doomed
<1>2. ASSUME NEW e \in Cascades, e.by.parent_link, ~keep_parents, e.from \in Doomed
      PROVE  e.to \in Doomed
  <2>1. e.to \in Near
    BY DEF Near
  <2>2. ASSUME NEW S \in SUBSET Near, Closed(roots \union S)
        PROVE  e.to \in roots \union S
    <3>1. e.from \in roots \union S
      BY <1>2, <2>2 DEF Doomed
    <3> QED
      BY <1>2, <2>2, <3>1 DEF Closed
  <2> QED
    BY <2>1, <2>2 DEF Doomed
<1> QED
  BY <1>1, <1>2 DEF Closed

\* ... and there is none smaller.
LEMMA DoomedIsLeast ==
  ASSUME NEW T, roots \subseteq T, Closed(T)
  PROVE  Doomed \subseteq T
<1> DEFINE S == T \intersect Near
<1>1. ASSUME NEW e \in Cascades, e.to \in roots \union S
      PROVE  e.from \in roots \union S
  BY <1>1 DEF Closed, Near
<1>2. ASSUME NEW e \in Cascades, e.by.parent_link, ~keep_parents, e.from \in roots \union S
      PROVE  e.to \in roots \union S
  BY <1>2 DEF Closed, Near
<1>3. Closed(roots \union S)
  BY <1>1, <1>2 DEF Closed
<1>4. S \in SUBSET Near
  OBVIOUS
<1> HIDE DEF S
<1>5. Doomed \subseteq roots \union S
  BY <1>3, <1>4 DEF Doomed
<1> QED
  BY <1>5 DEF S

\* They depend on the references at the start and on the call only.
LEMMA SameDoomed ==
  ASSUME UNCHANGED <<before, roots, keep_parents>>
  PROVE  Doomed' = Doomed /\ Protected' = Protected /\ Restricted' = Restricted
<1>1. Cascades' = Cascades /\ Near' = Near
  BY DEF Cascades, Near
<1>2. ASSUME NEW S
      PROVE  Closed(S)' = Closed(S)
  BY <1>1 DEF Closed
<1>3. Doomed' = Doomed
  BY <1>1, <1>2 DEF Doomed
<1> QED
  BY <1>3 DEF Protected, Restricted, Holds

\* What a reference that cascades takes along.
LEMMA Takes ==
  ASSUME NEW e \in before
  PROVE  /\ e.by.on_delete = "CASCADE" /\ e.to \in Doomed => e.from \in Doomed
         /\ e.by.on_delete = "CASCADE" /\ e.by.parent_link /\ ~keep_parents /\ e.from \in Doomed
              => e.to \in Doomed
BY DoomedIsClosed DEF Closed, Cascades

-----------------------------------------------------------------------------
(* Everything collected has its reason.                                    *)

\* What a coroutine sees stays collected.
LEMMA SightedStays ==
  ASSUME NEW rel, NEW objs, Sighted(rel, objs), before' = before, Collected \subseteq Collected'
  PROVE  Sighted(rel, objs)'
BY DEF Sighted, Reached

\* A coroutine that is left as it is keeps its reasons.
LEMMA FrameStays ==
  ASSUME NEW c, FrameGrounded(c), before' = before, Collected \subseteq Collected'
  PROVE  FrameGrounded(c)'
<1>1. \A rel \in c.rels \union c.fast : Sighted(rel, c.objs)'
  BY SightedStays DEF FrameGrounded
<1>2. \A objs \in ToSet(c.items) : Placed(objs)'
  BY DEF FrameGrounded, Placed, Reached
<1> QED
  BY <1>1, <1>2 DEF FrameGrounded

\* What a step has to give reasons for: whatever it adds.
LEMMA GroundedGoesOn ==
  ASSUME Grounded, UNCHANGED <<before, roots, keep_parents>>,
         Collected \subseteq Collected', Collected' \subseteq Doomed,
         \A e \in before : e.by.parent_link /\ e.from \in Collected' =>
           e.from \in Collected \/ e.to \in Collected',
         \A c \in ToSet(stack') : c \in ToSet(stack) \/ FrameGrounded(c)',
         \A objs \in ToSet(_pending_collects') : objs \in ToSet(_pending_collects) \/ Placed(objs)',
         \A q \in fast_deletes' : q \in fast_deletes \/ Sighted(q[1], q[2])',
         \A r \in restricted_objects' : \/ r \in restricted_objects
                                       \/ \E e \in before : e.from = r /\ Holds("RESTRICT", e),
         protected_objects' # {} => protected_objects # {} \/ Protected
  PROVE  Grounded'
<1>1. Doomed' = Doomed /\ Protected' = Protected
  BY SameDoomed
<1>2. \A e : Holds("RESTRICT", e)' = Holds("RESTRICT", e)
  BY <1>1 DEF Holds
<1>3. \A e \in before : e.by.parent_link /\ e.from \in Collected' =>
        e.to \in Collected' \/ (keep_parents /\ e.from \in roots)
  BY DEF Grounded
<1>4. \A c \in ToSet(stack') : FrameGrounded(c)'
  BY FrameStays DEF Grounded
<1>5. \A objs \in ToSet(_pending_collects') : Placed(objs)'
  BY DEF Grounded, Placed, Reached
<1>6. \A q \in fast_deletes' : Sighted(q[1], q[2])'
  BY SightedStays DEF Grounded
<1>7. \A r \in restricted_objects' : \E e \in before : e.from = r /\ Holds("RESTRICT", e)
  BY DEF Grounded
<1>8. protected_objects' # {} => Protected
  BY DEF Grounded
<1> QED
  BY <1>1, <1>2, <1>3, <1>4, <1>5, <1>6, <1>7, <1>8 DEF Grounded

\* The step of a walk that collects nothing.
LEMMA NothingCollected ==
  ASSUME Grounded, UNCHANGED <<before, roots, keep_parents, data>>
  PROVE  /\ Collected' = Collected /\ Collected' \subseteq Doomed
         /\ \A c : FrameGrounded(c) => FrameGrounded(c)'
<1>1. Collected' = Collected
  BY DEF Collected
<1> QED
  BY <1>1, FrameStays DEF Grounded

\* A row found has its reason: it refers to a collected row.
LEMMA FoundForAReason ==
  ASSUME Inductive, Grounded, NEW rel \in Relation, Following(rel), NEW r \in Found(rel)
  PROVE  \E e \in before : /\ e.by = rel /\ e.from = r /\ e.to \in Reached(Top.objs)
                           /\ e.to \in Collected /\ e.to \in Doomed
<1>1. refs = before
  BY DEF Inductive, Untouched, Planned, Following
<1>2. PICK e \in before : e.by = rel /\ e.from = r /\ e.to \in Reached(Top.objs)
  BY <1>1 DEF Found, RelatedObjects, Reached, AsParents
<1>3. ModelOf[e.to] = rel.to
  BY <1>2, References DEF Inductive, Shape
<1>4. Top \in ToSet(stack) /\ rel \in Top.rels
  BY FoundRows DEF Inductive, Following
<1>5. e.to \in Collected
  BY <1>2, <1>3, <1>4 DEF Grounded, FrameGrounded, Sighted
<1> QED
  BY <1>2, <1>5 DEF Grounded

\* The innermost coroutine has rel behind it, or among its fast ones.
LEMMA GroundedWithout ==
  ASSUME Inductive, Grounded, NEW rel \in Relation, Following(rel),
         NEW fast \in SUBSET FastRelations, fast \subseteq {rel},
         stack' = SetTop([Without(rel) EXCEPT !.fast = @ \union fast]),
         UNCHANGED <<context, data>>,
         NEW c \in ToSet(stack')
  PROVE  c \in ToSet(stack) \/ FrameGrounded(c)'
<1>1. PICK d \in Frames :
        /\ d.objs = Top.objs /\ d.items = <<>>
        /\ d.rels = Top.rels \ {rel} /\ d.fast = Top.fast \union fast
        /\ ToSet(stack') = ToSet(Front(stack)) \union {d}
        /\ ToSet(stack) = ToSet(Front(stack)) \union {Top}
  BY TopGoesOn
<1>2. FrameGrounded(Top)
  BY <1>1 DEF Grounded
<1>3. ToSet(d.items) = {}
  BY <1>1, EmptyTuple DEF ToSet
<1>4. FrameGrounded(d)
  <2>1. rel \in Top.rels
    BY DEF Following
  <2>2. d.rels \union d.fast \subseteq Top.rels \union Top.fast
    BY <1>1, <2>1
  <2>3. \A other \in d.rels \union d.fast : Sighted(other, d.objs)
    BY <1>1, <1>2, <2>2 DEF FrameGrounded
  <2> QED
    BY <1>3, <2>3 DEF FrameGrounded
<1>5. FrameGrounded(d)'
  BY <1>4, NothingCollected DEF context
<1> QED
  BY <1>1, <1>5

\* After a handler, the drain begins with nothing.
LEMMA GroundedDrain ==
  ASSUME Inductive, Grounded, NEW rel \in Relation, Following(rel), Drain(rel),
         Collected \subseteq Collected', NEW c \in ToSet(stack')
  PROVE  c \in ToSet(stack) \/ FrameGrounded(c)'
<1>1. PICK b, d \in Frames :
        /\ b.objs = Top.objs /\ b.items = <<>> /\ b.rels = Top.rels \ {rel} /\ b.fast = Top.fast
        /\ FrameOK(d) /\ d.kind = "drain" /\ d.items = <<>>
        /\ ToSet(stack') = ToSet(Front(stack)) \union {b} \union {d}
        /\ ToSet(stack) = ToSet(Front(stack)) \union {Top}
  BY DrainAwaited
<1>2. FrameGrounded(Top)
  BY <1>1 DEF Grounded
<1>3. ToSet(b.items) = {} /\ ToSet(d.items) = {}
  BY <1>1, EmptyTuple DEF ToSet
<1>4. FrameGrounded(b)
  BY <1>1, <1>2, <1>3 DEF FrameGrounded
<1>5. FrameGrounded(d)
  BY <1>1, <1>3 DEF FrameGrounded, FrameOK
<1>6. before' = before
  BY DEF Drain, context
<1>7. FrameGrounded(b)' /\ FrameGrounded(d)'
  BY <1>4, <1>5, <1>6, FrameStays
<1> QED
  BY <1>1, <1>7

\* Nothing is added.
LEMMA FollowNothingGrounded ==
  ASSUME Inductive, Grounded, NEW rel \in Relation, FollowNothing(rel)
  PROVE  Grounded'
<1>1. /\ Following(rel) /\ {} \in SUBSET FastRelations
      /\ UNCHANGED <<before, roots, keep_parents, data, context, fast_deletes, restricted_objects,
                     _pending_collects, protected_objects>>
  BY DEF FollowNothing, context, plan
<1>2. stack' = SetTop([Without(rel) EXCEPT !.fast = @ \union {}])
  BY <1>1, WithoutAsIs DEF FollowNothing, Inductive
<1>3. \A c \in ToSet(stack') : c \in ToSet(stack) \/ FrameGrounded(c)'
  BY <1>1, <1>2, GroundedWithout
<1> QED
  BY <1>1, <1>3, NothingCollected, GroundedGoesOn

\* A relation noted for the fast deletes was one to follow.
LEMMA FollowFastGrounded ==
  ASSUME Inductive, Grounded, NEW rel \in Relation, FollowFast(rel)
  PROVE  Grounded'
<1>1. /\ Following(rel) /\ {rel} \in SUBSET FastRelations
      /\ UNCHANGED <<before, roots, keep_parents, data, context, fast_deletes, restricted_objects,
                     _pending_collects, protected_objects>>
  BY DEF FollowFast, context, plan, FastRelations
<1>2. stack' = SetTop([Without(rel) EXCEPT !.fast = @ \union {rel}])
  BY DEF FollowFast
<1>3. \A c \in ToSet(stack') : c \in ToSet(stack) \/ FrameGrounded(c)'
  BY <1>1, <1>2, GroundedWithout
<1> QED
  BY <1>1, <1>3, NothingCollected, GroundedGoesOn

\* SET_NULL adds updates only.
LEMMA FollowSetNullGrounded ==
  ASSUME Inductive, Grounded, NEW rel \in Relation, FollowSetNull(rel)
  PROVE  Grounded'
<1>1. /\ Following(rel) /\ Drain(rel)
      /\ UNCHANGED <<before, roots, keep_parents, data, fast_deletes, restricted_objects,
                     _pending_collects, protected_objects>>
  BY DEF FollowSetNull, Handled, Drain, context
<1>2. Collected' = Collected /\ Collected' \subseteq Doomed
  BY <1>1, NothingCollected
<1>3. \A c \in ToSet(stack') : c \in ToSet(stack) \/ FrameGrounded(c)'
  BY <1>1, <1>2, GroundedDrain
<1> QED
  BY <1>1, <1>2, <1>3, GroundedGoesOn

\* A row that restricts refers to a row that has to go.
LEMMA FollowRestrictGrounded ==
  ASSUME Inductive, Grounded, NEW rel \in Relation, FollowRestrict(rel)
  PROVE  Grounded'
<1>1. /\ Following(rel) /\ Drain(rel) /\ rel.on_delete = "RESTRICT"
      /\ restricted_objects' = restricted_objects \union Found(rel)
      /\ UNCHANGED <<before, roots, keep_parents, data, fast_deletes,
                     _pending_collects, protected_objects>>
  BY DEF FollowRestrict, Handled, Drain, context
<1>2. Collected' = Collected /\ Collected' \subseteq Doomed
  BY <1>1, NothingCollected
<1>3. \A c \in ToSet(stack') : c \in ToSet(stack) \/ FrameGrounded(c)'
  BY <1>1, <1>2, GroundedDrain
<1>4. ASSUME NEW r \in Found(rel)
      PROVE  \E e \in before : e.from = r /\ Holds("RESTRICT", e)
  <2>1. PICK e \in before : e.by = rel /\ e.from = r /\ e.to \in Doomed
    BY <1>1, FoundForAReason
  <2> QED
    BY <1>1, <2>1 DEF Holds
<1>5. \A r \in restricted_objects' : \/ r \in restricted_objects
                                     \/ \E e \in before : e.from = r /\ Holds("RESTRICT", e)
  BY <1>1, <1>4
<1> QED
  BY <1>1, <1>2, <1>3, <1>5, GroundedGoesOn

\* A protected row is one that has to go.
LEMMA FollowProtectGrounded ==
  ASSUME Inductive, Grounded, NEW rel \in Relation, FollowProtect(rel)
  PROVE  Grounded'
<1>1. /\ Following(rel) /\ rel.on_delete = "PROTECT" /\ Found(rel) # {}
      /\ {} \in SUBSET FastRelations
      /\ UNCHANGED <<before, roots, keep_parents, data, context, fast_deletes, restricted_objects,
                     _pending_collects>>
  BY DEF FollowProtect, Handled, context, plan
<1>2. Protected
  <2>1. PICK r \in Found(rel) : TRUE
    BY <1>1
  <2>2. PICK e \in before : e.by = rel /\ e.to \in Doomed
    BY <1>1, <2>1, FoundForAReason
  <2> QED
    BY <1>1, <2>2 DEF Protected, Holds
<1>3. \A c \in ToSet(stack') : c \in ToSet(stack) \/ FrameGrounded(c)'
  <2>1. CASE Len(stack) = 1
    <3>1. stack' = SetTop(Without(rel))
      BY <2>1 DEF FollowProtect
    <3>2. stack' = SetTop([Without(rel) EXCEPT !.fast = @ \union {}])
      BY <1>1, <3>1, WithoutAsIs DEF Inductive
    <3> QED
      BY <1>1, <3>2, GroundedWithout
  <2>2. CASE Len(stack) # 1
    <3>1. stack' = <<Head(stack)>>
      BY <2>2 DEF FollowProtect
    <3>2. stack \in Seq(Frames) /\ stack # <<>>
      BY <1>1 DEF Inductive, Shape, Following
    <3>3. Head(stack) \in ToSet(stack)
      BY <3>2, FirstTaken
    <3>4. ToSet(<<Head(stack)>>) = {Head(stack)}
      BY DEF ToSet
    <3>5. ToSet(stack') = {Head(stack)}
      BY <3>1, <3>4
    <3> QED
      BY <3>3, <3>5
  <2> QED
    BY <2>1, <2>2
<1> QED
  BY <1>1, <1>2, <1>3, NothingCollected, GroundedGoesOn

\* What a cascade finds is collected and queued, with the parent it came from.
LEMMA FollowCascadeGrounded ==
  ASSUME CascadesAreCollected, Inductive, Grounded, NEW rel \in Relation, FollowCascade(rel)
  PROVE  Grounded'
<1>0. PICK objs : objs = Found(rel)
  OBVIOUS
<1>1. /\ Following(rel) /\ Drain(rel) /\ rel.on_delete = "CASCADE"
      /\ UNCHANGED <<before, roots, keep_parents, fast_deletes, restricted_objects,
                     protected_objects>>
  BY DEF FollowCascade, Handled, Drain, context
<1>2. Collected' = Collected \union objs
  BY <1>0, CascadeCollects
<1>3. ToSet(_pending_collects') = ToSet(_pending_collects) \union {objs}
  BY <1>0, CascadeCollects
<1>4. ASSUME NEW r \in objs
      PROVE  \E e \in before : /\ e.by = rel /\ e.from = r
                               /\ e.to \in Collected /\ e.to \in Doomed
  BY <1>0, <1>1, FoundForAReason
<1>5. objs \subseteq Doomed
  BY <1>1, <1>4, Takes
<1>6. Collected' \subseteq Doomed
  BY <1>2, <1>5 DEF Grounded
<1>7. ASSUME NEW e \in before, e.by.parent_link, e.from \in objs
      PROVE  e.to \in Collected
  <2>1. PICK f \in before : f.by = rel /\ f.from = e.from /\ f.to \in Collected
    BY <1>4, <1>7
  <2>2. e.by \in Relation /\ ModelOf[e.from] = e.by.from /\ ModelOf[e.from] = rel.from
    BY <2>1, References DEF Inductive, Shape
  <2>3. e.by \in Links(rel.from)
    BY <1>7, <2>2 DEF Links
  <2>4. e.by = rel
    BY <1>1, <2>3 DEF CascadesAreCollected
  <2>5. e = f
    BY <2>1, <2>4, SchemaAssumption DEF Inductive, Shape
  <2> QED
    BY <2>1, <2>5
<1>8. Placed(objs)'
  <2>1. \A x \in Reached(objs)' : x \in objs \/ x \in Collected
    BY <1>1, <1>7 DEF Reached
  <2> QED
    BY <1>2, <2>1 DEF Placed
<1>9. \A c \in ToSet(stack') : c \in ToSet(stack) \/ FrameGrounded(c)'
  BY <1>1, <1>2, GroundedDrain
<1>10. \A e \in before : e.by.parent_link /\ e.from \in Collected' =>
         e.from \in Collected \/ e.to \in Collected'
  BY <1>2, <1>7
<1> QED
  BY <1>1, <1>2, <1>3, <1>6, <1>8, <1>9, <1>10, GroundedGoesOn

\* What is flushed is what the coroutine was to follow.
LEMMA FlushGrounded ==
  ASSUME Grounded, UNCHANGED <<before, roots, keep_parents, data>>,
         NEW c \in ToSet(stack), Flush(c), NEW q \in fast_deletes'
  PROVE  q \in fast_deletes \/ Sighted(q[1], q[2])'
<1>1. CASE \E rel \in c.fast : q = <<rel, c.objs>>
  <2>1. PICK rel \in c.fast : q = <<rel, c.objs>>
    BY <1>1
  <2>2. Sighted(rel, c.objs)
    BY DEF Grounded, FrameGrounded
  <2>3. Sighted(rel, c.objs)'
    BY <2>2, SightedStays, NothingCollected
  <2> QED
    BY <2>1, <2>3
<1> QED
  BY <1>1 DEF Flush

\* A coroutine ends.
LEMMA RelatedDoneGrounded ==
  ASSUME Inductive, Grounded, RelatedDone
  PROVE  Grounded'
<1>1. /\ pc = "collect" /\ stack # <<>> /\ Flush(Top) /\ stack' = Front(stack)
      /\ UNCHANGED <<before, roots, keep_parents, data, restricted_objects,
                     _pending_collects, protected_objects>>
  BY DEF RelatedDone, context
<1>2. Top \in ToSet(stack) /\ ToSet(stack') \subseteq ToSet(stack)
  BY <1>1, Innermost DEF Inductive
<1>3. \A q \in fast_deletes' : q \in fast_deletes \/ Sighted(q[1], q[2])'
  BY <1>1, <1>2, FlushGrounded
<1> QED
  BY <1>1, <1>2, <1>3, NothingCollected, GroundedGoesOn

\* A drain ends.
LEMMA DrainDoneGrounded ==
  ASSUME Inductive, Grounded, DrainDone
  PROVE  Grounded'
<1>1. /\ pc = "collect" /\ stack # <<>> /\ stack' = Front(stack)
      /\ UNCHANGED <<before, roots, keep_parents, data, fast_deletes, restricted_objects,
                     _pending_collects, protected_objects>>
  BY DEF DrainDone, Draining, context, plan
<1>2. ToSet(stack') \subseteq ToSet(stack)
  BY <1>1, Innermost DEF Inductive
<1> QED
  BY <1>1, <1>2, NothingCollected, GroundedGoesOn

\* The queue changes hands.
LEMMA TakePendingGrounded ==
  ASSUME Inductive, Grounded, TakePending
  PROVE  Grounded'
<1>1. /\ _pending_collects' = <<>>
      /\ UNCHANGED <<before, roots, keep_parents, data, fast_deletes, restricted_objects,
                     protected_objects>>
  BY DEF TakePending, context, plan
<1>2. PICK d \in Frames :
        /\ d.objs = Top.objs /\ d.rels = Top.rels /\ d.fast = Top.fast
        /\ d.items = _pending_collects
        /\ ToSet(stack') = ToSet(Front(stack)) \union {d}
        /\ ToSet(stack) = ToSet(Front(stack)) \union {Top}
  BY PendingTaken
<1>3. FrameGrounded(Top)
  BY <1>2 DEF Grounded
<1>4. FrameGrounded(d)
  BY <1>2, <1>3 DEF FrameGrounded, Grounded
<1>5. \A c \in ToSet(stack') : c \in ToSet(stack) \/ FrameGrounded(c)'
  BY <1>1, <1>2, <1>4, NothingCollected
<1>6. ToSet(_pending_collects') = {}
  BY <1>1, EmptyTuple DEF ToSet
<1> QED
  BY <1>1, <1>5, <1>6, NothingCollected, GroundedGoesOn

\* The rows of a batch are collected: its coroutine can see what it follows.
LEMMA FollowItemGrounded ==
  ASSUME Inductive, Grounded, FollowItem
  PROVE  Grounded'
<1>1. UNCHANGED <<before, roots, keep_parents, data, fast_deletes, restricted_objects,
                  _pending_collects, protected_objects>>
  BY DEF FollowItem, context, plan
<1>2. PICK d, f \in Frames, batch \in Batches :
        /\ d.objs = Top.objs /\ d.rels = Top.rels /\ d.fast = Top.fast
        /\ ToSet(Top.items) = {batch} \union ToSet(d.items)
        /\ f.objs = batch /\ f.fast = {} /\ ToSet(f.items) = {}
        /\ ToSet(stack') = ToSet(Front(stack)) \union {d} \union {f}
        /\ ToSet(stack) = ToSet(Front(stack)) \union {Top}
  BY ItemHandedOver
<1>3. FrameGrounded(Top)
  BY <1>2 DEF Grounded
<1>4. FrameGrounded(d)
  BY <1>2, <1>3 DEF FrameGrounded
<1>5. Placed(batch)
  BY <1>2, <1>3 DEF FrameGrounded
<1>6. FrameGrounded(f)
  BY <1>2, <1>5 DEF FrameGrounded, Sighted, Placed
<1>7. FrameGrounded(d)' /\ FrameGrounded(f)'
  BY <1>1, <1>4, <1>6, NothingCollected
<1>8. \A c \in ToSet(stack') : c \in ToSet(stack) \/ FrameGrounded(c)'
  BY <1>2, <1>7
<1> QED
  BY <1>1, <1>8, NothingCollected, GroundedGoesOn

\* The objects given have their parents with them, unless they are kept, and no
\* parent has a parent.
LEMMA InitGrounded ==
  ASSUME Init
  PROVE  Grounded
<1>0. PICK m, up : m = OfModel(roots) /\ up = IF keep_parents THEN {} ELSE AsParents(roots)
  OBVIOUS
<1>1. /\ refs = before /\ before \in Databases /\ protected_objects = {}
      /\ restricted_objects = {} /\ fast_deletes = {} /\ _pending_collects = <<>>
  BY DEF Init
<1>2. Collected = roots \union up /\ up \subseteq AsParents(roots)
  BY <1>0, InitCollects
<1>3. PICK c \in Frames :
        /\ c.objs = roots /\ c.items = <<>> /\ c.fast = {} /\ ToSet(stack) = {c}
        /\ c.rels = {rel \in Candidates(m) : ~(keep_parents /\ rel.to \in Ancestors(m))}
  BY <1>0, InitWalks
<1>4. \A r \in roots : r \in Row /\ ModelOf[r] = m
  BY <1>0, InitWalks, BatchModel
<1>5. ASSUME NEW x \in AsParents(roots)
      PROVE  \E e \in before : /\ e.by \in Links(m) /\ e.from \in roots /\ e.to = x
                               /\ ModelOf[x] = e.by.to
  BY <1>1, <1>4, <1>5, References DEF AsParents, Links
<1>6. roots \subseteq Doomed
  BY DEF Doomed
<1>7. Collected \subseteq Doomed
  <2>1. ASSUME NEW x \in up
        PROVE  x \in Doomed
    <3>1. PICK e \in before : e.by \in Links(m) /\ e.from \in roots /\ e.to = x
      BY <1>2, <1>5, <2>1
    <3>2. e.by.parent_link /\ e.by.on_delete = "CASCADE"
      BY <3>1, SchemaAssumption DEF Links
    <3> QED
      BY <1>0, <1>6, <2>1, <3>1, <3>2, Takes
  <2> QED
    BY <1>2, <1>6, <2>1
<1>8. ASSUME NEW e \in before, e.by.parent_link, e.from \in Collected
      PROVE  e.to \in Collected \/ (keep_parents /\ e.from \in roots)
  <2>1. CASE e.from \in roots
    <3>1. e.to \in AsParents(roots)
      BY <1>1, <1>8, <2>1 DEF AsParents
    <3> QED
      BY <1>0, <1>2, <2>1, <3>1
  <2>2. CASE e.from \in up
    <3>1. PICK x \in before : x.by \in Links(m) /\ ModelOf[e.from] = x.by.to
      BY <1>2, <1>5, <2>2
    <3>2. e.by \in Relation /\ e.by.from = x.by.to
      BY <1>1, <3>1, References
    <3> QED
      BY <1>8, <3>1, <3>2, SchemaAssumption DEF Links
  <2> QED
    BY <1>2, <1>8, <2>1, <2>2
<1>9. FrameGrounded(c)
  <2>1. ASSUME NEW rel \in c.rels, NEW x \in Reached(c.objs), ModelOf[x] = rel.to
        PROVE  x \in Collected
    <3>1. CASE x \in roots
      BY <1>2, <3>1
    <3>2. CASE x \notin roots
      <4>1. x \in AsParents(roots)
        BY <1>1, <1>3, <2>1, <3>2 DEF Reached, AsParents
      <4>2. rel.to \in Ancestors(m)
        BY <1>5, <2>1, <4>1 DEF Ancestors
      <4>3. ~keep_parents
        BY <1>3, <2>1, <4>2
      <4> QED
        BY <1>0, <1>2, <4>1, <4>3
    <3> QED
      BY <3>1, <3>2
  <2>2. ToSet(c.items) = {}
    BY <1>3, EmptyTuple DEF ToSet
  <2> QED
    BY <1>3, <2>1, <2>2 DEF FrameGrounded, Sighted
<1>10. ToSet(_pending_collects) = {}
  BY <1>1, EmptyTuple DEF ToSet
<1> QED
  BY <1>1, <1>2, <1>3, <1>7, <1>8, <1>9, <1>10 DEF Grounded

\* What adelete() does after the walk collects nothing.
LEMMA GroundedAfterwards ==
  ASSUME Grounded, UNCHANGED <<before, roots, keep_parents, data, restricted_objects, walk>>,
         \A q \in fast_deletes' : q \in fast_deletes \/ Sighted(q[1], q[2])'
  PROVE  Grounded'
<1>1. UNCHANGED <<_pending_collects, protected_objects, stack>>
  BY DEF walk
<1> QED
  BY <1>1, NothingCollected, GroundedGoesOn

\* Every step has a reason for what it collects.
LEMMA GroundedStep ==
  ASSUME CascadesAreCollected, Inductive, Grounded, [Next]_vars
  PROVE  Grounded'
<1>1. ASSUME NEW rel \in Relation,
             \/ FollowNothing(rel) \/ FollowFast(rel) \/ FollowCascade(rel)
             \/ FollowSetNull(rel) \/ FollowRestrict(rel) \/ FollowProtect(rel)
      PROVE  Grounded'
  BY <1>1, FollowNothingGrounded, FollowFastGrounded, FollowCascadeGrounded,
     FollowSetNullGrounded, FollowRestrictGrounded, FollowProtectGrounded
<1>2. CASE RelatedDone \/ TakePending \/ FollowItem \/ DrainDone
  BY <1>2, RelatedDoneGrounded, TakePendingGrounded, FollowItemGrounded, DrainDoneGrounded
<1>3. CASE AcollectDone
  <2>1. /\ pc = "collect" /\ Len(stack) = 1 /\ Flush(Top)
        /\ UNCHANGED <<before, roots, keep_parents, data, restricted_objects, walk>>
    BY <1>3 DEF AcollectDone, AllFollowed, context
  <2>2. Top \in ToSet(stack)
    BY <2>1, LenProperties DEF Inductive, Shape, ToSet, Top
  <2>3. \A q \in fast_deletes' : q \in fast_deletes \/ Sighted(q[1], q[2])'
    BY <2>1, <2>2, FlushGrounded
  <2> QED
    BY <2>1, <2>3, GroundedAfterwards
<1>4. CASE \/ GiveUp \/ RaiseProtected \/ SortTake \/ Sort \/ FastDeletes \/ FieldUpdates
           \/ DeleteModel \/ Commit \/ UNCHANGED vars
  <2>1. UNCHANGED <<before, roots, keep_parents, data, restricted_objects, fast_deletes, walk>>
    BY <1>4 DEF GiveUp, RaiseProtected, SortTake, Sort, FastDeletes, FieldUpdates, DeleteModel,
                Commit, vars, context, plan
  <2> QED
    BY <2>1, GroundedAfterwards
<1> QED
  BY <1>1, <1>2, <1>3, <1>4 DEF Next, Over

-----------------------------------------------------------------------------
(* Every reference is answered.                                            *)

\* What is answered stays answered while the plan grows.
LEMMA AnsweredStays ==
  ASSUME NEW e, Answered(e), before' = before, Collected \subseteq Collected',
         fast_deletes \subseteq fast_deletes', restricted_objects \subseteq restricted_objects'
  PROVE  Answered(e)'
<1>1. FastDeleted(e) => FastDeleted(e)'
  BY DEF FastDeleted, Reached
<1> QED
  BY <1>1 DEF Answered

\* A reference whose row is deleted without a look is answered.
LEMMA FastIsAnswered ==
  ASSUME Shape', NEW e, FastDeleted(e)'
  PROVE  Answered(e)'
<1>1. PICK q \in fast_deletes' : e.by = q[1]
  BY DEF FastDeleted
<1>2. e.by \in FastRelations
  BY <1>1 DEF Shape
<1> QED
  BY <1>2 DEF FastRelations, CanFastDelete, Answered

\* The walk goes on: what a step no longer has to follow it has answered.
LEMMA UnansweredGoesOn ==
  ASSUME NothingUnanswered, pc = "collect", pc' = "collect",
         before' = before, protected_objects' = protected_objects,
         Collected \subseteq Collected', fast_deletes \subseteq fast_deletes',
         restricted_objects \subseteq restricted_objects',
         \A r \in Collected' : r \in Collected \/ \E objs \in ToSet(_pending_collects') : r \in objs,
         Walking => \A e \in before : ToFollow(e) => ToFollow(e)' \/ Answered(e)'
  PROVE  NothingUnanswered'
<1> SUFFICES ASSUME Walking', NEW e \in before, e.to \in Collected'
             PROVE  Answered(e)' \/ ToFollow(e)'
  BY DEF NothingUnanswered
<1>1. Walking
  BY DEF Walking
<1>2. CASE e.to \in Collected
  <2>1. Answered(e) \/ ToFollow(e)
    BY <1>1, <1>2 DEF NothingUnanswered
  <2> QED
    BY <1>1, <2>1, AnsweredStays
<1>3. CASE e.to \notin Collected
  BY <1>3 DEF ToFollow
<1> QED
  BY <1>2, <1>3

\* A handler answers what its relation found.
LEMMA HandlerAnswers ==
  ASSUME Inductive, NEW rel \in Relation, Following(rel), Drain(rel), NothingUnanswered,
         Collected \subseteq Collected', fast_deletes \subseteq fast_deletes',
         restricted_objects \subseteq restricted_objects',
         ToSet(_pending_collects) \subseteq ToSet(_pending_collects'),
         \A r \in Collected' : r \in Collected \/ \E objs \in ToSet(_pending_collects') : r \in objs,
         \A e \in before : e.by = rel /\ e.from \in Found(rel) => Answered(e)'
  PROVE  NothingUnanswered'
<1>1. /\ pc = "collect" /\ pc' = "collect"
      /\ before' = before /\ protected_objects' = protected_objects
  BY DEF Following, Drain, context
<1>2. \A e \in before : ToFollow(e) => ToFollow(e)' \/ Answered(e)'
  BY HandlerFollows
<1> QED
  BY <1>1, <1>2, UnansweredGoesOn

\* At the start, what leads to the objects or their parents is to follow.
LEMMA InitUnanswered ==
  ASSUME LeftToTheCollector, Init
  PROVE  NothingUnanswered
<1> SUFFICES ASSUME NEW e \in before, e.to \in Collected
             PROVE  Answered(e) \/ ToFollow(e)
  BY DEF NothingUnanswered
<1>1. CASE e.by.parent_link /\ e.from \in roots
  <2>1. e.by \in Relation /\ e.from \in Collected
    BY <1>1, InitCollects, InitWalks, References
  <2> QED
    BY <1>1, <2>1, SchemaAssumption DEF Answered
<1> QED
  BY <1>1, InitFollows

\* Every step of the walk answers what it stops following.
LEMMA UnansweredStep ==
  ASSUME LeftToTheCollector, Inductive, Inductive', NothingUnanswered, [Next]_vars
  PROVE  NothingUnanswered'
<1>1. ASSUME NEW rel \in Relation, NEW fast \in SUBSET FastRelations, Following(rel),
             stack' = SetTop([Without(rel) EXCEPT !.fast = @ \union fast]),
             rel \in fast \/ Found(rel) = {},
             UNCHANGED <<context, plan, _pending_collects, protected_objects, pc>>
      PROVE  NothingUnanswered'
  <2>1. /\ pc = "collect" /\ before' = before /\ Collected' = Collected
        /\ UNCHANGED <<fast_deletes, restricted_objects>>
    BY <1>1 DEF Following, context, plan, Collected
  <2>2. \A e \in before : ToFollow(e) => ToFollow(e)'
    BY <1>1, <2>1, WithoutFollows
  <2> QED
    BY <1>1, <2>1, <2>2, UnansweredGoesOn
<1>2. ASSUME NEW rel \in Relation, FollowNothing(rel)
      PROVE  NothingUnanswered'
  <2>1. /\ Following(rel) /\ Found(rel) = {} /\ {} \in SUBSET FastRelations
        /\ UNCHANGED <<context, plan, _pending_collects, protected_objects, pc>>
    BY <1>2 DEF FollowNothing, LeftToTheCollector
  <2>2. stack' = SetTop([Without(rel) EXCEPT !.fast = @ \union {}])
    BY <1>2, <2>1, WithoutAsIs DEF FollowNothing, Inductive
  <2> QED
    BY <1>1, <2>1, <2>2
<1>3. ASSUME NEW rel \in Relation, FollowFast(rel)
      PROVE  NothingUnanswered'
  <2>1. /\ Following(rel) /\ {rel} \in SUBSET FastRelations
        /\ UNCHANGED <<context, plan, _pending_collects, protected_objects, pc>>
    BY <1>3 DEF FollowFast, FastRelations
  <2>2. stack' = SetTop([Without(rel) EXCEPT !.fast = @ \union {rel}])
    BY <1>3 DEF FollowFast
  <2> QED
    BY <1>1, <2>1, <2>2
<1>4. ASSUME NEW rel \in Relation, FollowCascade(rel)
      PROVE  NothingUnanswered'
  <2>1. /\ Following(rel) /\ Drain(rel) /\ rel.on_delete = "CASCADE"
        /\ UNCHANGED <<restricted_objects, fast_deletes>>
    BY <1>4 DEF FollowCascade, Handled
  <2>2. /\ Collected' = Collected \union Found(rel)
        /\ ToSet(_pending_collects') = ToSet(_pending_collects) \union {Found(rel)}
    BY <1>4, CascadeCollects
  <2>3. \A e \in before : e.by = rel /\ e.from \in Found(rel) => Answered(e)'
    BY <2>1, <2>2 DEF Answered
  <2> QED
    BY <2>1, <2>2, <2>3, HandlerAnswers
<1>5. ASSUME NEW rel \in Relation, FollowSetNull(rel)
      PROVE  NothingUnanswered'
  <2>1. /\ Following(rel) /\ Drain(rel) /\ rel.on_delete = "SET_NULL"
        /\ UNCHANGED <<restricted_objects, fast_deletes, _pending_collects, data>>
    BY <1>5 DEF FollowSetNull, Handled
  <2>2. Collected' = Collected
    BY <2>1 DEF Collected
  <2>3. \A e \in before : e.by = rel /\ e.from \in Found(rel) => Answered(e)'
    BY <2>1 DEF Answered
  <2> QED
    BY <2>1, <2>2, <2>3, HandlerAnswers
<1>6. ASSUME NEW rel \in Relation, FollowRestrict(rel)
      PROVE  NothingUnanswered'
  <2>1. /\ Following(rel) /\ Drain(rel) /\ rel.on_delete = "RESTRICT"
        /\ restricted_objects' = restricted_objects \union Found(rel)
        /\ UNCHANGED <<fast_deletes, _pending_collects, data>>
    BY <1>6 DEF FollowRestrict, Handled
  <2>2. Collected' = Collected
    BY <2>1 DEF Collected
  <2>3. \A e \in before : e.by = rel /\ e.from \in Found(rel) => Answered(e)'
    BY <2>1 DEF Answered
  <2> QED
    BY <2>1, <2>2, <2>3, HandlerAnswers
<1>7. ASSUME NEW rel \in Relation, FollowProtect(rel)
      PROVE  NothingUnanswered'
  BY <1>7 DEF FollowProtect, NothingUnanswered, Walking
<1>8. CASE RelatedDone
  <2>1. /\ pc = "collect" /\ pc' = "collect" /\ fast_deletes \subseteq fast_deletes'
        /\ UNCHANGED <<context, data, restricted_objects, protected_objects>>
    BY <1>8 DEF RelatedDone, Flush
  <2>2. before' = before /\ Collected' = Collected
    BY <2>1 DEF context, Collected
  <2>3. \A e \in before : ToFollow(e) => ToFollow(e)' \/ Answered(e)'
    BY <1>8, RelatedDoneFollows, FastIsAnswered DEF Inductive
  <2> QED
    BY <2>1, <2>2, <2>3, UnansweredGoesOn
<1>9. CASE TakePending \/ FollowItem \/ DrainDone
  <2>1. /\ pc = "collect" /\ pc' = "collect"
        /\ UNCHANGED <<context, plan, protected_objects>>
    BY <1>9 DEF TakePending, FollowItem, DrainDone, Draining
  <2>2. before' = before /\ Collected' = Collected
        /\ UNCHANGED <<restricted_objects, fast_deletes>>
    BY <2>1 DEF context, plan, Collected
  <2>3. \A e \in before : ToFollow(e) => ToFollow(e)'
    BY <1>9, TakePendingFollows, FollowItemFollows, DrainDoneFollows
  <2> QED
    BY <2>1, <2>2, <2>3, UnansweredGoesOn
<1>10. CASE \/ GiveUp \/ RaiseProtected \/ AcollectDone \/ SortTake \/ Sort \/ FastDeletes
            \/ FieldUpdates \/ DeleteModel \/ Commit
  <2>1. pc' # "collect"
    BY <1>10 DEF GiveUp, RaiseProtected, AcollectDone, SortTake, Sort, FastDeletes, FieldUpdates,
                 DeleteModel, Commit
  <2> QED
    BY <2>1 DEF NothingUnanswered, Walking
<1>11. CASE UNCHANGED vars
  <2>1. UNCHANGED <<before, data, restricted_objects, fast_deletes, _pending_collects,
                    protected_objects, stack, pc>>
    BY <1>11 DEF vars, context, plan, walk
  <2>2. ASSUME NEW e \in before
        PROVE  Answered(e)' = Answered(e) /\ ToFollow(e)' = ToFollow(e)
    BY <2>1 DEF Answered, FastDeleted, ToFollow, Reached, Collected
  <2>3. Collected' = Collected /\ Walking' = Walking
    BY <2>1 DEF Collected, Walking
  <2> QED
    BY <2>1, <2>2, <2>3 DEF NothingUnanswered
<1> QED
  BY <1>2, <1>3, <1>4, <1>5, <1>6, <1>7, <1>8, <1>9, <1>10, <1>11 DEF Next, Over

-----------------------------------------------------------------------------
(* The end of the walk.                                                    *)

\* A row that is deleted without a look refers to a collected row, by its only link.
LEMMA FastRow ==
  ASSUME Shape, NEW r \in Fast,
         \A q \in fast_deletes : Sighted(q[1], q[2])
  PROVE  \E f \in before : /\ f.from = r /\ f.to \in Collected /\ f.by \in FastRelations
                           /\ f.by.on_delete = "CASCADE" /\ f.by.from = ModelOf[r]
                           /\ Links(ModelOf[r]) \subseteq {f.by}
<1>1. PICK f \in before : FastDeleted(f) /\ f.from = r
  BY DEF Fast
<1>2. PICK q \in fast_deletes : f.by = q[1] /\ f.to \in Reached(q[2])
  BY <1>1 DEF FastDeleted
<1>3. f.by \in FastRelations
  BY <1>2 DEF Shape
<1>4. ModelOf[f.to] = f.by.to /\ f.by.from = ModelOf[r]
  BY <1>1, References DEF Shape
<1>5. f.to \in Collected
  BY <1>2, <1>4 DEF Sighted
<1> QED
  BY <1>1, <1>3, <1>4, <1>5 DEF FastRelations, CanFastDelete

\* When every reference to a collected row is answered, the plan is what has to go,
\* and nothing in it is protected.
LEMMA PlanIsWhole ==
  ASSUME LeftToTheCollector, Shape, Grounded,
         EveryReferenceAnswered
  PROVE  Doomed = Collected \union Fast /\ ~Protected
<1> DEFINE T == Collected \union Fast
<1>1. \A r \in Fast :
        \E f \in before : /\ f.from = r /\ f.to \in Collected /\ f.by \in FastRelations
                          /\ f.by.on_delete = "CASCADE" /\ f.by.from = ModelOf[r]
                          /\ Links(ModelOf[r]) \subseteq {f.by}
  BY FastRow DEF Grounded
<1>2. ASSUME NEW e \in before
      PROVE  e.to \notin Fast
  BY <1>1, <1>2, NothingRefersToFast
<1>3. ASSUME NEW e \in Cascades, e.to \in T
      PROVE  e.from \in T
  <2>1. e \in before /\ e.by.on_delete = "CASCADE" /\ e.to \in Collected
    BY <1>2, <1>3 DEF Cascades
  <2>2. e.from \in Collected \/ FastDeleted(e)
    BY <2>1 DEF EveryReferenceAnswered, Answered
  <2> QED
    BY <2>1, <2>2 DEF Fast
<1>4. ASSUME NEW e \in Cascades, e.by.parent_link, ~keep_parents, e.from \in T
      PROVE  e.to \in T
  <2>1. e \in before
    BY DEF Cascades
  <2>2. CASE e.from \in Collected
    BY <1>4, <2>1, <2>2 DEF Grounded
  <2>3. CASE e.from \in Fast
    <3>1. PICK f \in before : /\ f.from = e.from /\ f.to \in Collected
                              /\ Links(ModelOf[e.from]) \subseteq {f.by}
      BY <1>1, <2>3
    <3>2. e.by \in Links(ModelOf[e.from])
      BY <1>4, <2>1, References DEF Shape, Links
    <3>3. e = f
      BY <2>1, <3>1, <3>2, SchemaAssumption DEF Shape
    <3> QED
      BY <3>1, <3>3
  <2> QED
    BY <1>4, <2>2, <2>3
<1>5. Closed(T)
  BY <1>3, <1>4 DEF Closed
<1>6. roots \subseteq T
  BY DEF Grounded
<1>7. Doomed \subseteq T
  BY <1>5, <1>6, DoomedIsLeast
<1>8. Fast \subseteq Doomed
  BY <1>1, Takes DEF Grounded
<1>9. Doomed = T
  BY <1>7, <1>8 DEF Grounded
<1>10. ~Protected
  <2> SUFFICES ASSUME NEW e \in before, Holds("PROTECT", e)
               PROVE  FALSE
    BY DEF Protected
  <2>1. e.by.on_delete = "PROTECT" /\ e.to \in Collected
    BY <1>2, <1>9 DEF Holds
  <2> QED
    BY <2>1 DEF EveryReferenceAnswered, Answered
<1> QED
  BY <1>9, <1>10

\* At the end of the walk every reference is answered.
LEMMA AllAnswered ==
  ASSUME LeftToTheCollector, Inductive, Inductive', NothingUnanswered, AcollectDone,
         NEW e \in before, e.to \in Collected
  PROVE  Answered(e)'
<1>1. /\ pc = "collect" /\ Len(stack) = 1 /\ Top.kind = "acollect" /\ Top.rels = {} /\ Flush(Top)
      /\ protected_objects = {} /\ before' = before /\ data' = data
      /\ restricted_objects' = restricted_objects
  BY DEF AcollectDone, AllFollowed, context
<1>2. ToSet(stack) = {Top} /\ stack # <<>>
  <2>1. stack \in Seq(Frames) /\ DOMAIN stack = 1 .. Len(stack)
    BY LenProperties DEF Inductive, Shape
  <2>2. ToSet(stack) = {Top}
    BY <1>1, <2>1 DEF ToSet, Top
  <2>3. ASSUME stack = <<>>
        PROVE  FALSE
    <3>1. ToSet(<<>>) = {}
      BY EmptyTuple DEF ToSet
    <3>2. ToSet(stack) = {}
      BY <2>3, <3>1
    <3> QED
      BY <2>2, <3>2
  <2> QED
    BY <2>2, <2>3
<1>3. FrameOK(Top) /\ Top.items = <<>>
  BY <1>1, <1>2 DEF Inductive, Shape, FrameOK
<1>4. ToSet(Top.items) = {}
  BY <1>3, EmptyTuple DEF ToSet
<1>5. ToSet(_pending_collects) = {}
  <2>1. _pending_collects = <<>>
    BY <1>1, <1>2 DEF Inductive, Queue, Walking
  <2> QED
    BY <2>1, EmptyTuple DEF ToSet
<1>6. Answered(e) \/ ToFollow(e)
  BY <1>1 DEF NothingUnanswered, Walking
<1>7. CASE Answered(e)
  <2>1. Collected' = Collected /\ fast_deletes \subseteq fast_deletes'
    BY <1>1 DEF Collected, Flush
  <2> QED
    BY <1>1, <1>7, <2>1, AnsweredStays
<1>8. CASE ToFollow(e)
  <2>1. e.by \in Top.fast /\ e.to \in Reached(Top.objs)
    BY <1>1, <1>2, <1>4, <1>5, <1>8 DEF ToFollow
  <2>2. FastDeleted(e)'
    BY <1>1, <2>1, Flushed
  <2> QED
    BY <2>2, FastIsAnswered DEF Inductive
<1> QED
  BY <1>6, <1>7, <1>8

\* The restricted objects are those that restrict: a row that restricts is collected
\* if it has to go at all, unless it goes without a look.
LEMMA RestrictionIsRight ==
  ASSUME Grounded, Doomed = Collected \union Fast,
         EveryReferenceAnswered,
         \A e \in before : e.to \notin Fast
  PROVE  /\ RestrictionHolds => ~Restricted
         /\ Shape /\ NoFastRestriction /\ ~RestrictionHolds => Restricted
<1>1. ASSUME RestrictionHolds, Restricted
      PROVE  FALSE
  <2>1. PICK e \in before : Holds("RESTRICT", e) /\ e.from \notin Doomed
    BY <1>1 DEF Restricted
  <2>2. e.by.on_delete = "RESTRICT" /\ e.to \in Collected
    BY <2>1 DEF Holds
  <2>3. e.from \in restricted_objects
    BY <2>2 DEF EveryReferenceAnswered, Answered
  <2> QED
    BY <1>1, <2>1, <2>3 DEF RestrictionHolds
<1>2. ASSUME Shape, NoFastRestriction, ~RestrictionHolds
      PROVE  Restricted
  <2>1. PICK r \in restricted_objects : r \notin Collected
    BY <1>2 DEF RestrictionHolds
  <2>2. PICK e \in before : e.from = r /\ Holds("RESTRICT", e)
    BY <2>1 DEF Grounded
  <2>3. e.by \in Relation /\ e.by.from = ModelOf[r] /\ e.by.on_delete = "RESTRICT"
    BY <1>2, <2>2, References DEF Shape, Holds
  <2>4. ASSUME r \in Fast
        PROVE  FALSE
    <3>1. PICK f \in before : f.by \in FastRelations /\ f.by.from = ModelOf[r]
      BY <1>2, <2>4, FastRow DEF Grounded
    <3> QED
      BY <1>2, <2>3, <3>1 DEF NoFastRestriction, FastRelations
  <2> QED
    BY <2>1, <2>2, <2>4 DEF Restricted
<1> QED
  BY <1>1, <1>2

-----------------------------------------------------------------------------
(* What is decided, and what is taken.                                     *)

\* What the decision rests on does not change afterwards.
LEMMA SamePlan ==
  ASSUME UNCHANGED <<before, data, fast_deletes, restricted_objects>>
  PROVE  /\ Collected' = Collected /\ Fast' = Fast
         /\ EveryReferenceAnswered' = EveryReferenceAnswered
         /\ RestrictionHolds' = RestrictionHolds
<1>1. Collected' = Collected
  BY DEF Collected
<1>2. \A e : FastDeleted(e)' = FastDeleted(e)
  BY DEF FastDeleted, Reached
<1>3. \A e : Answered(e)' = Answered(e)
  BY <1>1, <1>2 DEF Answered
<1> QED
  BY <1>1, <1>2, <1>3 DEF Fast, EveryReferenceAnswered, RestrictionHolds

\* A step of the walk decides nothing and takes nothing.
LEMMA WalkDecidesNothing ==
  ASSUME Verdict, Taking, pc = "collect", pc' = "collect", UNCHANGED <<database, outcome>>
  PROVE  Verdict' /\ Taking'
BY DEF Verdict, Taking, Decided, Executing

\* A call that raises before the execution leaves the database as it was.
LEMMA NothingTaken ==
  ASSUME Inductive, pc = "collect", pc' = "done", outcome' # "deleted",
         UNCHANGED <<database, context>>
  PROVE  Taking'
<1>1. rows' = Row /\ refs' = before
  BY DEF Inductive, Untouched, Planned, database
<1>2. before' = before
  BY DEF context
<1> QED
  BY <1>1, <1>2 DEF Taking, Executing

\* A decision that is left as it is.
LEMMA VerdictStays ==
  ASSUME Verdict, Decided, Decided', UNCHANGED <<before, data, fast_deletes, restricted_objects>>,
         IF pc' = "done" THEN outcome' \in {"deleted", "integrity"} ELSE outcome' = "none"
  PROVE  Verdict'
BY SamePlan DEF Verdict

\* sort() takes no row.
LEMMA SortTakesNothing ==
  ASSUME Verdict, SortTake \/ Sort
  PROVE  Verdict' /\ Taking'
<1>1. /\ pc = "sort" /\ pc' \in {"sort", "fast"} /\ outcome' = outcome
      /\ UNCHANGED <<before, data, fast_deletes, restricted_objects>>
  BY DEF SortTake, Sort, SortOver, context, plan
<1>2. Taking'
  BY <1>1 DEF Taking, Executing
<1>3. outcome' = "none" /\ Decided /\ Decided'
  BY <1>1 DEF Verdict, Decided
<1> QED
  BY <1>1, <1>2, <1>3, VerdictStays

\* The fast deletes take what the plan deletes without a look.
LEMMA FastDeletesTake ==
  ASSUME Inductive, Verdict, FastDeletes
  PROVE  Verdict' /\ Taking'
<1>1. /\ pc = "fast" /\ pc' = "update" /\ outcome' = outcome
      /\ UNCHANGED <<before, data, fast_deletes, restricted_objects>>
  BY DEF FastDeletes, context, plan
<1>2. refs = before /\ rows = Row
  BY <1>1 DEF Inductive, Untouched, Planned
<1>3. Fast = UNION {RelatedObjects(q[1], q[2]) : q \in fast_deletes}
  BY <1>2 DEF Fast, FastDeleted, RelatedObjects, AsParents, Reached
<1>4. rows' = Row \ Fast
  BY <1>2, <1>3 DEF FastDeletes, Erase
<1>5. Collected' = Collected /\ Fast' = Fast
  BY <1>1, SamePlan
<1>6. Taking'
  BY <1>1, <1>4, <1>5 DEF Taking
<1>7. outcome' = "none" /\ Decided /\ Decided'
  BY <1>1 DEF Verdict, Decided
<1> QED
  BY <1>1, <1>6, <1>7, VerdictStays

\* The updates take no row, and a model's rows are of the plan.
LEMMA ExecutionTakes ==
  ASSUME Inductive, Verdict, Taking, FieldUpdates \/ DeleteModel
  PROVE  Verdict' /\ Taking'
<1>1. /\ pc \in {"update", "delete"} /\ pc' = "delete" /\ outcome' = outcome
      /\ UNCHANGED <<before, data, fast_deletes, restricted_objects>>
  BY DEF FieldUpdates, DeleteModel, context, plan
<1>2. rows' \subseteq rows /\ rows \ rows' \subseteq Collected
  <2>1. CASE FieldUpdates
    BY <2>1 DEF FieldUpdates
  <2>2. CASE DeleteModel
    <3>1. models # <<>> /\ rows' = rows \ data[Head(models)] /\ models \in Seq(Model)
      BY <2>2 DEF DeleteModel, Erase, Inductive, Shape
    <3>2. Head(models) \in Model
      BY <3>1, FirstTaken
    <3> QED
      BY <3>1, <3>2 DEF Collected
  <2> QED
    BY <2>1, <2>2
<1>3. Collected' = Collected /\ Fast' = Fast
  BY <1>1, SamePlan
<1>4. Taking'
  BY <1>1, <1>2, <1>3 DEF Taking, Executing
<1>5. outcome' = "none" /\ Decided /\ Decided'
  BY <1>1 DEF Verdict, Decided
<1> QED
  BY <1>1, <1>4, <1>5, VerdictStays

\* When the last model is gone, so is every row of the plan; a COMMIT that is refused
\* takes nothing.
LEMMA CommitTakes ==
  ASSUME LeftToTheCollector, Inductive, Verdict, Taking, Commit
  PROVE  Verdict' /\ Taking'
<1>1. /\ pc = "delete" /\ pc' = "done" /\ models = <<>> /\ outcome' \in {"deleted", "integrity"}
      /\ UNCHANGED <<before, data, fast_deletes, restricted_objects>>
      /\ outcome' = "deleted" => rows' = rows
      /\ outcome' = "integrity" => rows' = Row /\ refs' = before
  BY DEF Commit, context, plan, database
<1>2. ToSet(models) = {}
  BY <1>1, EmptyTuple DEF ToSet
<1>3. \A m \in Model : data[m] \intersect rows = {}
  BY <1>1, <1>2 DEF Inductive, Execution, Executing
<1>4. Collected \intersect rows = {}
  BY <1>3 DEF Collected
<1>5. rows = Row \ (Collected \union Fast)
  BY <1>1, <1>4 DEF Taking, Executing
<1>6. Collected' = Collected /\ Fast' = Fast
  BY <1>1, SamePlan
<1>7. Taking'
  BY <1>1, <1>5, <1>6 DEF Taking, Executing
<1>8. Decided /\ Decided'
  BY <1>1 DEF Decided
<1> QED
  BY <1>1, <1>7, <1>8, VerdictStays

\* The end of the walk decides by what it has found.
LEMMA AcollectDoneDecides ==
  ASSUME LeftToTheCollector, Inductive, Inductive', NothingUnanswered, Verdict, AcollectDone
  PROVE  Verdict' /\ Taking'
<1>1. /\ pc = "collect" /\ before' = before /\ data' = data
      /\ UNCHANGED <<database, context>>
      /\ restricted_objects' = restricted_objects
      /\ \/ RestrictionHolds /\ pc' = "sort" /\ outcome' = outcome
         \/ ~RestrictionHolds /\ pc' = "done" /\ outcome' = "restricted"
  BY DEF AcollectDone, AllFollowed, context
<1>2. Collected' = Collected /\ RestrictionHolds' = RestrictionHolds
  BY <1>1 DEF Collected, RestrictionHolds
<1>3. EveryReferenceAnswered'
  BY <1>1, <1>2, AllAnswered DEF EveryReferenceAnswered
<1>4. outcome = "none"
  BY <1>1 DEF Verdict
<1>5. Verdict'
  BY <1>1, <1>2, <1>3, <1>4 DEF Verdict, Decided
<1>6. Taking'
  BY <1>1, NothingTaken DEF Taking, Executing
<1> QED
  BY <1>5, <1>6

\* The last two parts of the invariant: one case per action.
LEMMA DecidedStep ==
  ASSUME LeftToTheCollector, Inductive, Inductive', NothingUnanswered, Verdict, Taking,
         [Next]_vars
  PROVE  Verdict' /\ Taking'
<1>1. ASSUME NEW rel \in Relation,
             \/ FollowNothing(rel) \/ FollowFast(rel) \/ FollowCascade(rel)
             \/ FollowSetNull(rel) \/ FollowRestrict(rel) \/ FollowProtect(rel)
      PROVE  Verdict' /\ Taking'
  <2>1. pc = "collect" /\ pc' = "collect" /\ UNCHANGED <<database, outcome>>
    BY <1>1 DEF FollowNothing, FollowFast, FollowCascade, FollowSetNull, FollowRestrict,
                FollowProtect, Handled, Following, Drain
  <2> QED
    BY <2>1, WalkDecidesNothing
<1>2. CASE RelatedDone \/ TakePending \/ FollowItem \/ DrainDone
  <2>1. pc = "collect" /\ pc' = "collect" /\ UNCHANGED <<database, outcome>>
    BY <1>2 DEF RelatedDone, TakePending, FollowItem, DrainDone, Draining
  <2> QED
    BY <2>1, WalkDecidesNothing
<1>3. CASE GiveUp
  <2>1. pc = "collect" /\ pc' = "done" /\ outcome' = "recursion" /\ UNCHANGED <<database, context>>
    BY <1>3 DEF GiveUp
  <2> QED
    BY <2>1, NothingTaken DEF Verdict, Decided
<1>4. CASE RaiseProtected
  <2>1. /\ pc = "collect" /\ pc' = "done" /\ outcome' = "protected"
        /\ UNCHANGED <<database, context>>
        /\ protected_objects # {} /\ protected_objects' = protected_objects
    BY <1>4 DEF RaiseProtected, AllFollowed, walk
  <2> QED
    BY <2>1, NothingTaken DEF Verdict, Decided
<1>5. CASE AcollectDone
  BY <1>5, AcollectDoneDecides
<1>6. CASE SortTake \/ Sort
  BY <1>6, SortTakesNothing
<1>7. CASE FastDeletes
  BY <1>7, FastDeletesTake
<1>8. CASE FieldUpdates \/ DeleteModel
  BY <1>8, ExecutionTakes
<1>9. CASE Commit
  BY <1>9, CommitTakes
<1>10. CASE UNCHANGED vars
  <2>1. UNCHANGED <<before, data, fast_deletes, restricted_objects, protected_objects, rows, refs,
                    pc, outcome>>
    BY <1>10 DEF vars, context, plan, walk, database
  <2> QED
    BY <2>1, SamePlan DEF Verdict, Taking, Decided, Executing
<1> QED
  BY <1>1, <1>2, <1>3, <1>4, <1>5, <1>6, <1>7, <1>8, <1>9, <1>10 DEF Next, Over

\* Under CascadesAreCollected, what the proof knows of the plan holds in every state.
LEMMA ExactInvariant ==
  ASSUME CascadesAreCollected
  PROVE  Spec => []Exact
<1>1. LeftToTheCollector
  BY DEF CascadesAreCollected
<1>2. Init => Exact
  <2> SUFFICES ASSUME Init
               PROVE  Exact
    OBVIOUS
  <2>1. pc = "collect" /\ outcome = "none"
    BY DEF Init
  <2>2. Verdict /\ Taking
    BY <2>1 DEF Verdict, Taking, Decided, Executing
  <2> QED
    BY <1>1, <2>2, InitInductive, InitGrounded, InitUnanswered DEF Exact
<1>3. Inductive' /\ Exact /\ [Next]_vars => Exact'
  BY <1>1, GroundedStep, UnansweredStep, DecidedStep DEF Exact
<1> QED
  BY <1>2, <1>3, InductiveInvariant, PTL DEF Spec

\* What the state of the plan says of what has to go.
LEMMA ExactMeans ==
  ASSUME LeftToTheCollector, Exact
  PROVE  /\ Decided \/ outcome = "restricted" =>
              /\ Doomed = Collected \union Fast /\ ~Protected
              /\ \A e \in before : e.to \notin Fast
         /\ outcome = "protected" => Protected
<1>1. ASSUME Decided \/ outcome = "restricted"
      PROVE  Doomed = Collected \union Fast /\ ~Protected
  BY <1>1, PlanIsWhole DEF Exact, Inductive, Verdict
<1>2. ASSUME NEW e \in before
      PROVE  e.to \notin Fast
  <2> SUFFICES ASSUME e.to \in Fast
               PROVE  FALSE
    OBVIOUS
  <2>1. PICK f \in before : f.from = e.to /\ f.by \in FastRelations
    BY FastRow DEF Exact, Inductive, Grounded
  <2> QED
    BY <2>1, NothingRefersToFast DEF Exact, Inductive
<1> QED
  BY <1>1, <1>2 DEF Exact, Verdict, Grounded

\* For every schema in which the collector looks after all foreign keys and what
\* cascades has no further parent, every database of it, every set of objects and
\* every order of the walk: adelete() removes exactly the objects, what cascades from
\* them and so on and, unless they are kept, the parents, or it leaves the database as
\* it was.
THEOREM TakesTheClosureOrNothing ==
  ASSUME CascadesAreCollected
  PROVE  Spec => []TheClosureOrNothing
<1>1. LeftToTheCollector
  BY DEF CascadesAreCollected
<1>2. Exact => TheClosureOrNothing
  BY <1>1, ExactMeans DEF Exact, Taking, Decided, TheClosureOrNothing
<1> QED
  BY <1>2, ExactInvariant, PTL

\* If moreover no row that restricts is deleted without a look: the call ends with
\* ProtectedError exactly when a row that has to go is protected, and else with
\* RestrictedError exactly when a row that stays restricts one that has to go.
THEOREM RefusesForAReason ==
  ASSUME CascadesAreCollected, NoFastRestriction
  PROVE  Spec => []RefusedForAReason
<1>1. LeftToTheCollector
  BY DEF CascadesAreCollected
<1>2. Exact => RefusedForAReason
  <2> SUFFICES ASSUME Exact, Ended
               PROVE  /\ outcome = "protected" <=> Protected
                      /\ outcome = "restricted" <=> ~Protected /\ Restricted
    BY DEF RefusedForAReason
  <2>1. outcome \in {"protected", "restricted", "deleted", "integrity"}
    BY DEF Ended, Exact, Verdict
  <2>2. CASE outcome = "protected"
    BY <1>1, <2>2, ExactMeans
  <2>3. CASE outcome = "restricted"
    <3>1. /\ Doomed = Collected \union Fast /\ ~Protected
          /\ \A e \in before : e.to \notin Fast
      BY <1>1, <2>3, ExactMeans
    <3>2. Restricted
      BY <2>3, <3>1, RestrictionIsRight DEF Exact, Inductive, Verdict
    <3> QED
      BY <2>3, <3>1, <3>2
  <2>4. CASE outcome \in {"deleted", "integrity"}
    <3>1. Decided
      BY <2>4 DEF Decided
    <3>2. /\ Doomed = Collected \union Fast /\ ~Protected
          /\ \A e \in before : e.to \notin Fast
      BY <1>1, <3>1, ExactMeans
    <3>3. ~Restricted
      BY <3>1, <3>2, RestrictionIsRight DEF Exact, Verdict
    <3> QED
      BY <2>4, <3>2, <3>3
  <2> QED
    BY <2>1, <2>2, <2>3, <2>4
<1> QED
  BY <1>2, ExactInvariant, PTL

-----------------------------------------------------------------------------
(* How deep the coroutines are inside each other.                          *)

\* Row r cascades from row y, or from the parent that y stands for.
Follows(r, y) ==
  \E e \in Cascades :
    /\ e.from = r
    /\ \/ e.to = y
       \/ ~e.by.parent_link /\ \E f \in before : f.by.parent_link /\ f.from = y /\ f.to = e.to

\* The collected rows that cascade.
Led == {e.from : e \in Cascades} \intersect Collected

\* A way of n rows, each following the one before, ends in r.
Way(n, r) ==
  \E p \in [1 .. n -> Led] : p[n] = r /\ \A j \in 1 .. n - 1 : Follows(p[j + 1], p[j])

\* A row met k coroutines deep has been reached by way of half as many rows.
Reaches(k, r) == \A n \in Nat \ {0} : 2 * n <= k => Way(n, r)

\* The rows of a coroutine have been met by the one it was awaited by.
DeepFrame(c, i) ==
  IF c.kind = "drain"
    THEN \A objs \in ToSet(c.items) : \A r \in objs : Reaches(i, r)
    ELSE c.rels \subseteq Candidates(OfModel(c.objs)) /\ \A r \in c.objs : Reaches(i - 1, r)

\* The stack is as deep as the ways that the walk has gone, and only a drain that is
\* about to empty the queue finds something in it.
Deep ==
  /\ outcome = "recursion" => Cyclic
  /\ pc = "collect" =>
       /\ \A i \in 1 .. Len(stack) : DeepFrame(stack[i], i)
       /\ \A objs \in ToSet(_pending_collects) : \A r \in objs : Reaches(Len(stack), r)
       /\ _pending_collects # <<>> => stack # <<>> /\ Top.kind = "drain" /\ Top.items = <<>>

\* A way that is gone stays.
LEMMA ReachesStays ==
  ASSUME NEW k, NEW r, Reaches(k, r), before' = before, Collected \subseteq Collected'
  PROVE  Reaches(k, r)'
<1>1. Cascades' = Cascades
  BY DEF Cascades
<1>2. Led \subseteq Led'
  BY <1>1 DEF Led
<1>3. \A x, y : Follows(x, y)' = Follows(x, y)
  BY <1>1 DEF Follows
<1>4. ASSUME NEW n \in Nat \ {0}, 2 * n <= k
      PROVE  Way(n, r)'
  <2>1. PICK p \in [1 .. n -> Led] : p[n] = r /\ \A j \in 1 .. n - 1 : Follows(p[j + 1], p[j])
    BY <1>4 DEF Reaches, Way
  <2>2. p \in [1 .. n -> Led']
    BY <1>2
  <2>3. \A j \in 1 .. n - 1 : Follows(p[j + 1], p[j])'
    BY <1>3, <2>1
  <2> QED
    BY <2>1, <2>2, <2>3 DEF Way
<1> QED
  BY <1>4 DEF Reaches

\* A coroutine that is left as it is, is as deep as it was.
LEMMA DeepFrameStays ==
  ASSUME NEW c, NEW i, DeepFrame(c, i), before' = before, Collected \subseteq Collected'
  PROVE  DeepFrame(c, i)'
<1>1. CASE c.kind = "drain"
  BY <1>1, ReachesStays DEF DeepFrame
<1>2. CASE c.kind # "drain"
  BY <1>2, ReachesStays DEF DeepFrame
<1> QED
  BY <1>1, <1>2

\* A row that follows another one is a row further.
LEMMA OneRowFurther ==
  ASSUME NEW k \in Nat, NEW y, Reaches(k, y), NEW r \in Led', Follows(r, y),
         before' = before, Collected \subseteq Collected'
  PROVE  Reaches(k + 2, r)'
<1> SUFFICES ASSUME NEW n \in Nat \ {0}, 2 * n <= k + 2
             PROVE  Way(n, r)'
  BY DEF Reaches
<1>0. Led \subseteq Led' /\ \A a, b : Follows(a, b)' = Follows(a, b)
  BY DEF Led, Follows, Cascades
<1>1. CASE n = 1
  <2> DEFINE p == [x \in 1 .. n |-> r]
  <2>1. p \in [1 .. n -> Led'] /\ p[n] = r
    BY <1>1
  <2>2. 1 .. n - 1 = {}
    BY <1>1
  <2> QED
    BY <2>1, <2>2 DEF Way
<1>2. CASE n # 1
  <2>1. n - 1 \in Nat \ {0} /\ 2 * (n - 1) <= k
    BY <1>2
  <2>2. PICK p \in [1 .. n - 1 -> Led] :
          p[n - 1] = y /\ \A j \in 1 .. n - 1 - 1 : Follows(p[j + 1], p[j])
    BY <2>1 DEF Reaches, Way
  <2> DEFINE q == [x \in 1 .. n |-> IF x = n THEN r ELSE p[x]]
  <2>3. \A x \in 1 .. n : x # n => x \in 1 .. n - 1
    OBVIOUS
  <2>4. q \in [1 .. n -> Led'] /\ q[n] = r
    BY <1>0, <2>3
  <2>5. \A x \in 1 .. n - 1 : q[x] = p[x]
    OBVIOUS
  <2> HIDE DEF q
  <2>6. ASSUME NEW j \in 1 .. n - 1
        PROVE  Follows(q[j + 1], q[j])
    <3>1. CASE j = n - 1
      <4>1. j + 1 = n
        BY <3>1
      <4> QED
        BY <3>1, <4>1, <2>2, <2>4, <2>5
    <3>2. CASE j # n - 1
      <4>1. j \in 1 .. n - 1 - 1 /\ j + 1 \in 1 .. n - 1
        BY <3>2
      <4>2. q[j + 1] = p[j + 1] /\ q[j] = p[j]
        BY <4>1, <2>5
      <4> QED
        BY <4>1, <4>2, <2>2
    <3> QED
      BY <3>1, <3>2
  <2> QED
    BY <1>0, <2>4, <2>6 DEF Way
<1> QED
  BY <1>1, <1>2

\* The key of a child to its parent is all that a child that cascades has of parents,
\* and a row holds one value of it.
LEMMA OneLink ==
  ASSUME CascadesAreCollected, before \in Databases,
         NEW e \in Cascades, NEW f \in before, f.by.parent_link, f.from = e.from
  PROVE  e = f
<1>1. e \in before /\ e.by.on_delete = "CASCADE"
  BY DEF Cascades
<1>2. /\ e.by \in Relation /\ f.by \in Relation
      /\ ModelOf[e.from] = e.by.from /\ ModelOf[f.from] = f.by.from
  BY <1>1, References
<1>3. f.by \in Links(e.by.from)
  BY <1>2 DEF Links
<1>4. f.by = e.by
  BY <1>1, <1>2, <1>3 DEF CascadesAreCollected
<1> QED
  BY <1>1, <1>4, SchemaAssumption

\* A way that comes back to a row leads round a circle.
LEMMA WayRound ==
  ASSUME CascadesAreCollected, before \in Databases, Collected \subseteq Doomed,
         NEW n \in Nat, NEW p \in [1 .. n -> Led],
         \A k \in 1 .. n - 1 : Follows(p[k + 1], p[k]),
         NEW i \in 1 .. n, NEW j \in 1 .. n, i < j, p[i] = p[j]
  PROVE  Cyclic
<1> DEFINE K == i .. j - 1
           next(k) == IF k = j - 1 THEN i ELSE k + 1
           By(e, k) ==
             /\ e.from = p[next(k)]
             /\ \/ e.to = p[k]
                \/ ~e.by.parent_link /\ \E f \in before : /\ f.by.parent_link
                                                         /\ f.from = p[k] /\ f.to = e.to
           E(k) == CHOOSE e \in Cascades : By(e, k)
           Direct == {k \in K : E(k).to = p[k]}
           S == {p[k] : k \in Direct}
<1>0. i \in K
  OBVIOUS
<1>1. ASSUME NEW k \in K
      PROVE  k \in 1 .. n - 1 /\ k \in 1 .. n /\ next(k) \in K /\ p[next(k)] = p[k + 1]
  <2>1. k \in 1 .. n - 1 /\ k \in 1 .. n
    OBVIOUS
  <2>2. CASE k = j - 1
    <3>1. next(k) = i /\ k + 1 = j
      BY <2>2
    <3> QED
      BY <1>0, <2>1, <3>1
  <2>3. CASE k # j - 1
    <3>1. next(k) = k + 1 /\ k + 1 \in K
      BY <2>3
    <3> QED
      BY <2>1, <3>1
  <2> QED
    BY <2>2, <2>3
<1>2. ASSUME NEW k \in K
      PROVE  E(k) \in Cascades /\ By(E(k), k)
  <2>1. Follows(p[next(k)], p[k])
    BY <1>1
  <2>2. \E e \in Cascades : By(e, k)
    BY <2>1 DEF Follows
  <2> QED
    BY <2>2
<1> HIDE DEF E, K, next
<1>3. ASSUME NEW k \in K, k \notin Direct
      PROVE  ~E(k).by.parent_link
  BY <1>2, <1>3
<1>4. ASSUME NEW k \in K, next(k) \notin Direct
      PROVE  k \in Direct /\ E(k).by.parent_link /\ E(next(k)).to = p[k]
  <2>1. next(k) \in K
    BY <1>1
  <2>2. PICK f \in before : /\ f.by.parent_link
                            /\ f.from = p[next(k)] /\ f.to = E(next(k)).to
    BY <1>2, <1>4, <2>1
  <2>3. E(k) \in Cascades /\ E(k).from = p[next(k)]
    BY <1>2
  <2>4. E(k) = f
    BY <2>2, <2>3, OneLink
  <2>5. k \in Direct
    BY <1>3, <2>2, <2>4
  <2> QED
    BY <2>2, <2>4, <2>5
<1>5. ASSUME NEW k \in Direct
      PROVE  \E e \in before : e.by.on_delete = "CASCADE" /\ e.to = p[k] /\ e.from \in S
  <2>1. k \in K /\ next(k) \in K /\ next(next(k)) \in K
    BY <1>1
  <2>2. CASE next(k) \in Direct
    <3>1. E(k) \in Cascades /\ E(k).to = p[k] /\ E(k).from = p[next(k)]
      BY <1>2, <2>1
    <3>2. p[next(k)] \in S
      BY <2>2
    <3> QED
      BY <3>1, <3>2 DEF Cascades
  <2>3. CASE next(k) \notin Direct
    <3>1. E(next(k)).to = p[k] /\ ~E(next(k)).by.parent_link
      BY <1>3, <1>4, <2>1, <2>3
    <3>2. next(next(k)) \in Direct
      BY <1>4, <2>1, <3>1
    <3>3. E(next(k)) \in Cascades /\ E(next(k)).from = p[next(next(k))]
      BY <1>2, <2>1
    <3>4. p[next(next(k))] \in S
      BY <3>2
    <3> QED
      BY <3>1, <3>3, <3>4 DEF Cascades
  <2> QED
    BY <2>2, <2>3
<1>6. \E k \in K : k \in Direct
  BY <1>0, <1>1, <1>4
<1>7. ASSUME NEW k \in Direct
      PROVE  p[k] \in Doomed /\ p[k] \in {e.to : e \in before}
  <2>1. k \in K /\ k \in 1 .. n
    BY <1>1
  <2>2. p[k] \in Led
    BY <2>1
  <2> QED
    BY <1>5, <2>2 DEF Led
<1>8. S \in (SUBSET (Doomed \intersect {e.to : e \in before})) \ {{}}
  BY <1>6, <1>7
<1>9. \A r \in S : \E e \in before : e.by.on_delete = "CASCADE" /\ e.to = r /\ e.from \in S
  BY <1>5
<1> QED
  BY <1>8, <1>9 DEF Cyclic

\* With more rows on the way than there are, one is met twice.
LEMMA LongWaysGoRound ==
  ASSUME CascadesAreCollected, RoomForChains, before \in Databases, Collected \subseteq Doomed,
         NEW r, Reaches(MaxStack - 1, r)
  PROVE  Cyclic
<1> DEFINE From == {e.from : e \in Cascades}
           n == Cardinality(From) + 1
<1>1. From \subseteq Row
  BY References DEF Cascades
<1>2. IsFiniteSet(From) /\ Cardinality(From) \in Nat
  BY <1>1, SchemaAssumption, FS_Subset, FS_CardinalityType
<1>3. From = {e.from : e \in {x \in before : x.by.on_delete = "CASCADE"}}
  BY DEF Cascades
<1>4. 2 * Cardinality(From) + 3 <= MaxStack
  BY <1>3 DEF RoomForChains
<1> HIDE DEF From
<1>5. n \in Nat \ {0} /\ 2 * n <= MaxStack - 1
  BY <1>2, <1>4, SchemaAssumption
<1>6. PICK p \in [1 .. n -> Led] : \A j \in 1 .. n - 1 : Follows(p[j + 1], p[j])
  BY <1>5 DEF Reaches, Way
<1>7. p \in [1 .. n -> From]
  BY <1>6 DEF Led, From
<1>8. IsFiniteSet(1 .. n) /\ Cardinality(1 .. n) = n
  BY <1>5, FS_Interval
<1>9. Cardinality(From) < Cardinality(1 .. n)
  BY <1>2, <1>8
<1>10. PICK x, y \in 1 .. n : x # y /\ p[x] = p[y]
  BY <1>2, <1>7, <1>8, <1>9, FS_PigeonHole
<1> HIDE DEF n
<1>11. CASE x < y
  BY <1>5, <1>6, <1>10, <1>11, WayRound
<1>12. CASE y < x
  BY <1>5, <1>6, <1>10, <1>12, WayRound
<1> QED
  BY <1>5, <1>10, <1>11, <1>12

\* What a step of the walk has to show: the coroutines that are new or not where they
\* were, and what is queued.
LEMMA DeepGoesOn ==
  ASSUME Deep, pc = "collect", UNCHANGED <<before, roots, keep_parents, outcome>>,
         Collected \subseteq Collected',
         \A i \in 1 .. Len(stack') :
           \/ i \in 1 .. Len(stack) /\ stack'[i] = stack[i]
           \/ DeepFrame(stack[i], i)',
         \/ _pending_collects' = <<>>
         \/ /\ \A objs \in ToSet(_pending_collects') : \A r \in objs : Reaches(Len(stack), r)'
            /\ stack' # <<>> /\ Top'.kind = "drain" /\ Top'.items = <<>>
  PROVE  Deep'
<1>1. Cyclic' = Cyclic
  BY SameDoomed DEF Cyclic
<1>2. \A i \in 1 .. Len(stack') : DeepFrame(stack[i], i)'
  BY DeepFrameStays DEF Deep
<1>3. _pending_collects' = <<>> => ToSet(_pending_collects') = {}
  BY EmptyTuple DEF ToSet
<1>4. \A objs \in ToSet(_pending_collects') : \A r \in objs : Reaches(Len(stack), r)'
  BY <1>3
<1>5. _pending_collects' # <<>> => stack' # <<>> /\ Top'.kind = "drain" /\ Top'.items = <<>>
  OBVIOUS
<1> QED
  BY <1>1, <1>2, <1>4, <1>5 DEF Deep

\* The innermost coroutine replaced: where the others are.
LEMMA TopChanges ==
  ASSUME Shape, stack # <<>>, NEW c \in Frames
  PROVE  /\ Len(stack) \in Nat \ {0} /\ SetTop(c) \in Seq(Frames)
         /\ Len(SetTop(c)) = Len(stack) /\ SetTop(c)[Len(stack)] = c
         /\ \A i \in 1 .. Len(stack) : i # Len(stack) => SetTop(c)[i] = stack[i]
<1>1. stack \in Seq(Frames)
  BY DEF Shape
<1>2. Len(stack) \in Nat \ {0} /\ Len(stack) \in 1 .. Len(stack)
  BY <1>1, TopAndRest
<1>3. /\ [stack EXCEPT ![Len(stack)] = c] \in Seq(Frames)
      /\ Len([stack EXCEPT ![Len(stack)] = c]) = Len(stack)
      /\ \A j \in 1 .. Len(stack) :
           [stack EXCEPT ![Len(stack)] = c][j] = IF j = Len(stack) THEN c ELSE stack[j]
  BY <1>1, <1>2, ExceptSeq
<1> QED
  BY <1>2, <1>3 DEF SetTop

\* A coroutine awaited: where all of them are.
LEMMA AwaitDeepens ==
  ASSUME Shape, stack # <<>>, NEW c \in Frames, NEW d \in Frames, Await(c, d)
  PROVE  /\ Len(stack') = Len(stack) + 1 /\ stack'[Len(stack) + 1] = d
         /\ stack'[Len(stack)] = c /\ stack' # <<>> /\ Top' = d
         /\ \A i \in 1 .. Len(stack) : i # Len(stack) => stack'[i] = stack[i]
<1>1. /\ Len(stack) \in Nat \ {0} /\ SetTop(c) \in Seq(Frames)
      /\ Len(SetTop(c)) = Len(stack) /\ SetTop(c)[Len(stack)] = c
      /\ \A i \in 1 .. Len(stack) : i # Len(stack) => SetTop(c)[i] = stack[i]
  BY TopChanges
<1>2. stack' = Append(SetTop(c), d)
  BY DEF Await
<1>3. /\ Append(SetTop(c), d) # <<>> /\ Len(Append(SetTop(c), d)) = Len(SetTop(c)) + 1
      /\ Append(SetTop(c), d)[Len(SetTop(c)) + 1] = d
      /\ \A i \in 1 .. Len(SetTop(c)) : Append(SetTop(c), d)[i] = SetTop(c)[i]
  BY <1>1, AppendProperties
<1>4. /\ Len(stack') = Len(stack) + 1 /\ stack'[Len(stack) + 1] = d /\ stack' # <<>>
      /\ \A i \in 1 .. Len(stack) : stack'[i] = SetTop(c)[i]
  BY <1>1, <1>2, <1>3
<1>5. Len(stack) \in 1 .. Len(stack)
  BY <1>1
<1> QED
  BY <1>1, <1>4, <1>5 DEF Top

\* The innermost coroutine, as deep as it is.
LEMMA TopIsDeep ==
  ASSUME Shape, Deep, pc = "collect", stack # <<>>
  PROVE  /\ DeepFrame(Top, Len(stack))
         /\ Top.kind # "drain" \/ Top.items # <<>> => _pending_collects = <<>>
<1>1. Len(stack) \in 1 .. Len(stack)
  BY TopAndRest DEF Shape
<1> QED
  BY <1>1 DEF Deep, Top

\* A coroutine that goes on without rel is as deep as it was.
LEMMA DeepWithout ==
  ASSUME Inductive, Deep, NEW rel \in Relation, Following(rel),
         NEW fast \in SUBSET FastRelations
  PROVE  DeepFrame([Without(rel) EXCEPT !.fast = @ \union fast], Len(stack))
<1>1. PICK c : c = [Without(rel) EXCEPT !.fast = @ \union fast]
  OBVIOUS
<1>2. c.kind = Top.kind /\ c.objs = Top.objs /\ c.rels = Top.rels \ {rel}
  BY <1>1, WithoutTyped DEF Inductive
<1>3. Top.kind # "drain" /\ DeepFrame(Top, Len(stack))
  BY TopIsDeep DEF Inductive, Following
<1>4. DeepFrame(c, Len(stack))
  BY <1>2, <1>3 DEF DeepFrame
<1> QED
  BY <1>1, <1>4

\* A step that only takes rel from the relations to follow.
LEMMA WithoutDeep ==
  ASSUME Inductive, Deep, NEW rel \in Relation, Following(rel),
         NEW fast \in SUBSET FastRelations,
         stack' = SetTop([Without(rel) EXCEPT !.fast = @ \union fast]),
         UNCHANGED <<context, data, _pending_collects, outcome>>
  PROVE  Deep'
<1>1. PICK c : c = [Without(rel) EXCEPT !.fast = @ \union fast]
  OBVIOUS
<1>2. c \in Frames
  BY <1>1, WithoutTyped DEF Inductive
<1>3. /\ Shape /\ stack # <<>> /\ pc = "collect" /\ Top.kind # "drain"
      /\ stack' = SetTop(c)
  BY <1>1 DEF Inductive, Following
<1>4. /\ Len(stack') = Len(stack) /\ stack'[Len(stack)] = c
      /\ \A i \in 1 .. Len(stack) : i # Len(stack) => stack'[i] = stack[i]
  BY <1>2, <1>3, TopChanges
<1>5. Collected' = Collected
  BY DEF Collected
<1>6. DeepFrame(c, Len(stack))
  BY <1>1, DeepWithout
<1>7. DeepFrame(c, Len(stack))'
  <2>1. PICK k : k = Len(stack)
    OBVIOUS
  <2>2. DeepFrame(c, k)'
    BY <1>5, <1>6, <2>1, DeepFrameStays DEF context
  <2> QED
    BY <1>4, <2>1, <2>2
<1>8. _pending_collects' = <<>>
  BY <1>3, TopIsDeep
<1> QED
  BY <1>3, <1>4, <1>5, <1>7, <1>8, DeepGoesOn DEF context

\* A handler that leaves the queue as it is.
LEMMA HandlerDeep ==
  ASSUME Inductive, Deep, NEW rel \in Relation, Following(rel), Drain(rel),
         Collected \subseteq Collected', NEW k, k = Len(stack),
         \A objs \in ToSet(_pending_collects') : \A r \in objs : Reaches(k + 1, r)'
  PROVE  Deep'
<1>1. PICK c, d : c = Without(rel) /\ d = Coroutine("drain", Top.objs)
  OBVIOUS
<1>2. /\ Shape /\ stack # <<>> /\ pc = "collect" /\ Await(c, d)
      /\ UNCHANGED <<before, roots, keep_parents, outcome>>
  BY <1>1 DEF Inductive, Following, Drain, context
<1>3. c = [Without(rel) EXCEPT !.fast = @ \union {}]
  BY <1>1, WithoutAsIs DEF Inductive
<1>4. {} \in SUBSET FastRelations
  OBVIOUS
<1>5. c \in Frames /\ DeepFrame(c, k)
  <2>1. DeepFrame([Without(rel) EXCEPT !.fast = @ \union {}], k)
    BY <1>4, DeepWithout
  <2>2. [Without(rel) EXCEPT !.fast = @ \union {}] \in Frames
    BY <1>4, WithoutTyped DEF Inductive
  <2> QED
    BY <1>3, <2>1, <2>2
<1>6. d \in Frames /\ d.kind = "drain" /\ d.items = <<>>
  BY <1>1, FoundRows, CoroutineTyped DEF Inductive
<1>7. /\ Len(stack') = k + 1 /\ stack'[k + 1] = d
      /\ stack'[k] = c /\ stack' # <<>> /\ Top' = d /\ k \in Nat
      /\ \A i \in 1 .. k : i # k => stack'[i] = stack[i]
  BY <1>1, <1>2, <1>5, <1>6, AwaitDeepens, TopChanges
<1>8. DeepFrame(c, k)'
  BY <1>2, <1>5, DeepFrameStays
<1>9. DeepFrame(d, k + 1)'
  BY <1>6, EmptyTuple DEF DeepFrame, ToSet
<1>10. ASSUME NEW i \in 1 .. Len(stack')
       PROVE  \/ i \in 1 .. Len(stack) /\ stack'[i] = stack[i]
              \/ DeepFrame(stack[i], i)'
  <2>1. i = k + 1 \/ i = k \/ (i \in 1 .. k /\ i # k)
    BY <1>7
  <2> QED
    BY <2>1, <1>1, <1>7, <1>8, <1>9
<1>11. \A objs \in ToSet(_pending_collects') : \A r \in objs : Reaches(Len(stack), r)'
  BY <1>1, <1>7
<1> QED
  BY <1>2, <1>6, <1>7, <1>10, <1>11, DeepGoesOn

\* A relation with nothing to follow, or noted for the fast deletes.
LEMMA FollowNothingOrFastDeep ==
  ASSUME Inductive, Deep, NEW rel \in Relation, FollowNothing(rel) \/ FollowFast(rel)
  PROVE  Deep'
<1>1. CASE FollowNothing(rel)
  <2>1. /\ Following(rel) /\ {} \in SUBSET FastRelations
        /\ UNCHANGED <<context, data, _pending_collects, outcome>>
    BY <1>1 DEF FollowNothing, context, plan
  <2>2. stack' = SetTop([Without(rel) EXCEPT !.fast = @ \union {}])
    BY <1>1, <2>1, WithoutAsIs DEF FollowNothing, Inductive
  <2> QED
    BY <2>1, <2>2, WithoutDeep
<1>2. CASE FollowFast(rel)
  <2>1. /\ Following(rel) /\ {rel} \in SUBSET FastRelations
        /\ UNCHANGED <<context, data, _pending_collects, outcome>>
    BY <1>2 DEF FollowFast, context, plan, FastRelations
  <2>2. stack' = SetTop([Without(rel) EXCEPT !.fast = @ \union {rel}])
    BY <1>2 DEF FollowFast
  <2> QED
    BY <2>1, <2>2, WithoutDeep
<1> QED
  BY <1>1, <1>2

\* A handler that queues nothing.
LEMMA QuietHandlerDeep ==
  ASSUME Inductive, Deep, NEW rel \in Relation, FollowSetNull(rel) \/ FollowRestrict(rel)
  PROVE  Deep'
<1>1. /\ Following(rel) /\ Drain(rel) /\ UNCHANGED <<data, _pending_collects>>
  BY DEF FollowSetNull, FollowRestrict, Handled
<1>2. Collected' = Collected
  BY <1>1 DEF Collected
<1>3. _pending_collects' = <<>>
  BY <1>1, TopIsDeep DEF Inductive, Following
<1>4. ToSet(_pending_collects') = {}
  BY <1>3, EmptyTuple DEF ToSet
<1> QED
  BY <1>1, <1>2, <1>4, HandlerDeep

\* A row found follows a row of the innermost coroutine.
LEMMA FoundFollows ==
  ASSUME CascadesAreCollected, Inductive, Deep, NEW rel \in Relation, Following(rel),
         rel.on_delete = "CASCADE", NEW r \in Found(rel)
  PROVE  \E y \in Top.objs : Follows(r, y) /\ r \in {e.from : e \in Cascades}
<1>1. refs = before /\ before \in Databases
  BY DEF Inductive, Shape, Untouched, Planned, Following
<1>2. PICK e \in before : e.by = rel /\ e.from = r /\ e.to \in Reached(Top.objs)
  BY <1>1 DEF Found, RelatedObjects, Reached, AsParents
<1>3. e \in Cascades
  BY <1>2 DEF Cascades
<1>4. CASE e.to \in Top.objs
  BY <1>2, <1>3, <1>4 DEF Follows
<1>5. CASE e.to \notin Top.objs
  <2>1. PICK f \in before : f.by.parent_link /\ f.from \in Top.objs /\ f.to = e.to
    BY <1>2, <1>5 DEF Reached
  <2>2. ~e.by.parent_link
    <3>1. Top.objs \in Batches /\ Top.kind # "drain"
      BY FoundRows DEF Inductive
    <3>2. rel \in Candidates(OfModel(Top.objs))
      <4>1. DeepFrame(Top, Len(stack)) /\ rel \in Top.rels
        BY TopIsDeep DEF Inductive, Following
      <4> QED
        BY <3>1, <4>1 DEF DeepFrame
    <3>3. f.by \in Relation /\ f.by.from = OfModel(Top.objs)
      BY <1>1, <2>1, <3>1, References, BatchModel
    <3>4. f.by.to = rel.to
      BY <1>1, <1>2, <2>1, References
    <3>5. rel.to # OfModel(Top.objs)
      BY <2>1, <3>3, <3>4, SchemaAssumption
    <3> QED
      BY <1>2, <3>2, <3>5 DEF Candidates
  <2> QED
    BY <1>2, <1>3, <2>1, <2>2 DEF Follows
<1> QED
  BY <1>4, <1>5

\* A cascade leads a row further, and its drain is as much deeper.
LEMMA CascadeDeep ==
  ASSUME CascadesAreCollected, Inductive, Deep, NEW rel \in Relation, FollowCascade(rel)
  PROVE  Deep'
<1>1. /\ Following(rel) /\ Drain(rel) /\ rel.on_delete = "CASCADE"
      /\ before' = before /\ pc = "collect" /\ stack # <<>> /\ Top.kind # "drain"
  BY DEF FollowCascade, Handled, Following, Drain, context
<1>2. /\ Collected' = Collected \union Found(rel)
      /\ ToSet(_pending_collects') = ToSet(_pending_collects) \union {Found(rel)}
  BY CascadeCollects
<1>3. _pending_collects = <<>>
  BY <1>1, TopIsDeep DEF Inductive
<1>4. ToSet(_pending_collects) = {}
  BY <1>3, EmptyTuple DEF ToSet
<1>5. PICK k, found : k = Len(stack) /\ found = Found(rel)
  OBVIOUS
<1>6. k \in Nat \ {0}
  BY <1>1, <1>5, TopAndRest DEF Inductive, Shape
<1>7. ASSUME NEW r \in found
      PROVE  Reaches(k + 1, r)'
  <2>1. PICK y \in Top.objs : Follows(r, y) /\ r \in {e.from : e \in Cascades}
    BY <1>1, <1>5, <1>7, FoundFollows
  <2>2. DeepFrame(Top, k)
    BY <1>1, <1>5, TopIsDeep DEF Inductive
  <2>3. Reaches(k - 1, y)
    BY <1>1, <2>1, <2>2 DEF DeepFrame
  <2>4. r \in Led'
    BY <1>1, <1>2, <1>5, <1>7, <2>1 DEF Led, Cascades
  <2>5. k - 1 \in Nat /\ k - 1 + 2 = k + 1
    BY <1>6
  <2> QED
    BY <1>1, <1>2, <2>1, <2>3, <2>4, <2>5, OneRowFurther
<1>8. \A objs \in ToSet(_pending_collects') : \A r \in objs : Reaches(k + 1, r)'
  BY <1>2, <1>4, <1>5, <1>7
<1> QED
  BY <1>1, <1>2, <1>5, <1>8, HandlerDeep

\* PROTECT leaves the coroutine of acollect() alone.
LEMMA ProtectDeep ==
  ASSUME Inductive, Deep, NEW rel \in Relation, FollowProtect(rel)
  PROVE  Deep'
<1>1. /\ Following(rel) /\ pc = "collect" /\ stack # <<>> /\ Top.kind # "drain"
      /\ {} \in SUBSET FastRelations
      /\ UNCHANGED <<before, roots, keep_parents, context, data, _pending_collects, outcome>>
  BY DEF FollowProtect, Handled, Following, context, plan
<1>2. CASE Len(stack) = 1
  <2>1. stack' = SetTop(Without(rel))
    BY <1>2 DEF FollowProtect
  <2>2. stack' = SetTop([Without(rel) EXCEPT !.fast = @ \union {}])
    BY <1>1, <2>1, WithoutAsIs DEF Inductive
  <2> QED
    BY <1>1, <2>2, WithoutDeep
<1>3. CASE Len(stack) # 1
  <2>1. stack' = <<Head(stack)>>
    BY <1>3 DEF FollowProtect
  <2>2. stack \in Seq(Frames) /\ Len(stack) \in Nat \ {0}
    BY <1>1, TopAndRest DEF Inductive, Shape
  <2>3. Len(stack') = 1 /\ stack'[1] = stack[1] /\ 1 \in 1 .. Len(stack)
    BY <2>1, <2>2
  <2>4. _pending_collects' = <<>>
    BY <1>1, TopIsDeep DEF Inductive
  <2>5. Collected' = Collected
    BY <1>1 DEF Collected
  <2> QED
    BY <1>1, <2>3, <2>4, <2>5, DeepGoesOn
<1> QED
  BY <1>2, <1>3

\* A coroutine that is done leaves the others as they are.
LEMMA DoneDeep ==
  ASSUME Inductive, Deep, RelatedDone \/ DrainDone
  PROVE  Deep'
<1>1. /\ pc = "collect" /\ stack # <<>> /\ stack' = Front(stack)
      /\ UNCHANGED <<before, roots, keep_parents, data, _pending_collects, outcome>>
  BY DEF RelatedDone, DrainDone, Draining, context, plan
<1>2. _pending_collects = <<>>
  <2>1. CASE RelatedDone
    BY <1>1, <2>1, TopIsDeep DEF RelatedDone, Inductive
  <2>2. CASE DrainDone
    BY <2>2 DEF DrainDone
  <2> QED
    BY <2>1, <2>2
<1>3. stack \in Seq(Frames) /\ Len(stack) \in Nat \ {0}
  BY <1>1, TopAndRest DEF Inductive, Shape
<1>4. /\ Len(Front(stack)) = Len(stack) - 1
      /\ \A i \in 1 .. Len(stack) - 1 : Front(stack)[i] = stack[i]
  BY <1>1, <1>3, FrontTakes
<1>5. \A i \in 1 .. Len(stack') : i \in 1 .. Len(stack) /\ stack'[i] = stack[i]
  BY <1>1, <1>3, <1>4
<1>6. Collected' = Collected
  BY <1>1 DEF Collected
<1> QED
  BY <1>1, <1>2, <1>5, <1>6, DeepGoesOn

\* What a drain takes from the queue has been met by a coroutine inside it.
LEMMA TakePendingDeep ==
  ASSUME Inductive, Deep, TakePending
  PROVE  Deep'
<1>0. PICK d, k : d = [Top EXCEPT !.items = _pending_collects] /\ k = Len(stack)
  OBVIOUS
<1>1. /\ pc = "collect" /\ stack # <<>> /\ Top.kind = "drain" /\ stack' = SetTop(d)
      /\ _pending_collects' = <<>>
      /\ UNCHANGED <<before, roots, keep_parents, data, outcome>>
  BY <1>0 DEF TakePending, Draining, context, plan
<1>2. Top \in Frames /\ _pending_collects \in Seq(Batches)
  BY <1>1, Innermost DEF Inductive, Shape
<1>3. d \in Frames /\ d.kind = "drain" /\ d.items = _pending_collects
  BY <1>0, <1>1, <1>2 DEF Frames
<1>4. /\ k \in Nat \ {0} /\ Len(stack') = k /\ stack'[k] = d
      /\ \A i \in 1 .. k : i # k => stack'[i] = stack[i]
  BY <1>0, <1>1, <1>3, TopChanges DEF Inductive
<1>5. Collected' = Collected
  BY <1>1 DEF Collected
<1>6. DeepFrame(d, k)
  BY <1>0, <1>1, <1>3 DEF DeepFrame, Deep
<1>7. DeepFrame(d, k)'
  BY <1>1, <1>5, <1>6, DeepFrameStays
<1> QED
  BY <1>0, <1>1, <1>4, <1>5, <1>7, DeepGoesOn

\* The coroutine of a batch is as deep as the drain it comes from.
LEMMA FollowItemDeep ==
  ASSUME Inductive, Deep, FollowItem
  PROVE  Deep'
<1>0. PICK c, d, batch, f, k :
        /\ c = Top /\ d = [Top EXCEPT !.items = Tail(@)] /\ batch = Head(Top.items)
        /\ f = Coroutine("related", batch) /\ k = Len(stack)
  OBVIOUS
<1>1. /\ pc = "collect" /\ stack # <<>> /\ c.kind = "drain" /\ c.items # <<>> /\ Await(d, f)
      /\ UNCHANGED <<before, roots, keep_parents, data, _pending_collects, outcome>>
  BY <1>0 DEF FollowItem, Draining, context, plan
<1>2. c \in Frames
  BY <1>0, <1>1, Innermost DEF Inductive
<1>3. c.items \in Seq(Batches)
  BY <1>2 DEF Frames
<1>4. batch \in Batches /\ Tail(c.items) \in Seq(Batches)
      /\ ToSet(c.items) = {batch} \union ToSet(Tail(c.items))
  BY <1>0, <1>1, <1>3, FirstTaken
<1>5. d \in Frames /\ d.kind = "drain" /\ d.items = Tail(c.items)
  BY <1>0, <1>1, <1>2, <1>4 DEF Frames
<1>6. /\ f \in Frames /\ f.kind = "related" /\ f.objs = batch
      /\ f.rels = Candidates(OfModel(batch))
  BY <1>0, <1>4, CoroutineTyped
<1>7. /\ Len(stack') = k + 1 /\ stack'[k + 1] = f /\ stack'[k] = d /\ k \in Nat \ {0}
      /\ \A i \in 1 .. k : i # k => stack'[i] = stack[i]
  BY <1>0, <1>1, <1>5, <1>6, AwaitDeepens, TopChanges DEF Inductive
<1>8. Collected' = Collected
  BY <1>1 DEF Collected
<1>9. DeepFrame(c, k) /\ _pending_collects' = <<>>
  BY <1>0, <1>1, TopIsDeep DEF Inductive
<1>10. \A objs \in ToSet(c.items) : \A r \in objs : Reaches(k, r)
  BY <1>1, <1>9 DEF DeepFrame
<1>11. DeepFrame(d, k)
  BY <1>4, <1>5, <1>10 DEF DeepFrame
<1>12. DeepFrame(f, k + 1)
  <2>1. PICK i : i = k + 1 /\ i - 1 = k
    BY <1>7
  <2>2. \A r \in f.objs : Reaches(i - 1, r)
    BY <1>4, <1>6, <1>10, <2>1
  <2>3. f.kind # "drain" /\ f.rels \subseteq Candidates(OfModel(f.objs))
    BY <1>6
  <2>4. DeepFrame(f, i)
    BY <2>2, <2>3 DEF DeepFrame
  <2> QED
    BY <2>1, <2>4
<1>13. DeepFrame(d, k)' /\ DeepFrame(f, k + 1)'
  BY <1>1, <1>8, <1>11, <1>12, DeepFrameStays
<1>14. ASSUME NEW i \in 1 .. Len(stack')
       PROVE  \/ i \in 1 .. Len(stack) /\ stack'[i] = stack[i]
              \/ DeepFrame(stack[i], i)'
  <2>1. i = k + 1 \/ i = k \/ (i \in 1 .. k /\ i # k)
    BY <1>7
  <2> QED
    BY <2>1, <1>0, <1>7, <1>13
<1> QED
  BY <1>1, <1>8, <1>9, <1>14, DeepGoesOn

\* Python gives up when the stack is full: the rows it has met are more than there are.
LEMMA GiveUpDeep ==
  ASSUME CascadesAreCollected, RoomForChains, Exact, Deep, GiveUp
  PROVE  Deep'
<1>1. /\ pc = "collect" /\ pc' = "done" /\ Len(stack) >= MaxStack
      /\ UNCHANGED <<before, roots, keep_parents>>
  <2>1. Len(stack) \in Nat
    BY LenProperties DEF Exact, Inductive, Shape
  <2> QED
    BY <2>1, SchemaAssumption DEF GiveUp, RoomToAwait, context
<1>2. PICK k : k = Len(stack)
  OBVIOUS
<1>3. k \in Nat /\ k >= MaxStack
  BY <1>1, <1>2, LenProperties DEF Exact, Inductive, Shape
<1>4. \E r : Reaches(k, r) \/ Reaches(k - 1, r)
  <2>1. CASE Draining /\ Top.items # <<>>
    <3>1. DeepFrame(Top, k) /\ Top.kind = "drain" /\ Top \in Frames
      BY <1>2, <2>1, TopIsDeep, Innermost DEF Draining, Exact, Inductive
    <3>2. Head(Top.items) \in Batches /\ Head(Top.items) \in ToSet(Top.items)
      BY <2>1, <3>1, FirstTaken DEF Frames
    <3>3. PICK r \in Head(Top.items) : TRUE
      BY <3>2 DEF Batches
    <3> QED
      BY <3>1, <3>2, <3>3 DEF DeepFrame
  <2>2. CASE \E rel \in Relation, how \in {"CASCADE", "SET_NULL", "RESTRICT"} : Handled(rel, how)
    <3>1. PICK rel \in Relation : Following(rel)
      BY <2>2 DEF Handled
    <3>2. DeepFrame(Top, k)
      BY <1>2, <3>1, TopIsDeep DEF Following, Exact, Inductive
    <3>3. Top.kind # "drain" /\ Top.objs \in Batches
      BY <3>1, FoundRows DEF Exact, Inductive
    <3>4. PICK r \in Top.objs : TRUE
      BY <3>3 DEF Batches
    <3> QED
      BY <3>2, <3>3, <3>4 DEF DeepFrame
  <2> QED
    BY <2>1, <2>2 DEF GiveUp
<1>5. PICK r : Reaches(k, r) \/ Reaches(k - 1, r)
  BY <1>4
<1>6. Reaches(MaxStack - 1, r)
  BY <1>3, <1>5, SchemaAssumption DEF Reaches
<1>7. Cyclic
  BY <1>6, LongWaysGoRound DEF Exact, Inductive, Shape, Grounded
<1>8. Cyclic' = Cyclic
  BY <1>1, SameDoomed DEF Cyclic
<1> QED
  BY <1>1, <1>7, <1>8 DEF Deep

\* At the start there is the one coroutine.
LEMMA InitDeep ==
  ASSUME Init
  PROVE  Deep
<1>1. PICK c \in Frames :
        /\ c.kind = "acollect" /\ stack = <<c>> /\ c.objs = roots
        /\ c.rels = {rel \in Candidates(OfModel(roots)) :
                      ~(keep_parents /\ rel.to \in Ancestors(OfModel(roots)))}
  BY InitWalks
<1>2. Len(stack) = 1 /\ stack[1] = c
  BY <1>1
<1>3. \A r : Reaches(0, r)
  BY DEF Reaches
<1>4. DeepFrame(c, 1)
  BY <1>1, <1>3 DEF DeepFrame
<1>5. _pending_collects = <<>> /\ outcome = "none"
  BY DEF Init
<1>6. ToSet(_pending_collects) = {}
  BY <1>5, EmptyTuple DEF ToSet
<1> QED
  BY <1>2, <1>4, <1>5, <1>6 DEF Deep

\* The end of the walk and what comes after it.
LEMMA LaterDeep ==
  ASSUME Deep,
         \/ RaiseProtected \/ AcollectDone
         \/ SortTake \/ Sort \/ FastDeletes \/ FieldUpdates \/ DeleteModel \/ Commit
  PROVE  Deep'
<1>1. pc' # "collect" /\ (outcome' # "recursion" \/ outcome' = outcome)
  BY DEF RaiseProtected, AcollectDone, SortTake, Sort, SortOver, FastDeletes, FieldUpdates,
         DeleteModel, Commit
<1>2. UNCHANGED <<before, roots, keep_parents>>
  BY DEF RaiseProtected, AcollectDone, SortTake, Sort, FastDeletes, FieldUpdates,
         DeleteModel, Commit, context
<1>3. Cyclic' = Cyclic
  BY <1>2, SameDoomed DEF Cyclic
<1> QED
  BY <1>1, <1>3 DEF Deep

\* No step makes the stack deeper than the ways it has gone.
LEMMA DeepStep ==
  ASSUME CascadesAreCollected, RoomForChains, Exact, Deep, [Next]_vars
  PROVE  Deep'
<1>0. Inductive
  BY DEF Exact
<1>1. ASSUME NEW rel \in Relation,
             \/ FollowNothing(rel) \/ FollowFast(rel) \/ FollowCascade(rel)
             \/ FollowSetNull(rel) \/ FollowRestrict(rel) \/ FollowProtect(rel)
      PROVE  Deep'
  BY <1>0, <1>1, FollowNothingOrFastDeep, CascadeDeep, QuietHandlerDeep, ProtectDeep
<1>2. CASE RelatedDone \/ DrainDone
  BY <1>0, <1>2, DoneDeep
<1>3. CASE TakePending
  BY <1>0, <1>3, TakePendingDeep
<1>4. CASE FollowItem
  BY <1>0, <1>4, FollowItemDeep
<1>5. CASE GiveUp
  BY <1>5, GiveUpDeep
<1>6. CASE \/ RaiseProtected \/ AcollectDone
           \/ SortTake \/ Sort \/ FastDeletes \/ FieldUpdates \/ DeleteModel \/ Commit
  BY <1>6, LaterDeep
<1>7. CASE UNCHANGED vars
  <2>1. UNCHANGED <<before, roots, keep_parents, data, stack, _pending_collects, pc, outcome>>
    BY <1>7 DEF vars, context, plan, walk
  <2>2. CASE pc = "collect"
    <3>1. Collected' = Collected
      BY <2>1 DEF Collected
    <3>2. \A objs \in ToSet(_pending_collects) : \A r \in objs : Reaches(Len(stack), r)'
      <4>1. PICK k : k = Len(stack)
        OBVIOUS
      <4>2. \A objs \in ToSet(_pending_collects) : \A r \in objs : Reaches(k, r)'
        BY <2>1, <2>2, <3>1, <4>1, ReachesStays DEF Deep
      <4> QED
        BY <2>1, <4>1, <4>2
    <3>3. Top' = Top
      BY <2>1 DEF Top
    <3> QED
      BY <2>1, <2>2, <3>1, <3>2, <3>3, DeepGoesOn DEF Deep
  <2>3. CASE pc # "collect"
    <3>1. Cyclic' = Cyclic
      BY <2>1, SameDoomed DEF Cyclic
    <3> QED
      BY <2>1, <2>3, <3>1 DEF Deep
  <2> QED
    BY <2>2, <2>3
<1> QED
  BY <1>1, <1>2, <1>3, <1>4, <1>5, <1>6, <1>7 DEF Next, Over

\* If there is room for a coroutine and a drain for every row that cascades, one inside
\* the other: the call ends with RecursionError only when rows that have to go refer to
\* each other in a circle by keys that cascade.
THEOREM GivesUpOnlyInCircles ==
  ASSUME CascadesAreCollected, RoomForChains
  PROVE  Spec => []GivesUpOnlyOnCycles
<1>1. Init => Deep
  BY InitDeep
<1>2. Exact /\ Deep /\ [Next]_vars => Deep'
  BY DeepStep
<1>3. Deep => GivesUpOnlyOnCycles
  BY DEF Deep, GivesUpOnlyOnCycles
<1> QED
  BY <1>1, <1>2, <1>3, ExactInvariant, PTL DEF Spec

-----------------------------------------------------------------------------
(***************************************************************************)
(* The kinds of the variables, and the order in which the models are       *)
(* deleted from.                                                           *)
(***************************************************************************)

\* The rows of a batch are collected.
Gathered(c) == c.objs \subseteq Collected /\ \A b \in ToSet(c.items) : b \subseteq Collected

Kinds ==
  /\ rows \subseteq Row /\ refs \subseteq before
  /\ IsInjective(models) /\ IsInjective(sorted_models)
  /\ pc \in {"collect", "sort"} => ToSet(sorted_models) \subseteq ToSet(models)
  /\ restricted_objects \subseteq Row /\ protected_objects \subseteq Relation
  /\ \A q \in fast_deletes : q[2] \subseteq Row
  /\ \A u \in field_updates : u[1] \in Relation /\ u[2] \subseteq Row
  /\ \A b \in ToSet(_pending_collects) : b \subseteq Collected
  /\ \A c \in ToSet(stack) : Gathered(c)

\* Models depend on models with rows to delete, or with rows that restrict.
DependenciesKnown ==
  pc \in {"collect", "sort"} =>
    \A m \in Model : \A d \in dependencies[m] :
      data[d] # {} \/ (pc = "collect" /\ \E r \in restricted_objects : ModelOf[r] = d)

\* What sort() has taken, it has taken after its dependencies.
Respected(s) == \A i \in DOMAIN s : \A d \in dependencies[s[i]] : \E j \in 1 .. i - 1 : s[j] = d

SortRespects == IF pc = "collect" THEN sorted_models = <<>>
                                  ELSE pc = "sort" => Respected(sorted_models)

\* No model comes before one that it depends on.
NoneTooEarly ==
  \A i, j \in DOMAIN models : i <= j => models[j] \notin dependencies[models[i]]

\* A model that is done with depends on none that is to come.
DoneInOrder ==
  \A m \in Model : data[m] # {} /\ m \notin ToSet(models) =>
                     dependencies[m] \intersect ToSet(models) = {}

ListOrdered ==
  pc \in {"fast", "update", "delete"} => Circular \/ (NoneTooEarly /\ DoneInOrder)

\* A row that is gone was of a model that is done with.
GoneByModel ==
  LeftToTheCollector /\ Executing => \A e \in refs : e.to \notin rows => e.by.to \notin ToSet(models)

Ordering == DependenciesKnown /\ SortRespects /\ ListOrdered /\ GoneByModel

-----------------------------------------------------------------------------
(* The kinds of the variables.                                             *)

\* A sequence without repetition stays one when something new is put last.
LEMMA PutLastInjective ==
  ASSUME NEW S, NEW s \in Seq(S), IsInjective(s), NEW x \in S, x \notin ToSet(s)
  PROVE  IsInjective(Append(s, x))
<1> DEFINE t == Append(s, x)
<1>1. Len(s) \in Nat /\ DOMAIN s = 1 .. Len(s)
  BY LenProperties
<1>2. /\ t \in Seq(S) /\ Len(t) = Len(s) + 1 /\ t[Len(s) + 1] = x
      /\ \A i \in 1 .. Len(s) : t[i] = s[i]
  BY AppendProperties
<1> HIDE DEF t
<1>3. DOMAIN t = 1 .. Len(s) + 1
  BY <1>2, LenProperties
<1>4. \A i \in 1 .. Len(s) : s[i] # x
  BY <1>1 DEF ToSet
<1>5. ASSUME NEW i \in 1 .. Len(s) + 1, NEW j \in 1 .. Len(s) + 1, t[i] = t[j]
      PROVE  i = j
  <2>1. CASE i \in 1 .. Len(s) /\ j \in 1 .. Len(s)
    BY <1>1, <1>2, <1>5, <2>1 DEF IsInjective
  <2>2. CASE i = Len(s) + 1 /\ j \in 1 .. Len(s)
    BY <1>2, <1>4, <1>5, <2>2
  <2>3. CASE j = Len(s) + 1 /\ i \in 1 .. Len(s)
    BY <1>2, <1>4, <1>5, <2>3
  <2>4. CASE i = Len(s) + 1 /\ j = Len(s) + 1
    BY <2>4
  <2> QED
    BY <1>1, <2>1, <2>2, <2>3, <2>4
<1> QED
  BY <1>3, <1>5 DEF IsInjective, t

\* It stays one when its first member is taken, which is then gone.
LEMMA FirstTakenInjective ==
  ASSUME NEW S, NEW s \in Seq(S), IsInjective(s), s # <<>>
  PROVE  IsInjective(Tail(s)) /\ Head(s) \notin ToSet(Tail(s))
<1>1. Len(s) \in Nat \ {0} /\ DOMAIN s = 1 .. Len(s)
  BY EmptySeq, LenProperties
<1>2. /\ Tail(s) \in Seq(S) /\ Len(Tail(s)) = Len(s) - 1
      /\ \A i \in 1 .. Len(Tail(s)) : Tail(s)[i] = s[i + 1]
  BY HeadTailProperties
<1>3. Head(s) = s[1] /\ DOMAIN Tail(s) = 1 .. Len(s) - 1
  BY <1>1, <1>2, LenProperties
<1>4. ASSUME NEW i \in 1 .. Len(s) - 1
      PROVE  Tail(s)[i] = s[i + 1] /\ i + 1 \in DOMAIN s /\ i + 1 # 1
  BY <1>1, <1>2
<1>5. ASSUME NEW i \in 1 .. Len(s) - 1, NEW j \in 1 .. Len(s) - 1, Tail(s)[i] = Tail(s)[j]
      PROVE  i = j
  <2>1. i + 1 = j + 1
    BY <1>4, <1>5 DEF IsInjective
  <2> QED
    BY <2>1, <1>1
<1>6. ASSUME NEW i \in 1 .. Len(s) - 1
      PROVE  Tail(s)[i] # s[1]
  BY <1>1, <1>4 DEF IsInjective
<1> QED
  BY <1>3, <1>5, <1>6 DEF IsInjective, ToSet

\* A step of the walk: what is left to show.
LEMMA WalkKinds ==
  ASSUME Inductive, Kinds, pc = "collect", pc' \in {"collect", "sort", "done"},
         UNCHANGED <<database, before, sorted_models>>, Shape',
         IsInjective(models'), ToSet(models) \subseteq ToSet(models'),
         restricted_objects' \subseteq Row, protected_objects' \subseteq Relation,
         \A q \in fast_deletes' : q[2] \subseteq Row,
         \A u \in field_updates' : u[1] \in Relation /\ u[2] \subseteq Row,
         \A m \in Model : data[m] \subseteq data'[m],
         \A b \in ToSet(_pending_collects') : b \in ToSet(_pending_collects) \/ b \subseteq Collected',
         \A c \in ToSet(stack') :
           /\ \E d \in ToSet(stack) : c.objs = d.objs \/ c.objs \in ToSet(d.items)
           /\ \A b \in ToSet(c.items) :
                b \in ToSet(_pending_collects) \/ \E d \in ToSet(stack) : b \in ToSet(d.items)
  PROVE  Kinds'
<1>1. Collected \subseteq Collected'
  BY DEF Collected
<1>2. \A b \in ToSet(_pending_collects) : b \subseteq Collected'
  BY <1>1 DEF Kinds
<1>3. ASSUME NEW d \in ToSet(stack)
      PROVE  d.objs \subseteq Collected' /\ \A b \in ToSet(d.items) : b \subseteq Collected'
  <2>1. Gathered(d)
    BY DEF Kinds
  <2> QED
    BY <1>1, <2>1 DEF Gathered
<1>4. \A c \in ToSet(stack') : c.objs \subseteq Collected' /\ \A b \in ToSet(c.items) : b \subseteq Collected'
  BY <1>2, <1>3
<1> QED
  BY <1>2, <1>4 DEF Kinds, Gathered, database

\* acollect() raises.
LEMMA EndKinds ==
  ASSUME Kinds, pc' = "done", UNCHANGED <<database, context, plan, walk>>
  PROVE  Kinds'
BY DEF Kinds, Gathered, Collected, database, context, plan, walk

\* The innermost coroutine replaced by one with the same objects and no batch.
LEMMA ReplacedKinds ==
  ASSUME Shape, stack # <<>>, pc = "collect", NEW c \in Frames, c.objs = Top.objs, c.items = <<>>,
         stack' = SetTop(c)
  PROVE  \A x \in ToSet(stack') :
           /\ \E d \in ToSet(stack) : x.objs = d.objs
           /\ \A b \in ToSet(x.items) : \E d \in ToSet(stack) : b \in ToSet(d.items)
<1>1. stack \in Seq(Frames) /\ ToSet(stack) = ToSet(Front(stack)) \union {Top}
  BY Innermost DEF Shape
<1>2. ToSet([stack EXCEPT ![Len(stack)] = c]) = ToSet(Front(stack)) \union {c}
  BY <1>1, TopReplaced
<1>3. ToSet(stack') = ToSet(Front(stack)) \union {c}
  BY <1>2 DEF SetTop
<1>4. ToSet(c.items) = {}
  BY EmptyTuple DEF ToSet
<1> QED
  BY <1>1, <1>3, <1>4

\* A handler returned: the coroutine that goes on without rel, and a drain.
LEMMA DrainKinds ==
  ASSUME Shape, Untouched, NEW rel \in Relation, Following(rel), Drain(rel)
  PROVE  \A x \in ToSet(stack') :
           /\ \E d \in ToSet(stack) : x.objs = d.objs
           /\ \A b \in ToSet(x.items) : \E d \in ToSet(stack) : b \in ToSet(d.items)
<1>0. PICK c, d : c = Without(rel) /\ d = Coroutine("drain", Top.objs)
  OBVIOUS
<1>1. stack # <<>> /\ pc = "collect" /\ stack' = Append(SetTop(c), d)
  BY <1>0 DEF Following, Drain, Await
<1>2. c \in Frames /\ c.objs = Top.objs /\ c.items = <<>>
  BY <1>0, FoundRows DEF Without, Frames
<1>3. d \in Frames /\ d.objs = Top.objs /\ d.items = <<>>
  BY <1>0, FoundRows, CoroutineTyped
<1>4. stack \in Seq(Frames) /\ ToSet(stack) = ToSet(Front(stack)) \union {Top}
  BY <1>1, Innermost DEF Shape
<1>5. /\ [stack EXCEPT ![Len(stack)] = c] \in Seq(Frames)
      /\ ToSet([stack EXCEPT ![Len(stack)] = c]) = ToSet(Front(stack)) \union {c}
  BY <1>1, <1>2, <1>4, TopReplaced
<1>6. ToSet(stack') = ToSet(Front(stack)) \union {c} \union {d}
  <2>1. SetTop(c) \in Seq(Frames) /\ ToSet(SetTop(c)) = ToSet(Front(stack)) \union {c}
    BY <1>5 DEF SetTop
  <2>2. ToSet(Append(SetTop(c), d)) = ToSet(SetTop(c)) \union {d}
    BY <1>3, <2>1, PutLast
  <2> QED
    BY <1>1, <2>1, <2>2
<1>7. ToSet(c.items) = {} /\ ToSet(d.items) = {}
  BY <1>2, <1>3, EmptyTuple DEF ToSet
<1> QED
  BY <1>2, <1>3, <1>4, <1>6, <1>7

\* One step of the walk over the relations keeps the kinds.
LEMMA FollowKinds ==
  ASSUME Inductive, Inductive', Kinds, NEW rel \in Relation,
         \/ FollowNothing(rel) \/ FollowFast(rel) \/ FollowCascade(rel)
         \/ FollowSetNull(rel) \/ FollowRestrict(rel) \/ FollowProtect(rel)
  PROVE  Kinds'
<1>1. Following(rel)
  BY DEF FollowNothing, FollowFast, FollowCascade, FollowSetNull, FollowRestrict, FollowProtect,
         Handled
<1>2. /\ pc = "collect" /\ pc' = "collect" /\ stack # <<>>
      /\ UNCHANGED <<database, before, sorted_models>>
  BY <1>1 DEF FollowNothing, FollowFast, FollowCascade, FollowSetNull, FollowRestrict,
              FollowProtect, Drain, Following, context
<1>3. Shape /\ Untouched /\ Shape'
  BY DEF Inductive
<1>4. /\ Top \in Frames /\ Top \in ToSet(stack) /\ Found(rel) \subseteq Row
      /\ (Found(rel) # {} => Found(rel) \in Batches /\ OfModel(Found(rel)) = rel.from)
      /\ Top.items = <<>>
  BY <1>1, <1>3, FoundRows
<1>5. /\ IsInjective(models) /\ restricted_objects \subseteq Row /\ protected_objects \subseteq Relation
      /\ \A q \in fast_deletes : q[2] \subseteq Row
      /\ \A u \in field_updates : u[1] \in Relation /\ u[2] \subseteq Row
  BY DEF Kinds
<1>6. data \in [Model -> SUBSET Row] /\ models \in Seq(Model) /\ _pending_collects \in Seq(Batches)
  BY <1>3 DEF Shape
<1>7. CASE FollowNothing(rel) \/ FollowFast(rel)
  <2>0. PICK c : c = IF FollowFast(rel) THEN [Without(rel) EXCEPT !.fast = @ \union {rel}]
                                        ELSE Without(rel)
    OBVIOUS
  <2>1. stack' = SetTop(c) /\ UNCHANGED <<plan, _pending_collects, protected_objects>>
    BY <1>7, <2>0 DEF FollowNothing, FollowFast
  <2>2. c \in Frames /\ c.objs = Top.objs /\ c.items = <<>>
    BY <1>4, <2>0 DEF Without, Frames
  <2>3. \A x \in ToSet(stack') :
          /\ \E d \in ToSet(stack) : x.objs = d.objs
          /\ \A b \in ToSet(x.items) : \E d \in ToSet(stack) : b \in ToSet(d.items)
    BY <1>2, <1>3, <2>1, <2>2, ReplacedKinds
  <2> QED
    BY <1>2, <1>3, <1>5, <2>1, <2>3, WalkKinds DEF plan
<1>8. ASSUME Drain(rel)
      PROVE  \A x \in ToSet(stack') :
               /\ \E d \in ToSet(stack) : x.objs = d.objs \/ x.objs \in ToSet(d.items)
               /\ \A b \in ToSet(x.items) :
                    b \in ToSet(_pending_collects) \/ \E d \in ToSet(stack) : b \in ToSet(d.items)
  BY <1>1, <1>3, <1>8, DrainKinds
<1>9. CASE FollowCascade(rel)
  <2>0. PICK objs : objs = Found(rel)
    OBVIOUS
  <2>1. /\ objs \in Batches /\ objs \subseteq Row /\ OfModel(objs) = rel.from /\ rel.from \in Model
        /\ Add(objs) /\ Drain(rel) /\ _pending_collects' = Append(_pending_collects, objs)
        /\ UNCHANGED <<field_updates, restricted_objects, fast_deletes>>
    BY <1>4, <1>9, <2>0, BatchModel DEF FollowCascade, Handled
  <2>2. ToSet(_pending_collects') = ToSet(_pending_collects) \union {objs}
    BY <1>6, <2>1, PutLast
  <2>3. data' = [data EXCEPT ![rel.from] = @ \union objs]
    BY <2>1 DEF Add
  <2>4. \A m \in Model : data[m] \subseteq data'[m]
    BY <1>6, <2>3
  <2>5. objs \subseteq Collected'
    BY <1>6, <2>1, <2>3 DEF Collected
  <2>6. IsInjective(models') /\ ToSet(models) \subseteq ToSet(models')
    <3>1. CASE rel.from \in ToSet(models)
      BY <1>5, <2>1, <3>1 DEF Add
    <3>2. CASE rel.from \notin ToSet(models)
      <4>1. models' = Append(models, rel.from)
        BY <2>1, <3>2 DEF Add
      <4>2. IsInjective(Append(models, rel.from))
        BY <1>5, <1>6, <2>1, <3>2, PutLastInjective
      <4>3. ToSet(models') = ToSet(models) \union {rel.from}
        BY <1>6, <2>1, <4>1, PutLast
      <4> QED
        BY <4>1, <4>2, <4>3
    <3> QED
      BY <3>1, <3>2
  <2>7. protected_objects' = protected_objects
    BY <2>1 DEF Drain
  <2> QED
    BY <1>2, <1>3, <1>5, <1>8, <2>1, <2>2, <2>4, <2>5, <2>6, <2>7, WalkKinds
<1>10. CASE FollowSetNull(rel)
  <2>1. /\ Drain(rel) /\ UNCHANGED <<data, models, restricted_objects, fast_deletes,
                                     _pending_collects, protected_objects>>
        /\ field_updates' = field_updates \union {<<rel, Found(rel)>>}
    BY <1>10 DEF FollowSetNull, Drain
  <2>2. \A u \in field_updates' : u[1] \in Relation /\ u[2] \subseteq Row
    BY <1>4, <1>5, <2>1
  <2> QED
    BY <1>2, <1>3, <1>5, <1>8, <2>1, <2>2, WalkKinds
<1>11. CASE FollowRestrict(rel)
  <2>1. /\ Drain(rel) /\ UNCHANGED <<data, models, field_updates, fast_deletes,
                                     _pending_collects, protected_objects>>
        /\ restricted_objects' = restricted_objects \union Found(rel)
    BY <1>11 DEF FollowRestrict, Drain
  <2>2. restricted_objects' \subseteq Row
    BY <1>4, <1>5, <2>1
  <2> QED
    BY <1>2, <1>3, <1>5, <1>8, <2>1, <2>2, WalkKinds
<1>12. CASE FollowProtect(rel)
  <2>0. PICK c : c = Without(rel)
    OBVIOUS
  <2>1. UNCHANGED <<plan, _pending_collects>> /\ protected_objects' \subseteq Relation
    BY <1>5, <1>12 DEF FollowProtect
  <2>2. \A x \in ToSet(stack') :
          /\ \E d \in ToSet(stack) : x.objs = d.objs
          /\ \A b \in ToSet(x.items) : \E d \in ToSet(stack) : b \in ToSet(d.items)
    <3>1. CASE Len(stack) = 1
      <4>1. stack' = SetTop(c)
        BY <1>12, <2>0, <3>1 DEF FollowProtect
      <4>2. c \in Frames /\ c.objs = Top.objs /\ c.items = <<>>
        BY <1>4, <2>0 DEF Without, Frames
      <4> QED
        BY <1>2, <1>3, <4>1, <4>2, ReplacedKinds
    <3>2. CASE Len(stack) # 1
      <4>1. stack' = <<Head(stack)>>
        BY <1>12, <3>2 DEF FollowProtect
      <4>2. Head(stack) \in ToSet(stack)
        BY <1>2, <1>3, FirstTaken DEF Shape
      <4>3. ToSet(<<Head(stack)>>) = {Head(stack)}
        BY DEF ToSet
      <4> QED
        BY <4>1, <4>2, <4>3
    <3> QED
      BY <3>1, <3>2
  <2> QED
    BY <1>2, <1>3, <1>5, <2>1, <2>2, WalkKinds DEF plan
<1> QED
  BY <1>7, <1>9, <1>10, <1>11, <1>12

\* One step of a drain, or the end of a coroutine, keeps the kinds.
LEMMA DrainingKinds ==
  ASSUME Inductive, Inductive', Kinds,
         RelatedDone \/ DrainDone \/ TakePending \/ FollowItem \/ AcollectDone
  PROVE  Kinds'
<1>0. PICK c : c = Top
  OBVIOUS
<1>1. /\ pc = "collect" /\ pc' \in {"collect", "sort", "done"}
      /\ UNCHANGED <<database, before, sorted_models, data, models, restricted_objects,
                     field_updates, protected_objects>>
  BY DEF RelatedDone, DrainDone, TakePending, FollowItem, AcollectDone, AllFollowed, Draining,
         context, plan, walk
<1>2. stack # <<>>
  <2>1. stack \in Seq(Frames)
    BY DEF Inductive, Shape
  <2>2. ASSUME stack = <<>>
        PROVE  Len(stack) = 0
    <3>1. Len(<<>>) = 0
      BY EmptySeq
    <3> QED
      BY <2>2, <3>1, Zenon
  <2> QED
    BY <2>2 DEF RelatedDone, DrainDone, TakePending, FollowItem, AcollectDone, AllFollowed, Draining
<1>3. Shape /\ Shape' /\ c \in Frames /\ stack \in Seq(Frames)
      /\ ToSet(stack) = ToSet(Front(stack)) \union {c}
  BY <1>0, <1>1, <1>2, Innermost DEF Inductive, Shape
<1>4. /\ IsInjective(models) /\ restricted_objects \subseteq Row /\ protected_objects \subseteq Relation
      /\ \A q \in fast_deletes : q[2] \subseteq Row
      /\ \A u \in field_updates : u[1] \in Relation /\ u[2] \subseteq Row
  BY DEF Kinds
<1>5. c.objs \subseteq Row
  BY <1>3 DEF Frames, Batches
<1>6. \A q \in fast_deletes' : q[2] \subseteq Row
  <2>1. \A q \in {<<rel, c.objs>> : rel \in c.fast} : q[2] \subseteq Row
    BY <1>5
  <2> QED
    BY <1>0, <1>4, <2>1 DEF RelatedDone, DrainDone, TakePending, FollowItem, AcollectDone, Flush, plan
<1>7. CASE RelatedDone \/ DrainDone \/ AcollectDone
  <2>1. ToSet(stack') \subseteq ToSet(stack) /\ _pending_collects' = _pending_collects
    BY <1>3, <1>7 DEF RelatedDone, DrainDone, AcollectDone, walk
  <2> QED
    BY <1>1, <1>3, <1>4, <1>6, <2>1, WalkKinds
<1>8. CASE TakePending
  <2>0. PICK d : d = [Top EXCEPT !.items = _pending_collects]
    OBVIOUS
  <2>1. stack' = [stack EXCEPT ![Len(stack)] = d] /\ _pending_collects' = <<>>
    BY <1>8, <2>0 DEF TakePending, SetTop
  <2>2. _pending_collects \in Seq(Batches)
    BY <1>3 DEF Shape
  <2>3. d \in Frames /\ d.objs = c.objs /\ d.items = _pending_collects
    BY <1>0, <1>3, <2>0, <2>2 DEF Frames
  <2>4. ToSet(stack') = ToSet(Front(stack)) \union {d}
    <3>1. ToSet([stack EXCEPT ![Len(stack)] = d]) = ToSet(Front(stack)) \union {d}
      BY <1>2, <1>3, <2>3, TopReplaced
    <3> QED
      BY <2>1, <3>1
  <2>5. ToSet(_pending_collects') = {}
    BY <2>1, EmptyTuple DEF ToSet
  <2>6. ASSUME NEW x \in ToSet(stack')
        PROVE  /\ \E y \in ToSet(stack) : x.objs = y.objs \/ x.objs \in ToSet(y.items)
               /\ \A b \in ToSet(x.items) :
                    b \in ToSet(_pending_collects) \/ \E y \in ToSet(stack) : b \in ToSet(y.items)
    <3>1. CASE x = d
      BY <1>3, <2>3, <3>1
    <3>2. CASE x # d
      BY <1>3, <2>4, <3>2
    <3> QED
      BY <3>1, <3>2
  <2> QED
    BY <1>1, <1>3, <1>4, <1>6, <2>5, <2>6, WalkKinds
<1>9. CASE FollowItem
  <2>0. PICK d, f, batch : /\ d = [Top EXCEPT !.items = Tail(@)]
                           /\ batch = Head(Top.items) /\ f = Coroutine("related", batch)
    OBVIOUS
  <2>1. /\ stack' = Append(SetTop(d), f) /\ _pending_collects' = _pending_collects
        /\ c.items # <<>> /\ c.items \in Seq(Batches)
    BY <1>0, <1>3, <1>9, <2>0 DEF FollowItem, Await, Frames
  <2>2. batch \in Batches /\ ToSet(c.items) = {batch} \union ToSet(Tail(c.items))
        /\ Tail(c.items) \in Seq(Batches)
    BY <1>0, <2>0, <2>1, FirstTaken
  <2>3. d \in Frames /\ d.objs = c.objs /\ d.items = Tail(c.items)
    BY <1>0, <1>3, <2>0, <2>2 DEF Frames
  <2>4. f \in Frames /\ f.objs = batch /\ f.items = <<>>
    BY <2>0, <2>2, CoroutineTyped
  <2>5. /\ [stack EXCEPT ![Len(stack)] = d] \in Seq(Frames)
        /\ ToSet([stack EXCEPT ![Len(stack)] = d]) = ToSet(Front(stack)) \union {d}
    BY <1>2, <1>3, <2>3, TopReplaced
  <2>6. ToSet(stack') = ToSet(Front(stack)) \union {d} \union {f}
    <3>1. SetTop(d) \in Seq(Frames) /\ ToSet(SetTop(d)) = ToSet(Front(stack)) \union {d}
      BY <2>5 DEF SetTop
    <3>2. ToSet(Append(SetTop(d), f)) = ToSet(SetTop(d)) \union {f}
      BY <2>4, <3>1, PutLast
    <3> QED
      BY <2>1, <3>1, <3>2
  <2>7. ToSet(f.items) = {}
    BY <2>4, EmptyTuple DEF ToSet
  <2>8. ASSUME NEW x \in ToSet(stack')
        PROVE  /\ \E y \in ToSet(stack) : x.objs = y.objs \/ x.objs \in ToSet(y.items)
               /\ \A b \in ToSet(x.items) :
                    b \in ToSet(_pending_collects) \/ \E y \in ToSet(stack) : b \in ToSet(y.items)
    <3>1. CASE x = d
      BY <1>3, <2>2, <2>3, <3>1
    <3>2. CASE x = f
      BY <1>3, <2>2, <2>4, <2>7, <3>2
    <3>3. CASE x \in ToSet(Front(stack))
      BY <1>3, <3>3
    <3> QED
      BY <2>6, <3>1, <3>2, <3>3
  <2> QED
    BY <1>1, <1>3, <1>4, <1>6, <2>1, <2>8, WalkKinds
<1> QED
  BY <1>7, <1>8, <1>9

\* sort() takes each model once, and only models of the list.
LEMMA SortKinds ==
  ASSUME Inductive, Kinds, SortTake \/ Sort
  PROVE  Kinds'
<1>1. models \in Seq(Model) /\ sorted_models \in Seq(Model)
  BY DEF Inductive, Shape
<1>2. CASE SortTake
  <2>1. PICK i \in DOMAIN models : /\ Ready(models[i])
                                   /\ sorted_models' = Append(sorted_models, models[i])
    BY <1>2 DEF SortTake
  <2>2. models[i] \in Model /\ models[i] \in ToSet(models) /\ models[i] \notin ToSet(sorted_models)
    BY <1>1, <2>1, LenProperties, ElementOfSeq DEF Ready, ToSet
  <2>3. IsInjective(Append(sorted_models, models[i]))
    BY <1>1, <2>2, PutLastInjective DEF Kinds
  <2>4. ToSet(sorted_models') = ToSet(sorted_models) \union {models[i]}
    BY <1>1, <2>1, <2>2, PutLast
  <2>5. /\ pc = "sort" /\ pc' = "sort" /\ UNCHANGED <<database, before, plan, walk>>
    BY <1>2 DEF SortTake
  <2> QED
    BY <2>1, <2>2, <2>3, <2>4, <2>5 DEF Kinds, Gathered, Collected, database, plan, walk
<1>3. CASE Sort
  <2>1. /\ pc = "sort" /\ pc' = "fast"
        /\ UNCHANGED <<database, context, data, field_updates, restricted_objects, fast_deletes, walk>>
    BY <1>3 DEF Sort, SortOver
  <2>2. models' \in {models, sorted_models}
    BY <1>3 DEF Sort
  <2> QED
    BY <2>1, <2>2 DEF Kinds, Gathered, Collected, database, context, walk
<1> QED
  BY <1>2, <1>3

\* The plan executed: rows and references only go.
LEMMA ExecutionKinds ==
  ASSUME Inductive, Kinds, FastDeletes \/ FieldUpdates \/ DeleteModel \/ Commit
  PROVE  Kinds'
<1>1. /\ UNCHANGED <<context, data, dependencies, field_updates, restricted_objects, fast_deletes, walk>>
      /\ pc' \notin {"collect", "sort"}
  BY DEF FastDeletes, FieldUpdates, DeleteModel, Commit, plan
<1>2. rows' \subseteq Row /\ refs' \subseteq before
  BY DEF Kinds, FastDeletes, FieldUpdates, DeleteModel, Commit, Erase, database
<1>3. IsInjective(models')
  <2>1. CASE DeleteModel
    <3>1. IsInjective(Tail(models))
      BY <2>1, FirstTakenInjective DEF Inductive, Shape, Kinds, DeleteModel
    <3> QED
      BY <2>1, <3>1 DEF DeleteModel
  <2>2. CASE ~DeleteModel
    BY <2>2 DEF Kinds, FastDeletes, FieldUpdates, Commit, plan
  <2> QED
    BY <2>1, <2>2
<1> QED
  BY <1>1, <1>2, <1>3 DEF Kinds, Gathered, Collected, context, walk

\* acollect() starts with each model once: no model is its own parent.
LEMMA InitKinds ==
  ASSUME Init
  PROVE  Kinds
<1>0. PICK m, up, S, q, c :
        /\ m = OfModel(roots) /\ up = IF keep_parents THEN {} ELSE AsParents(roots)
        /\ S = {ModelOf[r] : r \in up} /\ q = SetToSeq(S)
        /\ c = [Coroutine("acollect", roots) EXCEPT !.rels =
                  {rel \in @ : ~(keep_parents /\ rel.to \in Ancestors(m))}]
  OBVIOUS
<1>1. /\ rows = Row /\ refs \in Databases /\ before = refs
      /\ data = [n \in Model |-> {r \in roots \union up : ModelOf[r] = n}]
      /\ models = <<m>> \o q /\ stack = <<c>>
      /\ field_updates = {} /\ restricted_objects = {} /\ fast_deletes = {}
      /\ _pending_collects = <<>> /\ protected_objects = {} /\ sorted_models = <<>>
      /\ pc = "collect"
  BY <1>0 DEF Init
<1>2. Shape
  BY InitInductive DEF Inductive
<1>3. roots \in Batches
  <2>1. PICK n \in Model : roots \in (SUBSET {r \in Row : ModelOf[r] = n}) \ {{}}
    BY DEF Init
  <2>2. roots \in SUBSET Row /\ roots # {} /\ \A a \in roots : ModelOf[a] = n
    BY <2>1
  <2>3. \A a, b \in roots : ModelOf[a] = ModelOf[b]
    BY <2>2
  <2> QED
    BY <2>2, <2>3 DEF Batches
<1>4. m \in Model /\ \A r \in roots : r \in Row /\ ModelOf[r] = m
  BY <1>0, <1>3, BatchModel
<1>5. ASSUME NEW r \in up
      PROVE  r \in Row /\ ModelOf[r] \in Model \ {m}
  <2>1. PICK x \in before : x.by.parent_link /\ x.from \in roots /\ r = x.to
    BY <1>0, <1>1 DEF AsParents
  <2>2. /\ x.by \in Relation /\ x.by.from = m /\ x.by.to = ModelOf[r] /\ r \in Row
        /\ x.by.to \in Model
    BY <1>1, <1>4, <2>1, References
  <2>3. x.by.from # x.by.to
    BY <2>1, <2>2, SchemaAssumption
  <2> QED
    BY <2>2, <2>3
<1>6. S \subseteq Model \ {m} /\ IsFiniteSet(S)
  <2>1. IsFiniteSet(up)
    BY <1>5, SchemaAssumption, FS_Subset
  <2>2. [r \in up |-> ModelOf[r]] \in Surjection(up, S)
    BY <1>0 DEF Surjection
  <2> QED
    BY <1>0, <1>5, <2>1, <2>2, FS_Surjection
<1>7. q \in Seq(S) /\ ToSet(q) = S /\ IsInjective(q)
  BY <1>0, <1>6, SetAsSequence
<1>8. IsInjective(models)
  <2>1. q \in Seq(Model) /\ <<m>> \in Seq(Model)
    BY <1>4, <1>6, <1>7, SeqMonotonic
  <2>2. /\ models \in Seq(Model) /\ Len(models) = 1 + Len(q)
        /\ models[1] = m /\ \A i \in 1 .. Len(q) : models[1 + i] = q[i]
    BY <1>1, <2>1, ConcatProperties
  <2>3. /\ Len(q) \in Nat /\ DOMAIN q = 1 .. Len(q) /\ DOMAIN models = 1 .. 1 + Len(q)
    BY <2>1, <2>2, LenProperties
  <2>4. \A i \in 1 .. Len(q) : q[i] # m
    BY <1>6, <1>7, <2>3 DEF ToSet
  <2>5. \A i \in 1 .. 1 + Len(q) : i # 1 => i - 1 \in 1 .. Len(q) /\ models[i] = q[i - 1]
    <3> SUFFICES ASSUME NEW i \in 1 .. 1 + Len(q), i # 1
                 PROVE  i - 1 \in 1 .. Len(q) /\ models[i] = q[i - 1]
      OBVIOUS
    <3>1. i - 1 \in 1 .. Len(q) /\ 1 + (i - 1) = i
      BY <2>3
    <3>2. models[1 + (i - 1)] = q[i - 1]
      BY <2>2, <3>1
    <3> QED
      BY <3>1, <3>2
  <2>6. ASSUME NEW i \in 1 .. 1 + Len(q), NEW j \in 1 .. 1 + Len(q), models[i] = models[j]
        PROVE  i = j
    <3>1. CASE i = 1 /\ j = 1
      BY <3>1
    <3>2. CASE i = 1 /\ j # 1
      BY <2>2, <2>4, <2>5, <2>6, <3>2
    <3>3. CASE i # 1 /\ j = 1
      BY <2>2, <2>4, <2>5, <2>6, <3>3
    <3>4. CASE i # 1 /\ j # 1
      <4>1. i - 1 = j - 1
        BY <1>7, <2>3, <2>5, <2>6, <3>4 DEF IsInjective
      <4> QED
        BY <4>1, <2>3
    <3> QED
      BY <3>1, <3>2, <3>3, <3>4
  <2> QED
    BY <2>3, <2>6 DEF IsInjective
<1>9. /\ IsInjective(sorted_models) /\ ToSet(sorted_models) = {} /\ ToSet(_pending_collects) = {}
  BY <1>1, EmptyTuple DEF IsInjective, ToSet
<1>10. ToSet(stack) = {c} /\ c.objs = roots /\ c.items = <<>>
  <2>1. PICK d : d = Coroutine("acollect", roots)
    OBVIOUS
  <2>2. d \in Frames /\ d.objs = roots /\ d.items = <<>>
    BY <1>3, <2>1, CoroutineTyped
  <2>3. c = [d EXCEPT !.rels = {rel \in @ : ~(keep_parents /\ rel.to \in Ancestors(m))}]
    BY <1>0, <2>1
  <2>4. c.objs = roots /\ c.items = <<>>
    BY <2>2, <2>3 DEF Frames
  <2> QED
    BY <1>1, <2>4 DEF ToSet
<1>11. \A x \in ToSet(stack) : Gathered(x)
  <2>1. roots \subseteq Collected
    BY <1>1, <1>4 DEF Collected
  <2>2. ToSet(c.items) = {}
    BY <1>10, EmptyTuple DEF ToSet
  <2> QED
    BY <1>10, <2>1, <2>2 DEF Gathered
<1> QED
  BY <1>1, <1>8, <1>9, <1>11 DEF Kinds

\* Every step keeps the kinds.
LEMMA KindsStep ==
  ASSUME Inductive, Inductive', Kinds, [Next]_vars
  PROVE  Kinds'
<1>1. ASSUME NEW rel \in Relation,
             \/ FollowNothing(rel) \/ FollowFast(rel) \/ FollowCascade(rel)
             \/ FollowSetNull(rel) \/ FollowRestrict(rel) \/ FollowProtect(rel)
      PROVE  Kinds'
  BY <1>1, FollowKinds
<1>2. CASE RelatedDone \/ DrainDone \/ TakePending \/ FollowItem \/ AcollectDone
  BY <1>2, DrainingKinds
<1>3. CASE GiveUp \/ RaiseProtected
  BY <1>3, EndKinds DEF GiveUp, RaiseProtected
<1>4. CASE SortTake \/ Sort
  BY <1>4, SortKinds
<1>5. CASE FastDeletes \/ FieldUpdates \/ DeleteModel \/ Commit
  BY <1>5, ExecutionKinds
<1>6. CASE UNCHANGED vars
  BY <1>6 DEF Kinds, Gathered, Collected, vars, database, context, plan, walk
<1> QED
  BY <1>1, <1>2, <1>3, <1>4, <1>5, <1>6 DEF Next, Over

\* The kinds hold in every state.
LEMMA KindsInvariant == Spec => []Kinds
<1>1. Init => Kinds
  BY InitKinds
<1>2. Inductive /\ Inductive' /\ Kinds /\ [Next]_vars => Kinds'
  BY KindsStep
<1> QED
  BY <1>1, <1>2, InductiveInvariant, PTL DEF Spec

\* For every schema and database: the plan holds rows under their models, each
\* model once, and what is queued or under way are collected rows of one model.
THEOREM TypeCorrect == Spec => []TypeOK
<1>1. Inductive /\ Kinds => TypeOK
  <2> SUFFICES ASSUME Inductive, Kinds
               PROVE  TypeOK
    OBVIOUS
  <2>1. Shape
    BY DEF Inductive
  <2>2. \A q \in fast_deletes \union field_updates : q[1] \in Relation /\ q[2] \subseteq Row
    BY <2>1 DEF Kinds, Shape, FastRelations
  <2>3. ASSUME NEW i \in DOMAIN _pending_collects
        PROVE  \E m \in Model : _pending_collects[i] \subseteq data[m]
    <3>0. PICK b : b = _pending_collects[i]
      OBVIOUS
    <3>1. b \in ToSet(_pending_collects) /\ b \in Batches
      BY <2>1, <2>3, <3>0, Members DEF Shape, ToSet
    <3>2. b \subseteq Collected
      BY <3>1 DEF Kinds
    <3>3. OfModel(b) \in Model /\ \A r \in b : ModelOf[r] = OfModel(b)
      BY <3>1, BatchModel
    <3>4. ASSUME NEW r \in b
          PROVE  r \in data[OfModel(b)]
      <4>1. PICK m \in Model : r \in data[m]
        BY <3>2 DEF Collected
      <4>2. m = OfModel(b)
        BY <2>1, <3>3, <4>1 DEF Shape
      <4> QED
        BY <4>1, <4>2
    <3> QED
      BY <3>0, <3>3, <3>4
  <2>4. ASSUME NEW i \in DOMAIN stack
        PROVE  stack[i].objs \subseteq Collected /\ stack[i].objs # {}
    <3>1. stack[i] \in ToSet(stack) /\ stack[i] \in Frames
      BY <2>1, <2>4, Members DEF Shape, ToSet
    <3> QED
      BY <3>1 DEF Kinds, Gathered, Frames, Batches
  <2>5. ToSet(models) \subseteq Model
    BY <2>1, Members DEF Shape
  <2>6. \A m \in Model : data[m] \subseteq {r \in Row : ModelOf[r] = m}
    BY <2>1 DEF Shape
  <2> QED
    BY <2>1, <2>2, <2>3, <2>4, <2>5, <2>6 DEF Kinds, Shape, TypeOK
<1> QED
  BY <1>1, InductiveInvariant, KindsInvariant, PTL

-----------------------------------------------------------------------------
(* The order in which the models are deleted from.                         *)

\* While acollect() walks, the order depends only on what is known of the
\* dependencies.
LEMMA WalkOrdering ==
  ASSUME Ordering, pc = "collect", pc' = "collect", sorted_models' = sorted_models,
         DependenciesKnown'
  PROVE  Ordering'
BY DEF Ordering, SortRespects, ListOrdered, GoneByModel, Executing

\* What does not touch data, dependencies and restricted objects.
LEMMA DependenciesStay ==
  ASSUME Ordering, pc = "collect", pc' = "collect",
         UNCHANGED <<sorted_models, data, dependencies, restricted_objects>>
  PROVE  Ordering'
<1>1. DependenciesKnown'
  BY DEF Ordering, DependenciesKnown
<1> QED
  BY <1>1, WalkOrdering

\* The cascade: a model that others have to wait for has rows to delete.
LEMMA FollowCascadeOrdering ==
  ASSUME Inductive, Ordering, NEW rel \in Relation, FollowCascade(rel)
  PROVE  Ordering'
<1>0. PICK objs : objs = Found(rel)
  OBVIOUS
<1>1. /\ Following(rel) /\ pc = "collect" /\ pc' = "collect" /\ Add(objs) /\ objs # {}
      /\ UNCHANGED <<sorted_models, restricted_objects>>
  BY <1>0 DEF FollowCascade, Handled, Following, Drain, context
<1>2. OfModel(objs) = rel.from /\ rel.from \in Model /\ rel.to \in Model
  BY <1>0, <1>1, FoundRows, BatchModel, SchemaAssumption DEF Inductive, ForeignKey
<1>3. data \in [Model -> SUBSET Row] /\ dependencies \in [Model -> SUBSET Model]
  BY DEF Inductive, Shape
<1>4. data' = [data EXCEPT ![rel.from] = @ \union objs]
  BY <1>1, <1>2 DEF Add
<1>5. \A d \in Model : data[d] \subseteq data'[d] /\ data'[rel.from] # {}
  BY <1>1, <1>2, <1>3, <1>4
<1>6. \A m \in Model : dependencies'[m] \subseteq dependencies[m] \union {rel.from}
  <2>1. CASE rel.null
    BY <2>1 DEF FollowCascade
  <2>2. CASE ~rel.null
    <3>1. dependencies' = [dependencies EXCEPT ![rel.to] = @ \union {rel.from}]
      BY <2>2 DEF FollowCascade, AddDependency
    <3> QED
      BY <3>1, <1>3
  <2> QED
    BY <2>1, <2>2
<1>7. DependenciesKnown'
  <2> SUFFICES ASSUME NEW m \in Model, NEW d \in dependencies'[m]
               PROVE  data'[d] # {} \/ \E r \in restricted_objects' : ModelOf[r] = d
    BY <1>1 DEF DependenciesKnown
  <2>1. CASE d = rel.from
    BY <1>5, <1>2, <2>1
  <2>2. CASE d \in dependencies[m]
    <3>1. data[d] # {} \/ \E r \in restricted_objects : ModelOf[r] = d
      BY <1>1, <2>2 DEF Ordering, DependenciesKnown
    <3> QED
      BY <1>1, <1>3, <1>5, <2>2, <3>1
  <2> QED
    BY <1>6, <2>1, <2>2
<1> QED
  BY <1>1, <1>7, WalkOrdering

\* A restricted key: a model that others have to wait for has rows that restrict.
LEMMA FollowRestrictOrdering ==
  ASSUME Inductive, Ordering, NEW rel \in Relation, FollowRestrict(rel)
  PROVE  Ordering'
<1>1. /\ Following(rel) /\ pc = "collect" /\ pc' = "collect" /\ Found(rel) # {}
      /\ restricted_objects' = restricted_objects \union Found(rel)
      /\ dependencies' = [dependencies EXCEPT ![rel.to] = @ \union {rel.from}]
      /\ UNCHANGED <<sorted_models, data>>
  BY DEF FollowRestrict, Handled, Following, Drain, context, AddDependency
<1>2. \A r \in Found(rel) : ModelOf[r] = rel.from
  BY <1>1, FoundRows DEF Inductive
<1>3. \E r \in restricted_objects' : ModelOf[r] = rel.from
  BY <1>1, <1>2
<1>4. dependencies \in [Model -> SUBSET Model]
  BY DEF Inductive, Shape
<1>5. DependenciesKnown'
  <2> SUFFICES ASSUME NEW m \in Model, NEW d \in dependencies'[m]
               PROVE  data'[d] # {} \/ \E r \in restricted_objects' : ModelOf[r] = d
    BY <1>1 DEF DependenciesKnown
  <2>1. CASE d = rel.from
    BY <1>3, <2>1
  <2>2. CASE d \in dependencies[m]
    <3>1. data[d] # {} \/ \E r \in restricted_objects : ModelOf[r] = d
      BY <1>1, <2>2 DEF Ordering, DependenciesKnown
    <3> QED
      BY <1>1, <3>1
  <2> QED
    BY <1>1, <1>4, <2>1, <2>2
<1> QED
  BY <1>1, <1>5, WalkOrdering

\* The end of acollect(): rows that restrict are to be deleted as well.
LEMMA AcollectDoneOrdering ==
  ASSUME Inductive, Ordering, AcollectDone
  PROVE  Ordering'
<1>1. /\ pc = "collect" /\ pc' \in {"sort", "done"} /\ (pc' = "sort" => RestrictionHolds)
      /\ UNCHANGED <<sorted_models, data, dependencies>>
  BY DEF AcollectDone, AllFollowed, context
<1>2. ASSUME RestrictionHolds, NEW m \in Model, NEW d \in dependencies[m]
      PROVE  data[d] # {}
  <2>1. data[d] # {} \/ \E r \in restricted_objects : ModelOf[r] = d
    BY <1>1 DEF Ordering, DependenciesKnown
  <2>2. ASSUME NEW r \in restricted_objects, ModelOf[r] = d
        PROVE  data[d] # {}
    <3>1. PICK n \in Model : r \in data[n]
      BY <1>2 DEF RestrictionHolds, Collected
    <3> QED
      BY <2>2, <3>1 DEF Inductive, Shape
  <2> QED
    BY <2>1, <2>2
<1>3. sorted_models' = <<>>
  BY <1>1 DEF Ordering, SortRespects
<1>4. Respected(sorted_models)'
  BY <1>3, EmptyTuple DEF Respected
<1> QED
  BY <1>1, <1>2, <1>4 DEF Ordering, DependenciesKnown, SortRespects, ListOrdered, GoneByModel, Executing

\* sort() takes a model after its dependencies.
LEMMA SortTakeOrdering ==
  ASSUME Inductive, Ordering, SortTake
  PROVE  Ordering'
<1>0. PICK s, t : s = sorted_models /\ t = sorted_models'
  OBVIOUS
<1>1. /\ pc = "sort" /\ pc' = "sort" /\ UNCHANGED <<data, dependencies, restricted_objects>>
  BY DEF SortTake, plan
<1>2. PICK x \in Model : t = Append(s, x) /\ dependencies[x] \subseteq ToSet(s)
  <2>1. PICK i \in DOMAIN models : Ready(models[i]) /\ sorted_models' = Append(sorted_models, models[i])
    BY DEF SortTake
  <2>2. models[i] \in Model
    BY <2>1, LenProperties, ElementOfSeq DEF Inductive, Shape
  <2> QED
    BY <1>0, <2>1, <2>2 DEF Ready
<1>3. s \in Seq(Model) /\ Len(s) \in Nat /\ DOMAIN s = 1 .. Len(s)
  BY <1>0, LenProperties DEF Inductive, Shape
<1>4. /\ t \in Seq(Model) /\ Len(t) = Len(s) + 1 /\ t[Len(s) + 1] = x
      /\ \A i \in 1 .. Len(s) : t[i] = s[i]
  BY <1>2, <1>3, AppendProperties
<1>5. DOMAIN t = 1 .. Len(s) + 1
  BY <1>4, LenProperties
<1>6. Respected(s)
  BY <1>0, <1>1 DEF Ordering, SortRespects
<1>7. ASSUME NEW i \in 1 .. Len(s) + 1, NEW d \in dependencies[t[i]]
      PROVE  \E j \in 1 .. i - 1 : t[j] = d
  <2>1. CASE i = Len(s) + 1
    <3>1. d \in ToSet(s)
      BY <1>2, <1>4, <1>7, <2>1
    <3>2. PICK j \in 1 .. Len(s) : s[j] = d
      BY <3>1, <1>3 DEF ToSet
    <3>3. j \in 1 .. i - 1 /\ t[j] = d
      BY <1>3, <1>4, <2>1, <3>2
    <3> QED
      BY <3>3
  <2>2. CASE i # Len(s) + 1
    <3>1. i \in 1 .. Len(s) /\ t[i] = s[i]
      BY <1>3, <1>4, <2>2
    <3>2. PICK j \in 1 .. i - 1 : s[j] = d
      BY <1>3, <1>6, <1>7, <3>1 DEF Respected
    <3>3. j \in 1 .. Len(s)
      BY <1>3, <3>1, <3>2
    <3> QED
      BY <1>4, <3>2, <3>3
  <2> QED
    BY <2>1, <2>2
<1>8. Respected(sorted_models)'
  BY <1>0, <1>1, <1>5, <1>7 DEF Respected
<1> QED
  BY <1>1, <1>8 DEF Ordering, DependenciesKnown, SortRespects, ListOrdered, GoneByModel, Executing

\* sort() is over: the list is in order, or some models wait for each other.
LEMMA SortOrdering ==
  ASSUME Inductive, Kinds, Ordering, Sort
  PROVE  Ordering'
<1>1. /\ pc = "sort" /\ pc' = "fast" /\ UNCHANGED <<data, dependencies>>
      /\ \A m \in ToSet(models) : ~Ready(m)
  BY DEF Sort, SortOver
<1>2. \A m \in Model : data[m] # {} => m \in ToSet(models)
  BY <1>1 DEF Inductive, Untouched, Planned
<1>3. ToSet(models') = ToSet(models)
  BY DEF Sort
<1>4. DoneInOrder'
  BY <1>1, <1>2, <1>3 DEF DoneInOrder
<1>5. CASE ToSet(sorted_models) = ToSet(models)
  <2>0. PICK s : s = sorted_models
    OBVIOUS
  <2>1. /\ s \in Seq(Model) /\ IsInjective(s) /\ Respected(s) /\ models' = s
        /\ Len(s) \in Nat /\ DOMAIN s = 1 .. Len(s)
    BY <1>1, <1>5, <2>0, LenProperties DEF Inductive, Shape, Kinds, Ordering, SortRespects, Sort
  <2>2. ASSUME NEW i \in DOMAIN s, NEW j \in DOMAIN s, i <= j, s[j] \in dependencies[s[i]]
        PROVE  FALSE
    <3>1. PICK k \in 1 .. i - 1 : s[k] = s[j]
      BY <2>1, <2>2 DEF Respected
    <3>2. k \in DOMAIN s /\ k # j
      BY <2>1, <2>2, <3>1
    <3> QED
      BY <2>1, <2>2, <3>1, <3>2 DEF IsInjective
  <2>3. NoneTooEarly'
    BY <1>1, <2>1, <2>2 DEF NoneTooEarly
  <2> QED
    BY <1>1, <1>4, <2>3 DEF Ordering, DependenciesKnown, SortRespects, ListOrdered, GoneByModel,
                            Executing
<1>6. CASE ToSet(sorted_models) # ToSet(models)
  <2>0. PICK S : S = ToSet(models) \ ToSet(sorted_models)
    OBVIOUS
  <2>1. S # {}
    BY <1>1, <1>6, <2>0 DEF Kinds
  <2>2. ToSet(models) \subseteq Model
    BY Members DEF Inductive, Shape
  <2>3. ASSUME NEW m \in S
        PROVE  m \in Model /\ dependencies[m] \intersect S # {}
    <3>1. m \in Model /\ m \notin ToSet(sorted_models) /\ ~Ready(m)
      BY <1>1, <2>0, <2>2
    <3>2. PICK d \in dependencies[m] : d \notin ToSet(sorted_models)
      BY <3>1 DEF Ready
    <3>3. d \in Model /\ data[d] # {}
      BY <1>1, <3>1 DEF Inductive, Shape, Ordering, DependenciesKnown
    <3>4. d \in S
      BY <1>2, <2>0, <3>2, <3>3
    <3> QED
      BY <3>1, <3>2, <3>4
  <2>4. S \in (SUBSET {m \in Model : dependencies[m] # {}}) \ {{}}
    BY <2>1, <2>3
  <2>5. Circular
    BY <2>3, <2>4 DEF Circular
  <2>6. Circular'
    BY <1>1, <2>5 DEF Circular
  <2> QED
    BY <1>1, <2>6 DEF Ordering, DependenciesKnown, SortRespects, ListOrdered, GoneByModel, Executing
<1> QED
  BY <1>5, <1>6

\* The fast deletes and the updates leave the list as it is.
LEMMA FastAndUpdateOrdering ==
  ASSUME Inductive, Kinds, Ordering, FastDeletes \/ FieldUpdates
  PROVE  Ordering'
<1>1. /\ pc \in {"fast", "update"} /\ pc' \in {"update", "delete"}
      /\ UNCHANGED <<data, dependencies, models>>
  BY DEF FastDeletes, FieldUpdates, plan
<1>2. ListOrdered'
  BY <1>1 DEF Ordering, ListOrdered, Circular, NoneTooEarly, DoneInOrder
<1>3. GoneByModel'
  <2>1. CASE FastDeletes
    BY <2>1, LeftByFastDeletes DEF GoneByModel
  <2>2. CASE FieldUpdates
    <3>1. refs' \subseteq refs /\ rows' = rows /\ Executing
      BY <2>2 DEF FieldUpdates, Executing
    <3> QED
      BY <1>1, <3>1 DEF Ordering, GoneByModel
  <2> QED
    BY <2>1, <2>2
<1> QED
  BY <1>1, <1>2, <1>3 DEF Ordering, DependenciesKnown, SortRespects

\* The first model of the list is done with: none that is to come has to go before it.
LEMMA DeleteModelOrdering ==
  ASSUME Inductive, Kinds, Ordering, DeleteModel
  PROVE  Ordering'
<1>0. PICK m, s : m = Head(models) /\ s = models
  OBVIOUS
<1>1. /\ pc = "delete" /\ pc' = "delete" /\ s # <<>> /\ models' = Tail(s)
      /\ rows' = rows \ data[m] /\ refs' \subseteq refs /\ UNCHANGED <<before, data, dependencies>>
  BY <1>0 DEF DeleteModel, Erase, context
<1>2. s \in Seq(Model) /\ IsInjective(s)
  BY <1>0 DEF Inductive, Shape, Kinds
<1>3. /\ m \in Model /\ Tail(s) \in Seq(Model) /\ ToSet(s) = {m} \union ToSet(Tail(s))
      /\ m \notin ToSet(Tail(s))
  BY <1>0, <1>1, <1>2, FirstTaken, FirstTakenInjective
<1>4. /\ Len(s) \in Nat \ {0} /\ DOMAIN s = 1 .. Len(s) /\ m = s[1]
      /\ DOMAIN Tail(s) = 1 .. Len(s) - 1
      /\ \A i \in 1 .. Len(s) - 1 : Tail(s)[i] = s[i + 1] /\ i + 1 \in DOMAIN s
  <2>1. Len(s) \in Nat \ {0} /\ DOMAIN s = 1 .. Len(s)
    BY <1>1, <1>2, EmptySeq, LenProperties
  <2>2. Len(Tail(s)) = Len(s) - 1 /\ \A i \in 1 .. Len(Tail(s)) : Tail(s)[i] = s[i + 1]
    BY <1>1, <1>2, HeadTailProperties
  <2>3. DOMAIN Tail(s) = 1 .. Len(Tail(s))
    BY <1>3, LenProperties
  <2>4. m = s[1]
    BY <1>0, <2>1
  <2> QED
    BY <2>1, <2>2, <2>3, <2>4
<1>5. ListOrdered'
  <2>1. Circular' = Circular
    BY <1>1 DEF Circular
  <2>2. ASSUME NoneTooEarly, DoneInOrder
        PROVE  NoneTooEarly' /\ DoneInOrder'
    <3>1. \A i, j \in DOMAIN s : i <= j => s[j] \notin dependencies[s[i]]
      BY <1>0, <2>2 DEF NoneTooEarly
    <3>2. ASSUME NEW i \in DOMAIN Tail(s), NEW j \in DOMAIN Tail(s), i <= j
          PROVE  Tail(s)[j] \notin dependencies[Tail(s)[i]]
      <4>1. /\ Tail(s)[i] = s[i + 1] /\ i + 1 \in DOMAIN s
            /\ Tail(s)[j] = s[j + 1] /\ j + 1 \in DOMAIN s /\ i + 1 <= j + 1
        BY <1>4, <3>2
      <4> QED
        BY <3>1, <4>1
    <3>3. dependencies[m] \intersect ToSet(Tail(s)) = {}
      <4> SUFFICES ASSUME NEW i \in DOMAIN Tail(s), Tail(s)[i] \in dependencies[m]
                   PROVE  FALSE
        BY DEF ToSet
      <4>1. Tail(s)[i] = s[i + 1] /\ i + 1 \in DOMAIN s /\ 1 \in DOMAIN s /\ 1 <= i + 1
        BY <1>4
      <4> QED
        BY <1>4, <3>1, <4>1
    <3>4. \A n \in Model : data[n] # {} /\ n \notin ToSet(Tail(s)) =>
                             dependencies[n] \intersect ToSet(Tail(s)) = {}
      <4> SUFFICES ASSUME NEW n \in Model, data[n] # {}, n \notin ToSet(Tail(s))
                   PROVE  dependencies[n] \intersect ToSet(Tail(s)) = {}
        OBVIOUS
      <4>1. CASE n = m
        BY <3>3, <4>1
      <4>2. CASE n # m
        <5>1. dependencies[n] \intersect ToSet(s) = {}
          BY <1>0, <1>3, <2>2, <4>2 DEF DoneInOrder
        <5> QED
          BY <1>3, <5>1
      <4> QED
        BY <4>1, <4>2
    <3> QED
      BY <1>1, <3>2, <3>4 DEF NoneTooEarly, DoneInOrder
  <2> QED
    BY <1>1, <2>1, <2>2 DEF Ordering, ListOrdered
<1>6. GoneByModel'
  <2> SUFFICES ASSUME LeftToTheCollector, NEW e \in refs, e.to \notin rows \ data[m]
               PROVE  e.by.to \notin ToSet(Tail(s))
    BY <1>1 DEF GoneByModel
  <2>1. CASE e.to \notin rows
    <3>1. e.by.to \notin ToSet(s)
      BY <1>0, <1>1, <2>1 DEF Ordering, GoneByModel, Executing
    <3> QED
      BY <1>3, <3>1
  <2>2. CASE e.to \in data[m]
    <3>1. e \in before /\ before \in Databases /\ ModelOf[e.to] = m
      BY <1>3, <2>2 DEF Kinds, Inductive, Shape
    <3>2. e.by.to = m
      BY <3>1, References
    <3> QED
      BY <1>3, <3>2
  <2> QED
    BY <2>1, <2>2
<1> QED
  BY <1>1, <1>5, <1>6 DEF Ordering, DependenciesKnown, SortRespects

\* acollect() starts with the parents waiting for the objects it was given.
LEMMA InitOrdering ==
  ASSUME Init
  PROVE  Ordering
<1>0. PICK m, up : m = OfModel(roots) /\ up = IF keep_parents THEN {} ELSE AsParents(roots)
  OBVIOUS
<1>1. /\ data = [n \in Model |-> {r \in roots \union up : ModelOf[r] = n}]
      /\ dependencies = [n \in Model |-> IF \E r \in up : ModelOf[r] = n THEN {m} ELSE {}]
      /\ sorted_models = <<>> /\ pc = "collect"
  BY <1>0 DEF Init
<1>2. roots # {} /\ m \in Model /\ \A r \in roots : ModelOf[r] = m
  <2>1. PICK n \in Model : roots \in (SUBSET {r \in Row : ModelOf[r] = n}) \ {{}}
    BY DEF Init
  <2>2. roots # {} /\ \A a \in roots : ModelOf[a] = n
    BY <2>1
  <2> QED
    BY <1>0, <2>2 DEF OfModel
<1>3. data[m] # {}
  BY <1>1, <1>2
<1>4. DependenciesKnown
  BY <1>1, <1>3 DEF DependenciesKnown
<1> QED
  BY <1>1, <1>4 DEF Ordering, SortRespects, ListOrdered, GoneByModel, Executing

\* Every step keeps the order.
LEMMA OrderingStep ==
  ASSUME Inductive, Kinds, Ordering, [Next]_vars
  PROVE  Ordering'
<1>1. ASSUME NEW rel \in Relation, FollowCascade(rel)
      PROVE  Ordering'
  BY <1>1, FollowCascadeOrdering
<1>2. ASSUME NEW rel \in Relation, FollowRestrict(rel)
      PROVE  Ordering'
  BY <1>2, FollowRestrictOrdering
<1>3. ASSUME NEW rel \in Relation,
             FollowNothing(rel) \/ FollowFast(rel) \/ FollowSetNull(rel) \/ FollowProtect(rel)
      PROVE  Ordering'
  <2>1. /\ pc = "collect" /\ pc' = "collect"
        /\ UNCHANGED <<sorted_models, data, dependencies, restricted_objects>>
    BY <1>3 DEF FollowNothing, FollowFast, FollowSetNull, FollowProtect, Handled, Following,
                Drain, context, plan
  <2> QED
    BY <2>1, DependenciesStay
<1>4. CASE RelatedDone \/ TakePending \/ FollowItem \/ DrainDone
  <2>1. /\ pc = "collect" /\ pc' = "collect"
        /\ UNCHANGED <<sorted_models, data, dependencies, restricted_objects>>
    BY <1>4 DEF RelatedDone, TakePending, FollowItem, DrainDone, Draining, context, plan
  <2> QED
    BY <2>1, DependenciesStay
<1>5. CASE GiveUp \/ RaiseProtected \/ Commit
  <2>1. pc' = "done"
    BY <1>5 DEF GiveUp, RaiseProtected, Commit
  <2> QED
    BY <2>1 DEF Ordering, DependenciesKnown, SortRespects, ListOrdered, GoneByModel, Executing
<1>6. CASE AcollectDone
  BY <1>6, AcollectDoneOrdering
<1>7. CASE SortTake
  BY <1>7, SortTakeOrdering
<1>8. CASE Sort
  BY <1>8, SortOrdering
<1>9. CASE FastDeletes \/ FieldUpdates
  BY <1>9, FastAndUpdateOrdering
<1>10. CASE DeleteModel
  BY <1>10, DeleteModelOrdering
<1>11. CASE UNCHANGED vars
  <2>1. UNCHANGED <<rows, refs, data, models, dependencies, sorted_models, restricted_objects, pc>>
    BY <1>11 DEF vars, database, context, plan
  <2>2. DependenciesKnown' /\ SortRespects' /\ GoneByModel'
    BY <2>1 DEF Ordering, DependenciesKnown, SortRespects, Respected, GoneByModel, Executing
  <2>3. ListOrdered'
    BY <2>1 DEF Ordering, ListOrdered, Circular, NoneTooEarly, DoneInOrder
  <2> QED
    BY <2>2, <2>3 DEF Ordering
<1> QED
  BY <1>1, <1>2, <1>3, <1>4, <1>5, <1>6, <1>7, <1>8, <1>9, <1>10, <1>11 DEF Next, Over

\* The order holds in every state.
LEMMA OrderingInvariant == Spec => []Ordering
<1>1. Init => Ordering
  BY InitOrdering
<1>2. Inductive /\ Kinds /\ Ordering /\ [Next]_vars => Ordering'
  BY OrderingStep
<1> QED
  BY <1>1, <1>2, InductiveInvariant, KindsInvariant, PTL DEF Spec

\* For every schema whose foreign keys are all the collector's to look after, and
\* every database: while the plan is executed, no row is gone to which a key that
\* may not be empty still refers, unless models depend on each other in a circle.
THEOREM DependentsAreDeletedFirst ==
  ASSUME LeftToTheCollector
  PROVE  Spec => []DependentsGoFirst
<1>1. Inductive /\ Kinds /\ Ordering => DependentsGoFirst
  <2> SUFFICES ASSUME Inductive, Kinds, Ordering, pc = "delete", ~Circular,
                      NEW e \in refs, e.to \notin rows, ~e.by.null
               PROVE  FALSE
    BY DEF DependentsGoFirst, Dangling
  <2>1. e \in before /\ e.from \in rows /\ e.to \in Collected /\ e.from \in Collected /\ InOrder(e)
    BY DEF Inductive, Execution, Executing
  <2>2. /\ e.by.from \in Model /\ e.by.to \in Model
        /\ ModelOf[e.from] = e.by.from /\ ModelOf[e.to] = e.by.to
    BY <2>1, References DEF Inductive, Shape
  <2>3. e.from \in data[e.by.from] /\ e.to \in data[e.by.to]
    BY <2>1, <2>2 DEF Collected, Inductive, Shape
  <2>4. e.by.from \in dependencies[e.by.to]
    BY <2>1 DEF InOrder
  <2>5. e.by.to \notin ToSet(models)
    BY DEF Ordering, GoneByModel, Executing
  <2>6. DoneInOrder
    BY DEF Ordering, ListOrdered
  <2>7. e.by.from \notin ToSet(models)
    BY <2>2, <2>3, <2>4, <2>5, <2>6 DEF DoneInOrder
  <2>8. e.by.from \in ToSet(models)
    BY <2>1, <2>2, <2>3 DEF Inductive, Execution, Executing
  <2> QED
    BY <2>7, <2>8
<1> QED
  BY <1>1, InductiveInvariant, KindsInvariant, OrderingInvariant, PTL


=============================================================================
