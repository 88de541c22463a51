--------------------------- MODULE CollectorProofs ---------------------------
(***************************************************************************)
(* A theorem about Collector, for every schema and every database in which *)
(* the keys are Django's to look after: the plan that acollect() makes and *)
(* adelete() executes leaves no foreign key without its row.               *)
(***************************************************************************)
EXTENDS Collector, SequenceTheorems, FiniteSetTheorems, TLAPS

\* What the coroutines pass on: rows of one model.
Batches == {objs \in SUBSET Row : objs # {} /\ \A a, b \in objs : ModelOf[a] = ModelOf[b]}

Frames == [kind : {"acollect", "related", "drain"}, objs : Batches,
           fast : SUBSET Relation, items : Seq(Batches), rels : SUBSET Relation]

FastRelations == {rel \in Relation : CanFastDelete(rel.from, rel)}

\* A coroutine that drains follows no relation, one that follows drains nothing,
\* and only relations that nothing follows are deleted without a look.
FrameOK(c) ==
  IF c.kind = "drain" THEN c.rels = {} /\ c.fast = {}
                      ELSE c.items = <<>> /\ c.fast \subseteq FastRelations

\* The rows and the parents they stand for, at the start.
Reached(objs) == objs \union {x.to : x \in {y \in before : y.by.parent_link /\ y.from \in objs}}

Walking == pc = "collect" /\ protected_objects = {}
Planned == pc \in {"collect", "sort", "fast"}
Executing == pc \in {"update", "delete"}

\* The kinds of what the proof looks at.
Shape ==
  /\ before \in Databases
  /\ data \in [Model -> SUBSET Row] /\ \A m \in Model : \A r \in data[m] : ModelOf[r] = m
  /\ models \in Seq(Model) /\ sorted_models \in Seq(Model)
  /\ dependencies \in [Model -> SUBSET Model]
  /\ _pending_collects \in Seq(Batches)
  /\ stack \in Seq(Frames) /\ \A c \in ToSet(stack) : FrameOK(c)
  /\ \A q \in fast_deletes : q[1] \in FastRelations
  /\ pc \in {"collect", "sort", "fast", "update", "delete", "done"}

\* Until the plan is executed the database is as it was, and every model with
\* rows to delete is in the list.
Untouched ==
  Planned => /\ refs = before /\ rows = Row
             /\ \A m \in Model : data[m] # {} => m \in ToSet(models)

\* Only a coroutine that is about to empty the queue finds something in it.
Queue ==
  Walking /\ stack # <<>> /\ (Top.kind # "drain" \/ Top.items # <<>>) => _pending_collects = <<>>

FastDeleted(e) == \E q \in fast_deletes : e.by = q[1] /\ e.to \in Reached(q[2])
Updated(e) == \E u \in field_updates : e.by = u[1] /\ e.from \in u[2]

\* The rows of the key's model are deleted before those it refers to, unless the
\* key may be empty.
InOrder(e) == e.by.null \/ e.by.from \in dependencies[e.by.to]

\* The plan sees to a reference to a row it deletes.
SeenTo(e) == FastDeleted(e) \/ Updated(e) \/ (e.from \in Collected /\ InOrder(e))

\* It does if the rows that a restricted key leads from are collected.
Restrains(e) == e.from \in restricted_objects /\ InOrder(e)

\* A coroutine has still to follow it: by its relation or by its row.
ToFollow(e) ==
  \/ \E c \in ToSet(stack) : /\ e.by \in c.rels \union c.fast /\ e.to \in Reached(c.objs)
  \/ \E c \in ToSet(stack) : \E objs \in ToSet(c.items) : e.to \in objs
  \/ \E objs \in ToSet(_pending_collects) : e.to \in objs

\* While acollect() walks, nothing that leads to a collected row is forgotten.
NothingForgotten ==
  LeftToTheCollector /\ Walking => \A e \in before : e.to \in Collected =>
               SeenTo(e) \/ Restrains(e) \/ ToFollow(e)

\* The plan is complete.
Complete ==
  LeftToTheCollector /\ pc \in {"sort", "fast"} => \A e \in before : e.to \in Collected => SeenTo(e)

\* While the plan is executed: what still refers to a row that goes is a row that
\* goes as well, once the updates are done, and the list has the models to go.
Execution ==
  LeftToTheCollector /\ Executing =>
    /\ refs \subseteq before
    /\ \A e \in refs : e.from \in rows /\ (e.to \notin rows => e.to \in Collected)
    /\ \A e \in refs : e.to \in Collected =>
         (e.from \in Collected /\ InOrder(e)) \/ (pc = "update" /\ Updated(e))
    /\ \A m \in Model : data[m] \intersect rows # {} => m \in ToSet(models)

Inductive ==
  /\ Shape /\ Untouched /\ Queue /\ NothingForgotten /\ Complete /\ Execution
  /\ LeftToTheCollector => NoReferenceDangles

-----------------------------------------------------------------------------
(* Sequences as the sets of their members.                                 *)

\* The empty sequence has no member.
LEMMA EmptyTuple == DOMAIN <<>> = {}
OBVIOUS

\* A member of a sequence over S is in S.
LEMMA Members ==
  ASSUME NEW S, NEW s \in Seq(S)
  PROVE  ToSet(s) \subseteq S
BY LenProperties, ElementOfSeq DEF ToSet

\* What Front takes.
LEMMA FrontTakes ==
  ASSUME NEW S, NEW s \in Seq(S), s # <<>>
  PROVE  /\ Front(s) \in Seq(S) /\ Len(Front(s)) = Len(s) - 1
         /\ \A i \in 1 .. Len(s) - 1 : Front(s)[i] = s[i]
<1>1. Len(s) \in Nat \ {0}
  BY EmptySeq
<1>2. \A i \in 1 .. Len(s) - 1 : s[i] \in S
  BY <1>1, ElementOfSeq
<1> DEFINE n == Len(s) - 1
<1>3. n \in Nat /\ 1 \in Int /\ n \in Int
  BY <1>1
<1> HIDE DEF n
<1>4. /\ SubSeq(s, 1, n) \in Seq(S)
      /\ Len(SubSeq(s, 1, n)) = IF 1 <= n THEN n - 1 + 1 ELSE 0
      /\ \A i \in 1 .. n - 1 + 1 : SubSeq(s, 1, n)[i] = s[1 + i - 1]
  <2>1. \A i \in 1 .. n : s[i] \in S
    BY <1>2 DEF n
  <2> QED
    BY <1>3, <2>1, SubSeqProperties
<1>5. Len(SubSeq(s, 1, n)) = n /\ \A i \in 1 .. n : SubSeq(s, 1, n)[i] = s[i]
  BY <1>3, <1>4
<1>6. Front(s) = SubSeq(s, 1, n)
  BY DEF Front, n
<1> QED
  BY <1>4, <1>5, <1>6 DEF n

\* A sequence that is not empty has its last member, and the others.
LEMMA TopAndRest ==
  ASSUME NEW S, NEW s \in Seq(S), s # <<>>
  PROVE  /\ Len(s) \in Nat \ {0} /\ s[Len(s)] \in S
         /\ Front(s) \in Seq(S)
         /\ ToSet(s) = ToSet(Front(s)) \union {s[Len(s)]}
<1>1. Len(s) \in Nat \ {0} /\ DOMAIN s = 1 .. Len(s)
  BY EmptySeq, LenProperties
<1>3. /\ Front(s) \in Seq(S) /\ Len(Front(s)) = Len(s) - 1
      /\ \A i \in 1 .. Len(s) - 1 : Front(s)[i] = s[i]
  BY FrontTakes
<1>4. DOMAIN Front(s) = 1 .. Len(s) - 1
  BY <1>3, LenProperties
<1>5. s[Len(s)] \in S
  BY <1>1, ElementOfSeq
<1>6. ToSet(Front(s)) = {s[i] : i \in 1 .. Len(s) - 1}
  BY <1>3, <1>4 DEF ToSet
<1>7. ToSet(s) = {s[i] : i \in 1 .. Len(s)}
  BY <1>1 DEF ToSet
<1>8. 1 .. Len(s) = (1 .. Len(s) - 1) \union {Len(s)}
  BY <1>1
<1> QED
  BY <1>1, <1>3, <1>5, <1>6, <1>7, <1>8

\* The last member replaced.
LEMMA TopReplaced ==
  ASSUME NEW S, NEW s \in Seq(S), s # <<>>, NEW c \in S
  PROVE  LET t == [s EXCEPT ![Len(s)] = c]
         IN  /\ t \in Seq(S) /\ t # <<>> /\ Len(t) = Len(s) /\ t[Len(t)] = c
             /\ ToSet(t) = ToSet(Front(s)) \union {c}
<1> DEFINE t == [s EXCEPT ![Len(s)] = c]
<1>1. Len(s) \in Nat \ {0} /\ Len(s) \in 1 .. Len(s)
  BY TopAndRest
<1>2. /\ t \in Seq(S) /\ Len(t) = Len(s)
      /\ \A j \in 1 .. Len(s) : t[j] = IF j = Len(s) THEN c ELSE s[j]
  BY <1>1, ExceptSeq
<1>3. t # <<>> /\ t[Len(t)] = c
  BY <1>1, <1>2, EmptySeq
<1> HIDE DEF t
<1>4. ToSet(t) = ToSet(Front(t)) \union {c}
  BY <1>2, <1>3, TopAndRest
<1>5. \A i \in 1 .. Len(s) - 1 : t[i] = s[i]
  BY <1>1, <1>2
<1>6. /\ Front(s) \in Seq(S) /\ Len(Front(s)) = Len(s) - 1
      /\ \A i \in 1 .. Len(s) - 1 : Front(s)[i] = s[i]
  BY FrontTakes
<1>7. /\ Front(t) \in Seq(S) /\ Len(Front(t)) = Len(s) - 1
      /\ \A i \in 1 .. Len(s) - 1 : Front(t)[i] = t[i]
  BY <1>2, <1>3, FrontTakes
<1>8. Front(t) = Front(s)
  BY <1>1, <1>5, <1>6, <1>7, SeqEqual
<1> QED
  BY <1>2, <1>3, <1>4, <1>8 DEF t

\* A member put last.
LEMMA PutLast ==
  ASSUME NEW S, NEW s \in Seq(S), NEW c \in S
  PROVE  LET t == Append(s, c)
         IN  /\ t \in Seq(S) /\ t # <<>> /\ Len(t) = Len(s) + 1 /\ t[Len(t)] = c
             /\ ToSet(t) = ToSet(s) \union {c}
<1> DEFINE t == Append(s, c)
<1>1. Len(s) \in Nat /\ DOMAIN s = 1 .. Len(s)
  BY LenProperties
<1>2. /\ t \in Seq(S) /\ t # <<>> /\ Len(t) = Len(s) + 1 /\ t[Len(s) + 1] = c
      /\ \A i \in 1 .. Len(s) : t[i] = s[i]
  BY AppendProperties
<1> HIDE DEF t
<1>3. DOMAIN t = 1 .. Len(s) + 1
  BY <1>2, LenProperties
<1>4. 1 .. Len(s) + 1 = (1 .. Len(s)) \union {Len(s) + 1}
  BY <1>1
<1>5. ToSet(t) = {t[i] : i \in 1 .. Len(s)} \union {c}
  BY <1>2, <1>3, <1>4 DEF ToSet
<1>6. ToSet(s) = {t[i] : i \in 1 .. Len(s)}
  BY <1>1, <1>2 DEF ToSet
<1> QED
  BY <1>2, <1>5, <1>6 DEF t

\* The first member taken.
LEMMA FirstTaken ==
  ASSUME NEW S, NEW s \in Seq(S), s # <<>>
  PROVE  /\ Head(s) \in S /\ Tail(s) \in Seq(S)
         /\ ToSet(s) = {Head(s)} \union ToSet(Tail(s))
<1>1. Len(s) \in Nat \ {0} /\ DOMAIN s = 1 .. Len(s)
  BY EmptySeq, LenProperties
<1>2. /\ Head(s) \in S /\ Tail(s) \in Seq(S) /\ Len(Tail(s)) = Len(s) - 1
      /\ \A i \in 1 .. Len(Tail(s)) : Tail(s)[i] = s[i + 1]
  BY HeadTailProperties
<1>3. Head(s) = s[1]
  BY <1>1
<1>4. DOMAIN Tail(s) = 1 .. Len(s) - 1
  BY <1>2, LenProperties
<1>5. ASSUME NEW x \in ToSet(s)
      PROVE  x \in {Head(s)} \union ToSet(Tail(s))
  <2>1. PICK i \in 1 .. Len(s) : x = s[i]
    BY <1>1 DEF ToSet
  <2>2. CASE i = 1
    BY <2>1, <2>2, <1>3
  <2>3. CASE i # 1
    <3>1. i - 1 \in 1 .. Len(s) - 1 /\ i - 1 + 1 = i
      BY <1>1, <2>3
    <3>2. x = Tail(s)[i - 1]
      BY <2>1, <3>1, <1>2
    <3> QED
      BY <3>1, <3>2, <1>4 DEF ToSet
  <2> QED
    BY <2>2, <2>3
<1>6. ASSUME NEW x \in {Head(s)} \union ToSet(Tail(s))
      PROVE  x \in ToSet(s)
  <2>1. CASE x = Head(s)
    BY <2>1, <1>1, <1>3 DEF ToSet
  <2>2. CASE x \in ToSet(Tail(s))
    <3>1. PICK i \in 1 .. Len(s) - 1 : x = Tail(s)[i]
      BY <2>2, <1>4 DEF ToSet
    <3>2. x = s[i + 1] /\ i + 1 \in 1 .. Len(s)
      BY <3>1, <1>1, <1>2
    <3> QED
      BY <3>2, <1>1 DEF ToSet
  <2> QED
    BY <2>1, <2>2
<1> QED
  BY <1>2, <1>5, <1>6

\* A finite set as a sequence has the set's members, each once.
LEMMA SetAsSequence ==
  ASSUME NEW S, IsFiniteSet(S)
  PROVE  SetToSeq(S) \in Seq(S) /\ ToSet(SetToSeq(S)) = S /\ IsInjective(SetToSeq(S))
<1> DEFINE n == Cardinality(S)
           Q == {f \in [1 .. n -> S] : IsInjective(f)}
<1>1. n \in Nat /\ ExistsBijection(1 .. n, S)
  BY FS_CardinalityType
<1>2. Q # {}
  BY <1>1 DEF ExistsBijection, Bijection, Injection, IsInjective
<1>3. SetToSeq(S) \in Q
  BY <1>2 DEF SetToSeq
<1>4. PICK f \in Q : f = SetToSeq(S)
  BY <1>3
<1>5. f \in Injection(1 .. n, S)
  BY <1>4 DEF Injection
<1>6. Cardinality(1 .. n) = n
  BY <1>1, FS_Interval
<1>7. f \in Surjection(1 .. n, S)
  BY <1>5, <1>6, FS_Injection
<1>8. ToSet(f) = S
  BY <1>7 DEF Surjection, ToSet
<1>9. f \in Seq(S)
  BY <1>1, <1>4, SeqDef
<1> QED
  BY <1>4, <1>8, <1>9

-----------------------------------------------------------------------------
(* The schema and the walk.                                                *)

\* A database is a set of typed references.
LEMMA References ==
  ASSUME before \in Databases, NEW e \in before
  PROVE  /\ e.from \in Row /\ e.to \in Row /\ e.by \in Relation
         /\ e.by.from \in Model /\ e.by.to \in Model
         /\ ModelOf[e.from] = e.by.from /\ ModelOf[e.to] = e.by.to
<1>1. e \in Reference
  BY SchemaAssumption
<1> QED
  BY <1>1, SchemaAssumption DEF Reference, ForeignKey

\* A batch is of the model of each of its rows.
LEMMA BatchModel ==
  ASSUME NEW objs \in Batches
  PROVE  /\ OfModel(objs) \in Model
         /\ \A r \in objs : r \in Row /\ ModelOf[r] = OfModel(objs)
BY SchemaAssumption DEF Batches, OfModel

\* The relation of a reference to a row of a batch is one to follow.
LEMMA LeadsToCandidate ==
  ASSUME before \in Databases, NEW e \in before, NEW objs \in Batches, e.to \in objs
  PROVE  e.by \in Candidates(OfModel(objs))
BY References, BatchModel DEF Candidates

\* A coroutine starts as a frame.
LEMMA CoroutineTyped ==
  ASSUME NEW kind \in {"acollect", "related", "drain"}, NEW objs \in Batches
  PROVE  /\ Coroutine(kind, objs) \in Frames /\ FrameOK(Coroutine(kind, objs))
         /\ Coroutine(kind, objs).kind = kind /\ Coroutine(kind, objs).objs = objs
         /\ Coroutine(kind, objs).items = <<>>
         /\ kind # "drain" => Coroutine(kind, objs).rels = Candidates(OfModel(objs))
<1>1. <<>> \in Seq(Batches)
  BY EmptySeq
<1>2. Candidates(OfModel(objs)) \subseteq Relation
  BY DEF Candidates
<1> QED
  BY <1>1, <1>2 DEF Coroutine, Frames, FrameOK

\* What a coroutine that follows rel finds.
LEMMA FoundRows ==
  ASSUME Shape, Untouched, NEW rel \in Relation, Following(rel)
  PROVE  /\ Top \in Frames /\ Top \in ToSet(stack) /\ FrameOK(Top)
         /\ Top.kind # "drain" /\ Top.items = <<>> /\ Top.objs \in Batches
         /\ Found(rel) \subseteq Row /\ \A r \in Found(rel) : ModelOf[r] = rel.from
         /\ Found(rel) # {} => Found(rel) \in Batches /\ OfModel(Found(rel)) = rel.from
         /\ \A e \in before : e.by = rel /\ e.to \in Reached(Top.objs) => e.from \in Found(rel)
<1>1. refs = before /\ pc = "collect"
  BY DEF Untouched, Planned, Following
<1>2. Top \in Frames /\ Top \in ToSet(stack)
  BY TopAndRest DEF Shape, Following, Top
<1>3. FrameOK(Top) /\ Top.kind # "drain" /\ Top.items = <<>>
  BY <1>2 DEF Shape, FrameOK, Following
<1>4. Found(rel) = {e.from : e \in {x \in before : x.by = rel /\ x.to \in Reached(Top.objs)}}
  BY <1>1 DEF Found, RelatedObjects, Reached, AsParents
<1>5. Found(rel) \subseteq Row /\ \A r \in Found(rel) : ModelOf[r] = rel.from
  BY <1>4, References DEF Shape
<1>6. ASSUME Found(rel) # {}
      PROVE  Found(rel) \in Batches /\ OfModel(Found(rel)) = rel.from
  <2>1. Found(rel) \in Batches
    BY <1>5, <1>6 DEF Batches
  <2> QED
    BY <2>1, <1>5, <1>6, BatchModel
<1>7. Top.objs \in Batches
  BY <1>2 DEF Frames
<1>8. \A e \in before : e.by = rel /\ e.to \in Reached(Top.objs) => e.from \in Found(rel)
  BY <1>4
<1> QED
  BY <1>2, <1>3, <1>5, <1>6, <1>7, <1>8

\* The coroutine that goes on without rel.
LEMMA WithoutTyped ==
  ASSUME Shape, Untouched, NEW rel \in Relation, Following(rel),
         NEW fast \in SUBSET FastRelations
  PROVE  LET c == [Without(rel) EXCEPT !.fast = @ \union fast]
         IN  /\ c \in Frames /\ FrameOK(c) /\ c.kind = Top.kind /\ c.objs = Top.objs
             /\ c.items = <<>> /\ c.rels = Top.rels \ {rel} /\ c.fast = Top.fast \union fast
<1>1. Top \in Frames /\ FrameOK(Top) /\ Top.items = <<>> /\ Top.kind # "drain"
  BY FoundRows
<1>2. FastRelations \subseteq Relation
  BY DEF FastRelations
<1> QED
  BY <1>1, <1>2 DEF Without, Frames, FrameOK

\* A reference that had to be followed still has, unless rel leads to it.
LEMMA StillFollowed ==
  ASSUME Shape, Untouched, NEW rel \in Relation, Following(rel),
         NEW c, c.objs = Top.objs, Top.rels \ {rel} \subseteq c.rels, Top.fast \subseteq c.fast,
         ToSet(Front(stack)) \union {c} \subseteq ToSet(stack'),
         ToSet(_pending_collects) \subseteq ToSet(_pending_collects'),
         before' = before,
         NEW e \in before, ToFollow(e)
  PROVE  ToFollow(e)' \/ (e.by = rel /\ e.to \in Reached(Top.objs))
<1>1. Top.items = <<>> /\ ToSet(stack) = ToSet(Front(stack)) \union {Top}
  BY FoundRows, TopAndRest DEF Shape, Following, Top
<1>2. \A objs : Reached(objs)' = Reached(objs)
  BY DEF Reached
<1>3. ToSet(Top.items) = {}
  BY <1>1, EmptyTuple DEF ToSet
<1>4. CASE \E d \in ToSet(stack) : e.by \in d.rels \union d.fast /\ e.to \in Reached(d.objs)
  <2>1. PICK d \in ToSet(stack) : e.by \in d.rels \union d.fast /\ e.to \in Reached(d.objs)
    BY <1>4
  <2>2. CASE d \in ToSet(Front(stack))
    BY <2>1, <2>2, <1>2 DEF ToFollow
  <2>3. CASE d = Top
    BY <2>1, <2>3, <1>2 DEF ToFollow
  <2> QED
    BY <2>2, <2>3, <1>1
<1>5. CASE \E d \in ToSet(stack) : \E objs \in ToSet(d.items) : e.to \in objs
  BY <1>1, <1>3, <1>5 DEF ToFollow
<1>6. CASE \E objs \in ToSet(_pending_collects) : e.to \in objs
  BY <1>6 DEF ToFollow
<1> QED
  BY <1>4, <1>5, <1>6 DEF ToFollow

-----------------------------------------------------------------------------
(* The steps of the walk.                                                  *)

\* The walk goes on: what is left to show.
LEMMA WalkGoesOn ==
  ASSUME Inductive, pc = "collect", pc' = "collect",
         UNCHANGED <<database, before, outcome>>, Shape',
         \A m \in Model : data'[m] # {} => m \in ToSet(models'),
         Queue', NothingForgotten'
  PROVE  Inductive'
BY DEF Inductive, Untouched, Planned, Complete, Execution, Executing, NoReferenceDangles, database

\* acollect() raises.
LEMMA WalkEnds ==
  ASSUME Inductive, pc = "collect", pc' = "done", outcome' # "integrity",
         UNCHANGED <<database, context, plan, walk>>
  PROVE  Inductive'
<1>1. Shape'
  BY DEF Inductive, Shape, context, plan, walk, FrameOK
<1> QED
  BY <1>1 DEF Inductive, Untouched, Planned, Queue, Walking, NothingForgotten, Complete,
              Execution, Executing, NoReferenceDangles

\* The stack when the innermost coroutine goes on without rel.
LEMMA TopGoesOn ==
  ASSUME Inductive, NEW rel \in Relation, Following(rel),
         NEW fast \in SUBSET FastRelations,
         stack' = SetTop([Without(rel) EXCEPT !.fast = @ \union fast])
  PROVE  \E c \in Frames :
           /\ FrameOK(c) /\ c.objs = Top.objs /\ c.items = <<>>
           /\ c.rels = Top.rels \ {rel} /\ c.fast = Top.fast \union fast
           /\ stack' \in Seq(Frames) /\ ToSet(stack') = ToSet(Front(stack)) \union {c}
           /\ ToSet(stack) = ToSet(Front(stack)) \union {Top}
<1>0. PICK c : c = [Without(rel) EXCEPT !.fast = @ \union fast]
  OBVIOUS
<1>1. /\ c \in Frames /\ FrameOK(c) /\ c.objs = Top.objs /\ c.items = <<>>
      /\ c.rels = Top.rels \ {rel} /\ c.fast = Top.fast \union fast
  BY <1>0, WithoutTyped DEF Inductive
<1>2. stack \in Seq(Frames) /\ stack # <<>>
  BY DEF Inductive, Shape, Following
<1>3. stack' = [stack EXCEPT ![Len(stack)] = c]
  BY <1>0 DEF SetTop
<1>4. /\ [stack EXCEPT ![Len(stack)] = c] \in Seq(Frames)
      /\ ToSet([stack EXCEPT ![Len(stack)] = c]) = ToSet(Front(stack)) \union {c}
  BY <1>1, <1>2, TopReplaced
<1>5. ToSet(stack) = ToSet(Front(stack)) \union {stack[Len(stack)]}
  BY <1>2, TopAndRest
<1> QED
  BY <1>1, <1>3, <1>4, <1>5 DEF Top

\* What had to be followed still has, or rel leads to it and is not among the fast.
LEMMA WithoutFollows ==
  ASSUME Inductive, NEW rel \in Relation, Following(rel),
         NEW fast \in SUBSET FastRelations,
         stack' = SetTop([Without(rel) EXCEPT !.fast = @ \union fast]),
         UNCHANGED <<before, _pending_collects>>,
         NEW e \in before, ToFollow(e)
  PROVE  ToFollow(e)' \/ (rel \notin fast /\ e.by = rel /\ e.from \in Found(rel))
<1>1. PICK c \in Frames :
        /\ c.objs = Top.objs /\ c.rels = Top.rels \ {rel} /\ c.fast = Top.fast \union fast
        /\ ToSet(stack') = ToSet(Front(stack)) \union {c}
        /\ ToSet(stack) = ToSet(Front(stack)) \union {Top}
  BY TopGoesOn
<1>2. ToFollow(e)' \/ (e.by = rel /\ e.to \in Reached(Top.objs))
  BY <1>1, StillFollowed DEF Inductive
<1>3. CASE e.by = rel /\ e.to \in Reached(Top.objs)
  <2>1. e.from \in Found(rel)
    BY <1>3, FoundRows DEF Inductive
  <2>2. CASE rel \in fast
    <3>1. e.by \in c.fast /\ e.to \in Reached(c.objs)
      BY <1>1, <1>3, <2>2
    <3>2. Reached(c.objs) = Reached(c.objs)' /\ c \in ToSet(stack')
      BY <1>1 DEF Reached
    <3> QED
      BY <3>1, <3>2 DEF ToFollow
  <2> QED
    BY <1>3, <2>1, <2>2
<1> QED
  BY <1>2, <1>3

\* A coroutine goes on without rel.
LEMMA GoesOnWithout ==
  ASSUME Inductive, NEW rel \in Relation, Following(rel),
         NEW fast \in SUBSET FastRelations,
         stack' = SetTop([Without(rel) EXCEPT !.fast = @ \union fast]),
         LeftToTheCollector /\ Walking => rel \in fast \/ Found(rel) = {},
         UNCHANGED <<database, context, plan, _pending_collects, protected_objects, pc, outcome>>
  PROVE  Inductive'
<1>1. PICK c \in Frames :
        /\ FrameOK(c)
        /\ stack' \in Seq(Frames) /\ ToSet(stack') = ToSet(Front(stack)) \union {c}
        /\ ToSet(stack) = ToSet(Front(stack)) \union {Top}
  BY TopGoesOn
<1>2. pc = "collect" /\ stack # <<>> /\ Top.kind # "drain"
  BY DEF Following
<1>4. \A d \in ToSet(stack') : FrameOK(d)
  BY <1>1 DEF Inductive, Shape
<1>5. Shape'
  BY <1>1, <1>4 DEF Inductive, Shape, context, plan, FrameOK
<1>6. Queue'
  BY <1>2 DEF Inductive, Queue, Walking
<1>7. ASSUME LeftToTheCollector, Walking', NEW e \in before, (e.to \in Collected)'
      PROVE  SeenTo(e)' \/ Restrains(e)' \/ ToFollow(e)'
  <2>1. Walking /\ e.to \in Collected
    BY <1>7 DEF Walking, Collected, plan
  <2>2. SeenTo(e)' = SeenTo(e) /\ Restrains(e)' = Restrains(e)
    BY DEF SeenTo, Restrains, InOrder, FastDeleted, Updated, Collected, Reached, plan, context
  <2>3. ToFollow(e) => ToFollow(e)'
    BY <1>7, <2>1, WithoutFollows DEF context
  <2> QED
    BY <1>7, <2>1, <2>2, <2>3 DEF Inductive, NothingForgotten
<1>8. NothingForgotten'
  BY <1>7 DEF NothingForgotten, context
<1>9. \A m \in Model : data'[m] # {} => m \in ToSet(models')
  BY <1>2 DEF Inductive, Untouched, Planned, plan
<1> QED
  BY <1>2, <1>5, <1>6, <1>8, <1>9, WalkGoesOn DEF context

\* A coroutine that notes nothing is as it was but for rel.
LEMMA WithoutAsIs ==
  ASSUME Shape, Untouched, NEW rel \in Relation, Following(rel)
  PROVE  [Without(rel) EXCEPT !.fast = @ \union {}] = Without(rel)
<1>1. Top \in Frames
  BY FoundRows
<1>2. Without(rel) \in Frames
  BY <1>1 DEF Frames, Without
<1> QED
  BY <1>2 DEF Frames

\* A relation that the database is left with, or that no row uses.
LEMMA FollowNothingStep ==
  ASSUME Inductive, NEW rel \in Relation, FollowNothing(rel)
  PROVE  Inductive'
<1>1. Following(rel) /\ (LeftToTheCollector => Found(rel) = {})
  BY DEF FollowNothing, LeftToTheCollector
<1>2. [Without(rel) EXCEPT !.fast = @ \union {}] = Without(rel)
  BY <1>1, WithoutAsIs DEF Inductive
<1>3. stack' = SetTop([Without(rel) EXCEPT !.fast = @ \union {}])
  BY <1>2 DEF FollowNothing
<1>4. LeftToTheCollector /\ Walking => rel \in {} \/ Found(rel) = {}
  BY <1>1
<1>5. {} \in SUBSET FastRelations
  OBVIOUS
<1>6. UNCHANGED <<database, context, plan, _pending_collects, protected_objects, pc, outcome>>
  BY DEF FollowNothing
<1> QED
  BY <1>1, <1>3, <1>4, <1>5, <1>6, GoesOnWithout

\* A relation that nothing follows is noted: its rows go without a look.
LEMMA FollowFastStep ==
  ASSUME Inductive, NEW rel \in Relation, FollowFast(rel)
  PROVE  Inductive'
<1>1. Following(rel) /\ {rel} \in SUBSET FastRelations
  BY DEF FollowFast, FastRelations
<1>2. stack' = SetTop([Without(rel) EXCEPT !.fast = @ \union {rel}])
  BY DEF FollowFast
<1> QED
  BY <1>1, <1>2, GoesOnWithout DEF FollowFast

\* The stack when the innermost coroutine awaits the drain after a handler.
LEMMA DrainAwaited ==
  ASSUME Inductive, NEW rel \in Relation, Following(rel), Drain(rel)
  PROVE  \E c, d \in Frames :
           /\ FrameOK(c) /\ c.objs = Top.objs /\ c.items = <<>>
           /\ c.rels = Top.rels \ {rel} /\ c.fast = Top.fast
           /\ FrameOK(d) /\ d.kind = "drain" /\ d.items = <<>>
           /\ stack' \in Seq(Frames) /\ stack' # <<>> /\ Top' = d
           /\ ToSet(stack') = ToSet(Front(stack)) \union {c} \union {d}
           /\ ToSet(stack) = ToSet(Front(stack)) \union {Top}
<1>0. PICK c, d : c = Without(rel) /\ d = Coroutine("drain", Top.objs)
  OBVIOUS
<1>1. /\ c \in Frames /\ FrameOK(c) /\ c.objs = Top.objs /\ c.items = <<>>
      /\ c.rels = Top.rels \ {rel} /\ c.fast = Top.fast
  BY <1>0, FoundRows DEF Inductive, Without, Frames, FrameOK
<1>2. stack \in Seq(Frames) /\ stack # <<>>
  BY DEF Inductive, Shape, Following
<1>3. d \in Frames /\ FrameOK(d) /\ d.kind = "drain" /\ d.items = <<>>
  BY <1>0, FoundRows, CoroutineTyped DEF Inductive
<1>4. stack' = Append(SetTop(c), d)
  BY <1>0 DEF Drain, Await
<1>5. /\ SetTop(c) \in Seq(Frames) /\ ToSet(SetTop(c)) = ToSet(Front(stack)) \union {c}
      /\ ToSet(stack) = ToSet(Front(stack)) \union {Top}
  BY <1>1, <1>2, TopReplaced, TopAndRest DEF SetTop, Top
<1>6. /\ stack' \in Seq(Frames) /\ stack' # <<>> /\ Top' = d
      /\ ToSet(stack') = ToSet(Front(stack)) \union {c} \union {d}
  BY <1>3, <1>4, <1>5, PutLast DEF Top
<1> QED
  BY <1>1, <1>3, <1>5, <1>6

\* After a handler, what had to be followed still has, or it is what rel found.
LEMMA HandlerFollows ==
  ASSUME Inductive, NEW rel \in Relation, Following(rel), Drain(rel),
         ToSet(_pending_collects) \subseteq ToSet(_pending_collects'),
         NEW e \in before, ToFollow(e)
  PROVE  ToFollow(e)' \/ (e.by = rel /\ e.from \in Found(rel))
<1>1. PICK c, d \in Frames :
        /\ c.objs = Top.objs /\ c.rels = Top.rels \ {rel} /\ c.fast = Top.fast
        /\ ToSet(stack') = ToSet(Front(stack)) \union {c} \union {d}
  BY DrainAwaited
<1>2. ToFollow(e)' \/ (e.by = rel /\ e.to \in Reached(Top.objs))
  BY <1>1, StillFollowed DEF Inductive, Drain, context
<1> QED
  BY <1>2, FoundRows DEF Inductive

\* A handler has taken care of rel: the rows found are collected, to be updated or
\* restricted, and the queue is about to be drained.
LEMMA HandlerStep ==
  ASSUME Inductive, NEW rel \in Relation, Following(rel),
         Drain(rel),
         UNCHANGED fast_deletes,
         field_updates \subseteq field_updates',
         dependencies' \in [Model -> SUBSET Model],
         \A m \in Model : dependencies[m] \subseteq dependencies'[m],
         restricted_objects \subseteq restricted_objects',
         data' \in [Model -> SUBSET Row], \A m \in Model : \A r \in data'[m] : ModelOf[r] = m,
         \A m \in Model : data[m] \subseteq data'[m],
         models' \in Seq(Model), \A m \in Model : data'[m] # {} => m \in ToSet(models'),
         _pending_collects' \in Seq(Batches),
         ToSet(_pending_collects) \subseteq ToSet(_pending_collects'),
         \A r \in Collected' : r \in Collected \/ \E objs \in ToSet(_pending_collects') : r \in objs,
         \A e \in before : e.by = rel /\ e.from \in Found(rel) =>
           SeenTo(e)' \/ Restrains(e)'
  PROVE  Inductive'
<1>1. PICK c, d \in Frames :
        /\ FrameOK(c) /\ FrameOK(d) /\ d.kind = "drain" /\ d.items = <<>>
        /\ stack' \in Seq(Frames) /\ stack' # <<>> /\ Top' = d
        /\ ToSet(stack') = ToSet(Front(stack)) \union {c} \union {d}
        /\ ToSet(stack) = ToSet(Front(stack)) \union {Top}
  BY DrainAwaited
<1>3. /\ pc = "collect" /\ stack # <<>> /\ pc' = "collect"
      /\ UNCHANGED <<database, context, protected_objects, outcome>>
  BY DEF Following, Drain
<1>8. \A x \in ToSet(stack') : FrameOK(x)
  BY <1>1 DEF Inductive, Shape
<1>9. Shape'
  BY <1>1, <1>3, <1>8 DEF Inductive, Shape, context, FrameOK
<1>10. Queue'
  BY <1>1 DEF Queue
<1>11. ASSUME LeftToTheCollector, Walking', NEW e \in before, (e.to \in Collected)'
       PROVE  SeenTo(e)' \/ Restrains(e)' \/ ToFollow(e)'
  <2>1. Walking
    BY <1>3, <1>11 DEF Walking
  <2>0. InOrder(e) => InOrder(e)'
    BY References DEF InOrder, Inductive, Shape
  <2>2. ASSUME SeenTo(e)
        PROVE  SeenTo(e)'
    <3>1. CASE e.from \in Collected /\ InOrder(e)
      BY <3>1, <2>0 DEF SeenTo, Collected
    <3>2. CASE FastDeleted(e)
      <4>1. \A objs : Reached(objs)' = Reached(objs)
        BY <1>3 DEF Reached, context
      <4> QED
        BY <3>2, <4>1 DEF SeenTo, FastDeleted
    <3>3. CASE Updated(e)
      BY <3>3 DEF SeenTo, Updated
    <3> QED
      BY <2>2, <3>1, <3>2, <3>3 DEF SeenTo
  <2>3. CASE e.to \notin Collected
    <3>1. PICK objs \in ToSet(_pending_collects') : e.to \in objs
      BY <1>11, <2>3
    <3> QED
      BY <3>1 DEF ToFollow
  <2>4. CASE e.to \in Collected
    <3>0. Restrains(e) => Restrains(e)'
      BY <2>0 DEF Restrains
    <3>1. SeenTo(e) \/ Restrains(e) \/ ToFollow(e)
      BY <1>11, <2>1, <2>4 DEF Inductive, NothingForgotten
    <3>2. ToFollow(e) => ToFollow(e)' \/ (e.by = rel /\ e.from \in Found(rel))
      BY HandlerFollows
    <3> QED
      BY <3>0, <3>1, <3>2, <2>2
  <2> QED
    BY <2>3, <2>4
<1>12. NothingForgotten'
  BY <1>3, <1>11 DEF NothingForgotten, context
<1> QED
  BY <1>3, <1>9, <1>10, <1>12, WalkGoesOn DEF context

\* CASCADE collects and queues what it finds, which is of one model.
LEMMA CascadeCollects ==
  ASSUME Inductive, NEW rel \in Relation, FollowCascade(rel)
  PROVE  /\ Found(rel) \in Batches /\ OfModel(Found(rel)) = rel.from /\ rel.from \in Model
         /\ data' \in [Model -> SUBSET Row] /\ \A m \in Model : \A r \in data'[m] : ModelOf[r] = m
         /\ data'[rel.from] = data[rel.from] \union Found(rel)
         /\ \A m \in Model : data[m] \subseteq data'[m] /\ (m # rel.from => data'[m] = data[m])
         /\ Collected' = Collected \union Found(rel)
         /\ _pending_collects' \in Seq(Batches)
         /\ ToSet(_pending_collects') = ToSet(_pending_collects) \union {Found(rel)}
<1>0. PICK objs : objs = Found(rel)
  OBVIOUS
<1>1. /\ Following(rel) /\ objs # {} /\ Add(objs)
      /\ _pending_collects' = Append(_pending_collects, objs)
  BY <1>0 DEF FollowCascade, Handled
<1>2. objs \in Batches /\ OfModel(objs) = rel.from /\ rel.from \in Model
  BY <1>0, <1>1, FoundRows, BatchModel DEF Inductive
<1>3. \A r \in objs : r \in Row /\ ModelOf[r] = rel.from
  BY <1>2, BatchModel
<1>4. /\ data \in [Model -> SUBSET Row] /\ _pending_collects \in Seq(Batches)
      /\ \A m \in Model : \A r \in data[m] : ModelOf[r] = m
  BY DEF Inductive, Shape
<1>5. data' = [data EXCEPT ![rel.from] = @ \union objs]
  BY <1>1, <1>2 DEF Add
<1>6. /\ data' \in [Model -> SUBSET Row] /\ \A m \in Model : \A r \in data'[m] : ModelOf[r] = m
      /\ \A m \in Model : data[m] \subseteq data'[m] /\ (m # rel.from => data'[m] = data[m])
      /\ data'[rel.from] = data[rel.from] \union objs
  BY <1>2, <1>3, <1>4, <1>5
<1>7. /\ _pending_collects' \in Seq(Batches)
      /\ ToSet(_pending_collects') = ToSet(_pending_collects) \union {objs}
  BY <1>1, <1>2, <1>4, PutLast
<1>8. Collected' = Collected \union objs
  BY <1>2, <1>6 DEF Collected
<1> QED
  BY <1>0, <1>2, <1>6, <1>7, <1>8

\* CASCADE adds the rows found and queues them.
LEMMA FollowCascadeStep ==
  ASSUME Inductive, NEW rel \in Relation, FollowCascade(rel)
  PROVE  Inductive'
<1>0. PICK objs : objs = Found(rel)
  OBVIOUS
<1>1. /\ Following(rel) /\ Drain(rel) /\ Add(objs) /\ pc = "collect"
      /\ UNCHANGED <<field_updates, restricted_objects, fast_deletes>>
  BY <1>0 DEF FollowCascade, Handled, Following
<1>2. objs \in Batches /\ OfModel(objs) = rel.from /\ rel.from \in Model
  BY <1>0, CascadeCollects
<1>4. models \in Seq(Model)
  BY DEF Inductive, Shape
<1>6. /\ data' \in [Model -> SUBSET Row] /\ \A m \in Model : \A r \in data'[m] : ModelOf[r] = m
      /\ \A m \in Model : data[m] \subseteq data'[m] /\ (m # rel.from => data'[m] = data[m])
      /\ data'[rel.from] = data[rel.from] \union objs
  BY <1>0, CascadeCollects
<1>7. models' \in Seq(Model) /\ ToSet(models') = ToSet(models) \union {rel.from}
  <2>1. CASE rel.from \in ToSet(models)
    BY <2>1, <1>1, <1>2, <1>4 DEF Add
  <2>2. CASE rel.from \notin ToSet(models)
    <3>1. models' = Append(models, rel.from)
      BY <2>2, <1>1, <1>2 DEF Add
    <3> QED
      BY <3>1, <1>2, <1>4, PutLast
  <2> QED
    BY <2>1, <2>2
<1>8. \A m \in Model : data[m] # {} => m \in ToSet(models)
  BY <1>1 DEF Inductive, Untouched, Planned
<1>9. \A m \in Model : data'[m] # {} => m \in ToSet(models')
  BY <1>6, <1>7, <1>8
<1>10. /\ _pending_collects' \in Seq(Batches)
       /\ ToSet(_pending_collects') = ToSet(_pending_collects) \union {objs}
  BY <1>0, CascadeCollects
<1>11. \A r \in Collected' : r \in Collected \/ r \in objs
  BY <1>0, CascadeCollects
<1>12. /\ dependencies' \in [Model -> SUBSET Model]
       /\ \A m \in Model : dependencies[m] \subseteq dependencies'[m]
       /\ rel.null \/ rel.from \in dependencies'[rel.to]
  <2>1. rel.to \in Model /\ dependencies \in [Model -> SUBSET Model]
    BY SchemaAssumption DEF ForeignKey, Inductive, Shape
  <2>2. CASE rel.null
    BY <2>1, <2>2 DEF FollowCascade
  <2>3. CASE ~rel.null
    <3>1. dependencies' = [dependencies EXCEPT ![rel.to] = @ \union {rel.from}]
      BY <2>3 DEF FollowCascade, AddDependency
    <3> QED
      BY <3>1, <2>1, <1>2
  <2> QED
    BY <2>2, <2>3
<1>13. \A e \in before : e.by = rel /\ e.from \in Found(rel) => SeenTo(e)'
  BY <1>0, <1>2, <1>6, <1>12 DEF SeenTo, InOrder, Collected
<1> QED
  BY <1>1, <1>6, <1>7, <1>9, <1>10, <1>11, <1>12, <1>13, HandlerStep

\* SET_NULL puts the rows found on the list of updates.
LEMMA FollowSetNullStep ==
  ASSUME Inductive, NEW rel \in Relation, FollowSetNull(rel)
  PROVE  Inductive'
<1>1. /\ Following(rel) /\ Drain(rel) /\ pc = "collect"
      /\ field_updates' = field_updates \union {<<rel, Found(rel)>>}
      /\ UNCHANGED <<data, models, dependencies, restricted_objects, fast_deletes,
                     _pending_collects>>
  BY DEF FollowSetNull, Handled, Following
<1>2. \A e \in before : e.by = rel /\ e.from \in Found(rel) => SeenTo(e)'
  <2> SUFFICES ASSUME NEW e \in before, e.by = rel, e.from \in Found(rel)
               PROVE  SeenTo(e)'
    OBVIOUS
  <2>1. PICK u : u = <<rel, Found(rel)>>
    OBVIOUS
  <2>2. u \in field_updates' /\ e.by = u[1] /\ e.from \in u[2]
    BY <1>1, <2>1
  <2> QED
    BY <2>2 DEF SeenTo, Updated
<1>3. Collected' = Collected
  BY <1>1 DEF Collected
<1>4. /\ data \in [Model -> SUBSET Row] /\ \A m \in Model : \A r \in data[m] : ModelOf[r] = m
      /\ models \in Seq(Model) /\ _pending_collects \in Seq(Batches)
      /\ dependencies \in [Model -> SUBSET Model]
      /\ \A m \in Model : data[m] # {} => m \in ToSet(models)
  BY <1>1 DEF Inductive, Shape, Untouched, Planned
<1> QED
  BY <1>1, <1>2, <1>3, <1>4, HandlerStep

\* RESTRICT notes the rows found.
LEMMA FollowRestrictStep ==
  ASSUME Inductive, NEW rel \in Relation, FollowRestrict(rel)
  PROVE  Inductive'
<1>1. /\ Following(rel) /\ Drain(rel) /\ pc = "collect"
      /\ restricted_objects' = restricted_objects \union Found(rel)
      /\ UNCHANGED <<data, models, field_updates, fast_deletes, _pending_collects>>
  BY DEF FollowRestrict, Handled, Following
<1>2. Collected' = Collected
  BY <1>1 DEF Collected
<1>3. /\ data \in [Model -> SUBSET Row] /\ \A m \in Model : \A r \in data[m] : ModelOf[r] = m
      /\ models \in Seq(Model) /\ _pending_collects \in Seq(Batches)
      /\ dependencies \in [Model -> SUBSET Model]
      /\ \A m \in Model : data[m] # {} => m \in ToSet(models)
  BY <1>1 DEF Inductive, Shape, Untouched, Planned
<1>4. /\ dependencies' \in [Model -> SUBSET Model]
      /\ \A m \in Model : dependencies[m] \subseteq dependencies'[m]
      /\ rel.from \in dependencies'[rel.to]
  <2>1. rel.to \in Model /\ rel.from \in Model
    BY SchemaAssumption DEF ForeignKey
  <2>2. dependencies' = [dependencies EXCEPT ![rel.to] = @ \union {rel.from}]
    BY DEF FollowRestrict, AddDependency
  <2> QED
    BY <2>1, <2>2, <1>3
<1>5. \A e \in before : e.by = rel /\ e.from \in Found(rel) => Restrains(e)'
  BY <1>1, <1>4 DEF Restrains, InOrder
<1> QED
  BY <1>1, <1>2, <1>3, <1>4, <1>5, HandlerStep

\* PROTECT: whatever is forgotten, nothing will be deleted.
LEMMA FollowProtectStep ==
  ASSUME Inductive, NEW rel \in Relation, FollowProtect(rel)
  PROVE  Inductive'
<1>0. PICK c : c = Without(rel)
  OBVIOUS
<1>1. /\ Following(rel) /\ pc = "collect" /\ pc' = "collect"
      /\ UNCHANGED <<database, context, plan, _pending_collects, outcome>>
  BY DEF FollowProtect, Handled, Following
<1>2. stack \in Seq(Frames) /\ stack # <<>> /\ \A x \in ToSet(stack) : FrameOK(x)
  BY <1>1 DEF Inductive, Shape, Following
<1>3. c \in Frames /\ FrameOK(c)
  BY <1>0, <1>1, FoundRows DEF Inductive, Without, Frames, FrameOK
<1>4. stack' \in Seq(Frames) /\ \A x \in ToSet(stack') : FrameOK(x)
  <2>1. CASE Len(stack) = 1
    <3>1. stack' = [stack EXCEPT ![Len(stack)] = c]
      BY <1>0, <2>1 DEF FollowProtect, SetTop
    <3>2. /\ [stack EXCEPT ![Len(stack)] = c] \in Seq(Frames)
          /\ ToSet([stack EXCEPT ![Len(stack)] = c]) = ToSet(Front(stack)) \union {c}
      BY <1>2, <1>3, TopReplaced
    <3>3. ToSet(Front(stack)) \subseteq ToSet(stack)
      BY <1>2, TopAndRest
    <3> QED
      BY <3>1, <3>2, <3>3, <1>2, <1>3
  <2>2. CASE Len(stack) # 1
    <3>1. stack' = <<Head(stack)>>
      BY <2>2 DEF FollowProtect
    <3>2. Head(stack) \in Frames /\ Head(stack) \in ToSet(stack)
      BY <1>2, FirstTaken
    <3>3. ToSet(<<Head(stack)>>) = {Head(stack)}
      BY DEF ToSet
    <3> QED
      BY <3>1, <3>2, <3>3, <1>2
  <2> QED
    BY <2>1, <2>2
<1>5. Shape'
  BY <1>1, <1>4 DEF Inductive, Shape, context, plan, FrameOK
<1>6. protected_objects' # {}
  BY DEF FollowProtect
<1>7. Queue' /\ NothingForgotten'
  BY <1>6 DEF Queue, NothingForgotten, Walking
<1>8. \A m \in Model : data'[m] # {} => m \in ToSet(models')
  BY <1>1 DEF Inductive, Untouched, Planned, plan
<1> QED
  BY <1>1, <1>5, <1>7, <1>8, WalkGoesOn DEF context

\* A coroutine under way, and the others.
LEMMA Innermost ==
  ASSUME Shape, pc = "collect", stack # <<>>
  PROVE  /\ Top \in Frames /\ FrameOK(Top) /\ Front(stack) \in Seq(Frames)
         /\ ToSet(stack) = ToSet(Front(stack)) \union {Top}
         /\ \A c \in ToSet(stack) : FrameOK(c)
BY TopAndRest DEF Shape, Top

\* A reference that the plan sees to stays so while the plan grows.
LEMMA SeenToStays ==
  ASSUME NEW e, SeenTo(e), fast_deletes \subseteq fast_deletes',
         UNCHANGED <<before, data, dependencies, field_updates>>
  PROVE  SeenTo(e)'
<1>1. \A objs : Reached(objs)' = Reached(objs)
  BY DEF Reached
<1>2. CASE e.from \in Collected /\ InOrder(e)
  BY <1>2 DEF SeenTo, InOrder, Collected
<1>3. CASE FastDeleted(e)
  BY <1>1, <1>3 DEF SeenTo, FastDeleted
<1>4. CASE Updated(e)
  BY <1>4 DEF SeenTo, Updated
<1> QED
  BY <1>2, <1>3, <1>4 DEF SeenTo

\* What is flushed: a reference that a fast relation leads to is deleted with its row.
LEMMA Flushed ==
  ASSUME NEW c, Flush(c), UNCHANGED before, NEW e, e.by \in c.fast, e.to \in Reached(c.objs)
  PROVE  FastDeleted(e)'
<1>1. PICK q : q = <<e.by, c.objs>>
  OBVIOUS
<1>2. q \in fast_deletes' /\ e.by = q[1] /\ q[2] = c.objs
  BY <1>1 DEF Flush
<1>3. Reached(c.objs) = Reached(q[2])'
  BY <1>2 DEF Reached
<1> QED
  BY <1>2, <1>3 DEF FastDeleted

\* When a coroutine ends, what had to be followed still has, or it is flushed.
LEMMA RelatedDoneFollows ==
  ASSUME Inductive, RelatedDone, NEW e \in before, ToFollow(e)
  PROVE  ToFollow(e)' \/ FastDeleted(e)'
<1>0. PICK c : c = Top
  OBVIOUS
<1>1. /\ pc = "collect" /\ stack # <<>> /\ c.kind = "related" /\ c.rels = {}
      /\ Flush(c) /\ stack' = Front(stack) /\ UNCHANGED <<context, _pending_collects>>
  BY <1>0 DEF RelatedDone
<1>2. FrameOK(c) /\ ToSet(stack) = ToSet(stack') \union {c}
  BY <1>0, <1>1, Innermost DEF Inductive
<1>3. \A objs : Reached(objs)' = Reached(objs)
  BY <1>1 DEF Reached, context
<1>4. ToSet(c.items) = {}
  BY <1>1, <1>2, EmptyTuple DEF FrameOK, ToSet
<1>5. CASE \E d \in ToSet(stack) : e.by \in d.rels \union d.fast /\ e.to \in Reached(d.objs)
  <2>1. PICK d \in ToSet(stack) : e.by \in d.rels \union d.fast /\ e.to \in Reached(d.objs)
    BY <1>5
  <2>2. CASE d = c
    BY <2>1, <2>2, <1>1, Flushed DEF context
  <2>3. CASE d \in ToSet(stack')
    BY <2>1, <2>3, <1>3 DEF ToFollow
  <2> QED
    BY <1>2, <2>2, <2>3
<1>6. CASE \E d \in ToSet(stack) : \E objs \in ToSet(d.items) : e.to \in objs
  BY <1>6, <1>4, <1>2 DEF ToFollow
<1>7. CASE \E objs \in ToSet(_pending_collects) : e.to \in objs
  BY <1>7, <1>1 DEF ToFollow
<1> QED
  BY <1>5, <1>6, <1>7 DEF ToFollow

\* A coroutine that has followed its relations records the fast ones.
LEMMA RelatedDoneStep ==
  ASSUME Inductive, RelatedDone
  PROVE  Inductive'
<1>0. PICK c : c = Top
  OBVIOUS
<1>1. /\ pc = "collect" /\ pc' = "collect" /\ stack # <<>> /\ c.kind = "related" /\ c.rels = {}
      /\ Flush(c) /\ stack' = Front(stack)
      /\ UNCHANGED <<database, context, data, models, dependencies, field_updates,
                     restricted_objects, _pending_collects, protected_objects, outcome>>
  BY <1>0 DEF RelatedDone
<1>2. /\ c \in Frames /\ FrameOK(c) /\ stack' \in Seq(Frames)
      /\ ToSet(stack) = ToSet(stack') \union {c} /\ \A d \in ToSet(stack) : FrameOK(d)
  BY <1>0, <1>1, Innermost DEF Inductive
<1>3. c.items = <<>> /\ c.fast \subseteq FastRelations
  BY <1>1, <1>2 DEF FrameOK
<1>4. /\ fast_deletes' = fast_deletes \union {<<rel, c.objs>> : rel \in c.fast}
      /\ \A q \in fast_deletes' : q[1] \in FastRelations
  BY <1>1, <1>3 DEF Flush, Inductive, Shape
<1>5. Shape'
  BY <1>1, <1>2, <1>4 DEF Inductive, Shape, context, FrameOK
<1>6. Queue'
  BY <1>0, <1>1 DEF Inductive, Queue, Walking
<1>7. ASSUME LeftToTheCollector, Walking', NEW e \in before, (e.to \in Collected)'
      PROVE  SeenTo(e)' \/ Restrains(e)' \/ ToFollow(e)'
  <2>1. SeenTo(e) \/ Restrains(e) \/ ToFollow(e)
    BY <1>1, <1>7 DEF Inductive, NothingForgotten, Walking, Collected
  <2>2. CASE SeenTo(e)
    BY <2>2, <1>1, <1>4, SeenToStays DEF context
  <2>3. CASE Restrains(e)
    BY <2>3, <1>1 DEF Restrains, InOrder
  <2>4. CASE ToFollow(e)
    BY <2>4, RelatedDoneFollows DEF SeenTo
  <2> QED
    BY <2>1, <2>2, <2>3, <2>4
<1>8. NothingForgotten'
  BY <1>1, <1>7 DEF NothingForgotten, context
<1>9. \A m \in Model : data'[m] # {} => m \in ToSet(models')
  BY <1>1 DEF Inductive, Untouched, Planned
<1> QED
  BY <1>1, <1>5, <1>6, <1>8, <1>9, WalkGoesOn DEF context

\* A drain that ends had nothing to follow.
LEMMA DrainDoneFollows ==
  ASSUME Inductive, DrainDone, NEW e \in before, ToFollow(e)
  PROVE  ToFollow(e)'
<1>0. PICK c : c = Top
  OBVIOUS
<1>1. /\ pc = "collect" /\ stack # <<>> /\ c.kind = "drain" /\ c.items = <<>>
      /\ stack' = Front(stack) /\ UNCHANGED <<context, _pending_collects>>
  BY <1>0 DEF DrainDone, Draining
<1>2. FrameOK(c) /\ ToSet(stack) = ToSet(stack') \union {c}
  BY <1>0, <1>1, Innermost DEF Inductive
<1>3. c.rels = {} /\ c.fast = {} /\ ToSet(c.items) = {}
  BY <1>1, <1>2, EmptyTuple DEF FrameOK, ToSet
<1>4. \A objs : Reached(objs)' = Reached(objs)
  BY <1>1 DEF Reached, context
<1> QED
  BY <1>1, <1>2, <1>3, <1>4 DEF ToFollow

\* The end of a drain: it has nothing to follow, and has emptied the queue.
LEMMA DrainDoneStep ==
  ASSUME Inductive, DrainDone
  PROVE  Inductive'
<1>0. PICK c : c = Top
  OBVIOUS
<1>1. /\ pc = "collect" /\ pc' = "collect" /\ stack # <<>> /\ c.kind = "drain" /\ c.items = <<>>
      /\ _pending_collects = <<>> /\ stack' = Front(stack)
      /\ UNCHANGED <<database, context, plan, _pending_collects, protected_objects, outcome>>
  BY <1>0 DEF DrainDone, Draining
<1>2. /\ c \in Frames /\ FrameOK(c) /\ stack' \in Seq(Frames)
      /\ ToSet(stack) = ToSet(stack') \union {c} /\ \A d \in ToSet(stack) : FrameOK(d)
  BY <1>0, <1>1, Innermost DEF Inductive
<1>4. Shape'
  BY <1>1, <1>2 DEF Inductive, Shape, context, plan, FrameOK
<1>5. Queue'
  BY <1>1 DEF Queue
<1>6. ASSUME LeftToTheCollector, Walking', NEW e \in before, (e.to \in Collected)'
      PROVE  SeenTo(e)' \/ Restrains(e)' \/ ToFollow(e)'
  <2>1. SeenTo(e) \/ Restrains(e) \/ ToFollow(e)
    BY <1>1, <1>6 DEF Inductive, NothingForgotten, Walking, Collected, plan
  <2>2. CASE SeenTo(e)
    BY <2>2, <1>1, SeenToStays DEF context, plan
  <2>3. CASE Restrains(e)
    BY <2>3, <1>1 DEF Restrains, InOrder, plan
  <2>4. CASE ToFollow(e)
    BY <2>4, DrainDoneFollows
  <2> QED
    BY <2>1, <2>2, <2>3, <2>4
<1>7. NothingForgotten'
  BY <1>1, <1>6 DEF NothingForgotten, context
<1>8. \A m \in Model : data'[m] # {} => m \in ToSet(models')
  BY <1>1 DEF Inductive, Untouched, Planned, plan
<1> QED
  BY <1>1, <1>4, <1>5, <1>7, <1>8, WalkGoesOn DEF context

\* The stack when a drain takes the queue.
LEMMA PendingTaken ==
  ASSUME Inductive, TakePending
  PROVE  \E d \in Frames :
           /\ FrameOK(d) /\ d.objs = Top.objs /\ d.rels = Top.rels /\ d.fast = Top.fast
           /\ Top \in Frames /\ ToSet(Top.items) = {} /\ d.items = _pending_collects
           /\ stack' \in Seq(Frames) /\ ToSet(stack') = ToSet(Front(stack)) \union {d}
           /\ ToSet(stack) = ToSet(Front(stack)) \union {Top}
<1>0. PICK c, d : c = Top /\ d = [Top EXCEPT !.items = _pending_collects]
  OBVIOUS
<1>1. /\ pc = "collect" /\ stack # <<>> /\ c.kind = "drain" /\ c.items = <<>>
      /\ stack' = SetTop(d)
  BY <1>0 DEF TakePending, Draining
<1>2. /\ c \in Frames /\ FrameOK(c) /\ stack \in Seq(Frames)
      /\ ToSet(stack) = ToSet(Front(stack)) \union {c}
  BY <1>0, <1>1, Innermost DEF Inductive, Shape
<1>3. _pending_collects \in Seq(Batches)
  BY DEF Inductive, Shape
<1>4. /\ d \in Frames /\ FrameOK(d) /\ d.objs = c.objs
      /\ d.rels = c.rels /\ d.fast = c.fast /\ d.items = _pending_collects
  BY <1>0, <1>1, <1>2, <1>3 DEF Frames, FrameOK
<1>5. stack' \in Seq(Frames) /\ ToSet(stack') = ToSet(Front(stack)) \union {d}
  <2>1. stack' = [stack EXCEPT ![Len(stack)] = d]
    BY <1>1 DEF SetTop
  <2>2. /\ [stack EXCEPT ![Len(stack)] = d] \in Seq(Frames)
        /\ ToSet([stack EXCEPT ![Len(stack)] = d]) = ToSet(Front(stack)) \union {d}
    BY <1>1, <1>2, <1>4, TopReplaced
  <2> QED
    BY <2>1, <2>2
<1>6. ToSet(c.items) = {}
  BY <1>1, EmptyTuple DEF ToSet
<1> QED
  BY <1>0, <1>2, <1>4, <1>5, <1>6

\* What was queued is now with the drain.
LEMMA TakePendingFollows ==
  ASSUME Inductive, TakePending, NEW e \in before, ToFollow(e)
  PROVE  ToFollow(e)'
<1>1. PICK d \in Frames :
        /\ d.objs = Top.objs /\ d.rels = Top.rels /\ d.fast = Top.fast
        /\ ToSet(Top.items) = {} /\ d.items = _pending_collects
        /\ ToSet(stack') = ToSet(Front(stack)) \union {d}
        /\ ToSet(stack) = ToSet(Front(stack)) \union {Top}
  BY PendingTaken
<1>2. \A objs : Reached(objs)' = Reached(objs)
  BY DEF Reached, TakePending, context
<1>3. d \in ToSet(stack')
  BY <1>1
<1>4. CASE \E x \in ToSet(stack) : e.by \in x.rels \union x.fast /\ e.to \in Reached(x.objs)
  BY <1>1, <1>2, <1>4 DEF ToFollow
<1>5. CASE \E x \in ToSet(stack) : \E objs \in ToSet(x.items) : e.to \in objs
  BY <1>1, <1>5 DEF ToFollow
<1>6. CASE \E objs \in ToSet(_pending_collects) : e.to \in objs
  BY <1>1, <1>3, <1>6 DEF ToFollow
<1> QED
  BY <1>4, <1>5, <1>6 DEF ToFollow

\* A drain takes the whole queue.
LEMMA TakePendingStep ==
  ASSUME Inductive, TakePending
  PROVE  Inductive'
<1>1. /\ pc = "collect" /\ pc' = "collect" /\ _pending_collects' = <<>>
      /\ UNCHANGED <<database, context, plan, protected_objects, outcome>>
  BY DEF TakePending, Draining
<1>2. PICK d \in Frames :
        /\ FrameOK(d) /\ stack' \in Seq(Frames) /\ ToSet(stack') = ToSet(Front(stack)) \union {d}
        /\ ToSet(stack) = ToSet(Front(stack)) \union {Top}
  BY PendingTaken
<1>3. \A x \in ToSet(stack) : FrameOK(x)
  BY DEF Inductive, Shape
<1>6. <<>> \in Seq(Batches)
  BY EmptySeq
<1>7. Shape'
  BY <1>1, <1>2, <1>3, <1>6 DEF Inductive, Shape, context, plan, FrameOK
<1>8. Queue'
  BY <1>1 DEF Queue
<1>9. ASSUME LeftToTheCollector, Walking', NEW e \in before, (e.to \in Collected)'
      PROVE  SeenTo(e)' \/ Restrains(e)' \/ ToFollow(e)'
  <2>1. SeenTo(e) \/ Restrains(e) \/ ToFollow(e)
    BY <1>1, <1>9 DEF Inductive, NothingForgotten, Walking, Collected, plan
  <2>2. CASE SeenTo(e)
    BY <2>2, <1>1, SeenToStays DEF context, plan
  <2>3. CASE Restrains(e)
    BY <2>3, <1>1 DEF Restrains, InOrder, plan
  <2>4. CASE ToFollow(e)
    BY <2>4, TakePendingFollows
  <2> QED
    BY <2>1, <2>2, <2>3, <2>4
<1>10. NothingForgotten'
  BY <1>1, <1>9 DEF NothingForgotten, context
<1>11. \A m \in Model : data'[m] # {} => m \in ToSet(models')
  BY <1>1 DEF Inductive, Untouched, Planned, plan
<1> QED
  BY <1>1, <1>7, <1>8, <1>10, <1>11, WalkGoesOn DEF context

\* The stack when a drain hands over its first batch.
LEMMA ItemHandedOver ==
  ASSUME Inductive, FollowItem
  PROVE  \E d, f \in Frames : \E batch \in Batches :
           /\ FrameOK(d) /\ d.objs = Top.objs /\ d.rels = Top.rels /\ d.fast = Top.fast
           /\ ToSet(Top.items) = {batch} \union ToSet(d.items)
           /\ FrameOK(f) /\ f.objs = batch /\ f.rels = Candidates(OfModel(batch))
           /\ f.fast = {} /\ ToSet(f.items) = {}
           /\ stack' \in Seq(Frames) /\ ToSet(stack') = ToSet(Front(stack)) \union {d} \union {f}
           /\ ToSet(stack) = ToSet(Front(stack)) \union {Top}
<1>0. PICK c, d, f, batch : /\ c = Top /\ d = [Top EXCEPT !.items = Tail(@)]
                            /\ batch = Head(Top.items) /\ f = Coroutine("related", batch)
  OBVIOUS
<1>1. /\ pc = "collect" /\ stack # <<>> /\ c.kind = "drain" /\ c.items # <<>>
      /\ stack' = Append(SetTop(d), f)
  BY <1>0 DEF FollowItem, Draining, Await
<1>2. /\ c \in Frames /\ FrameOK(c) /\ stack \in Seq(Frames)
      /\ ToSet(stack) = ToSet(Front(stack)) \union {c}
  BY <1>0, <1>1, Innermost DEF Inductive, Shape
<1>3. c.items \in Seq(Batches)
  BY <1>2 DEF Frames
<1>4. batch \in Batches /\ Tail(c.items) \in Seq(Batches)
      /\ ToSet(c.items) = {batch} \union ToSet(Tail(c.items))
  BY <1>0, <1>1, <1>3, FirstTaken
<1>5. /\ d \in Frames /\ FrameOK(d) /\ d.objs = c.objs
      /\ d.rels = c.rels /\ d.fast = c.fast /\ d.items = Tail(c.items)
  BY <1>0, <1>1, <1>2, <1>4 DEF Frames, FrameOK
<1>6. /\ f \in Frames /\ FrameOK(f) /\ f.objs = batch /\ f.rels = Candidates(OfModel(batch))
      /\ f.items = <<>>
  BY <1>0, <1>4, CoroutineTyped
<1>7. f.fast = {} /\ ToSet(f.items) = {}
  BY <1>0, <1>6, EmptyTuple DEF Coroutine, ToSet
<1>8. SetTop(d) \in Seq(Frames) /\ ToSet(SetTop(d)) = ToSet(Front(stack)) \union {d}
  BY <1>1, <1>2, <1>5, TopReplaced DEF SetTop
<1>9. stack' \in Seq(Frames) /\ ToSet(stack') = ToSet(Front(stack)) \union {d} \union {f}
  BY <1>1, <1>6, <1>8, PutLast
<1> QED
  BY <1>0, <1>2, <1>4, <1>5, <1>6, <1>7, <1>9

\* What the batch was to lead to, its coroutine has to follow.
LEMMA FollowItemFollows ==
  ASSUME Inductive, FollowItem, NEW e \in before, ToFollow(e)
  PROVE  ToFollow(e)'
<1>1. PICK d, f \in Frames, batch \in Batches :
        /\ d.objs = Top.objs /\ d.rels = Top.rels /\ d.fast = Top.fast
        /\ ToSet(Top.items) = {batch} \union ToSet(d.items)
        /\ f.objs = batch /\ f.rels = Candidates(OfModel(batch))
        /\ ToSet(stack') = ToSet(Front(stack)) \union {d} \union {f}
        /\ ToSet(stack) = ToSet(Front(stack)) \union {Top}
  BY ItemHandedOver
<1>2. \A objs : Reached(objs)' = Reached(objs)
  BY DEF Reached, FollowItem, context
<1>3. d \in ToSet(stack') /\ f \in ToSet(stack')
  BY <1>1
<1>4. CASE \E x \in ToSet(stack) : e.by \in x.rels \union x.fast /\ e.to \in Reached(x.objs)
  BY <1>1, <1>2, <1>4 DEF ToFollow
<1>5. CASE \E x \in ToSet(stack) : \E objs \in ToSet(x.items) : e.to \in objs
  <2>1. PICK x \in ToSet(stack) : \E objs \in ToSet(x.items) : e.to \in objs
    BY <1>5
  <2>2. CASE x \in ToSet(Front(stack))
    BY <2>1, <2>2, <1>1 DEF ToFollow
  <2>3. CASE x = Top /\ e.to \notin batch
    BY <2>1, <2>3, <1>1, <1>3 DEF ToFollow
  <2>4. CASE e.to \in batch
    <3>1. e.by \in f.rels
      BY <2>4, <1>1, LeadsToCandidate DEF Inductive, Shape
    <3>2. e.to \in Reached(f.objs)'
      BY <2>4, <1>1 DEF Reached
    <3> QED
      BY <3>1, <3>2, <1>3 DEF ToFollow
  <2> QED
    BY <1>1, <2>2, <2>3, <2>4
<1>6. CASE \E objs \in ToSet(_pending_collects) : e.to \in objs
  BY <1>6 DEF ToFollow, FollowItem
<1> QED
  BY <1>4, <1>5, <1>6 DEF ToFollow

\* A drain hands its first batch to a coroutine, which follows all that leads to it.
LEMMA FollowItemStep ==
  ASSUME Inductive, FollowItem
  PROVE  Inductive'
<1>1. /\ pc = "collect" /\ pc' = "collect" /\ Top.items # <<>> /\ stack # <<>>
      /\ UNCHANGED <<database, context, plan, _pending_collects, protected_objects, outcome>>
  BY DEF FollowItem, Draining
<1>2. PICK d, f \in Frames :
        /\ FrameOK(d) /\ FrameOK(f) /\ stack' \in Seq(Frames)
        /\ ToSet(stack') = ToSet(Front(stack)) \union {d} \union {f}
        /\ ToSet(stack) = ToSet(Front(stack)) \union {Top}
  BY ItemHandedOver
<1>3. \A x \in ToSet(stack) : FrameOK(x)
  BY DEF Inductive, Shape
<1>9. Shape'
  BY <1>1, <1>2, <1>3 DEF Inductive, Shape, context, plan, FrameOK
<1>10. Queue'
  BY <1>1 DEF Inductive, Queue, Walking
<1>11. ASSUME LeftToTheCollector, Walking', NEW e \in before, (e.to \in Collected)'
       PROVE  SeenTo(e)' \/ Restrains(e)' \/ ToFollow(e)'
  <2>1. SeenTo(e) \/ Restrains(e) \/ ToFollow(e)
    BY <1>1, <1>11 DEF Inductive, NothingForgotten, Walking, Collected, plan
  <2>2. CASE SeenTo(e)
    BY <2>2, <1>1, SeenToStays DEF context, plan
  <2>3. CASE Restrains(e)
    BY <2>3, <1>1 DEF Restrains, InOrder, plan
  <2>4. CASE ToFollow(e)
    BY <2>4, FollowItemFollows
  <2> QED
    BY <2>1, <2>2, <2>3, <2>4
<1>12. NothingForgotten'
  BY <1>1, <1>11 DEF NothingForgotten, context
<1>13. \A m \in Model : data'[m] # {} => m \in ToSet(models')
  BY <1>1 DEF Inductive, Untouched, Planned, plan
<1> QED
  BY <1>1, <1>9, <1>10, <1>12, <1>13, WalkGoesOn DEF context

-----------------------------------------------------------------------------
(* The end of acollect() and adelete().                                    *)

\* The walk is over: the plan sees to every reference to a row it deletes.
LEMMA AcollectDoneStep ==
  ASSUME Inductive, AcollectDone
  PROVE  Inductive'
<1>0. PICK c : c = Top
  OBVIOUS
<1>1. /\ pc = "collect" /\ Len(stack) = 1 /\ c.kind = "acollect" /\ c.rels = {} /\ Flush(c)
      /\ protected_objects = {}
      /\ UNCHANGED <<database, context, data, models, dependencies, field_updates,
                     restricted_objects, walk>>
      /\ \/ RestrictionHolds /\ pc' = "sort" /\ outcome' = outcome
         \/ pc' = "done" /\ outcome' = "restricted"
  BY <1>0 DEF AcollectDone, AllFollowed
<1>2. stack \in Seq(Frames) /\ stack # <<>>
  <2>1. stack \in Seq(Frames) /\ Len(stack) = 1
    BY <1>1 DEF Inductive, Shape
  <2>2. ASSUME stack = <<>>
        PROVE  Len(stack) = 0
    <3>1. Len(<<>>) = 0
      BY EmptySeq
    <3> QED
      BY <2>2, <3>1, Zenon
  <2> QED
    BY <2>1, <2>2
<1>3. c \in Frames /\ FrameOK(c) /\ \A x \in ToSet(stack) : FrameOK(x)
  BY <1>0, <1>1, <1>2, Innermost DEF Inductive
<1>4. ToSet(stack) = {c}
  BY <1>0, <1>1, <1>2, LenProperties DEF ToSet, Top
<1>5. c.items = <<>> /\ c.fast \subseteq FastRelations /\ ToSet(c.items) = {}
  BY <1>1, <1>3, EmptyTuple DEF FrameOK, ToSet
<1>6. _pending_collects = <<>> /\ ToSet(_pending_collects) = {}
  BY <1>0, <1>1, <1>2, EmptyTuple DEF Inductive, Queue, Walking, ToSet
<1>7. /\ fast_deletes' = fast_deletes \union {<<rel, c.objs>> : rel \in c.fast}
      /\ \A q \in fast_deletes' : q[1] \in FastRelations
  BY <1>1, <1>5 DEF Flush, Inductive, Shape
<1>8. Shape'
  BY <1>1, <1>7 DEF Inductive, Shape, context, walk, FrameOK
<1>9. ASSUME LeftToTheCollector, RestrictionHolds, NEW e \in before, e.to \in Collected
      PROVE  SeenTo(e)'
  <2>1. SeenTo(e) \/ Restrains(e) \/ ToFollow(e)
    BY <1>1, <1>9 DEF Inductive, NothingForgotten, Walking
  <2>2. CASE SeenTo(e)
    BY <2>2, <1>1, <1>7, SeenToStays DEF context
  <2>3. CASE Restrains(e)
    BY <2>3, <1>1, <1>9 DEF Restrains, RestrictionHolds, SeenTo, InOrder, Collected
  <2>4. CASE ToFollow(e)
    <3>1. e.by \in c.fast /\ e.to \in Reached(c.objs)
      BY <2>4, <1>1, <1>4, <1>5, <1>6 DEF ToFollow
    <3> QED
      BY <3>1, <1>1, Flushed DEF context, SeenTo
  <2> QED
    BY <2>1, <2>2, <2>3, <2>4
<1>10. Complete'
  BY <1>1, <1>9 DEF Complete, Collected, context
<1>11. Untouched' /\ Queue' /\ NothingForgotten' /\ Execution'
  BY <1>1 DEF Inductive, Untouched, Planned, Queue, Walking, NothingForgotten, Execution,
              Executing, database, context
<1>12. LeftToTheCollector => NoReferenceDangles'
  BY <1>1 DEF Inductive, NoReferenceDangles
<1> QED
  BY <1>8, <1>10, <1>11, <1>12 DEF Inductive

\* sort() takes a model: the list to delete from is as it was.
LEMMA SortTakeStep ==
  ASSUME Inductive, SortTake
  PROVE  Inductive'
<1>1. /\ pc = "sort" /\ pc' = "sort"
      /\ UNCHANGED <<database, before, plan, walk, outcome>>
  BY DEF SortTake
<1>2. sorted_models' \in Seq(Model)
  <2>1. PICK i \in DOMAIN models : sorted_models' = Append(sorted_models, models[i])
    BY DEF SortTake
  <2>2. models \in Seq(Model) /\ sorted_models \in Seq(Model)
    BY DEF Inductive, Shape
  <2>3. models[i] \in Model
    BY <2>1, <2>2, LenProperties, ElementOfSeq
  <2> QED
    BY <2>1, <2>2, <2>3, AppendProperties
<1>3. Shape'
  BY <1>1, <1>2 DEF Inductive, Shape, plan, walk, FrameOK
<1>4. Untouched'
  BY <1>1 DEF Inductive, Untouched, Planned, database, plan
<1>5. Complete'
  BY <1>1 DEF Inductive, Complete, SeenTo, InOrder, FastDeleted, Updated, Collected, Reached, plan
<1>6. Queue' /\ NothingForgotten' /\ Execution'
  BY <1>1 DEF Queue, Walking, NothingForgotten, Execution, Executing
<1>7. LeftToTheCollector => NoReferenceDangles'
  BY <1>1 DEF Inductive, NoReferenceDangles
<1> QED
  BY <1>3, <1>4, <1>5, <1>6, <1>7 DEF Inductive

\* The order changes, not what is in the list.
LEMMA SortStep ==
  ASSUME Inductive, Sort
  PROVE  Inductive'
<1>1. /\ pc = "sort" /\ pc' = "fast"
      /\ UNCHANGED <<database, context, data, dependencies, field_updates, restricted_objects,
                     fast_deletes, walk, outcome>>
  BY DEF Sort, SortOver
<1>2. ToSet(models') = ToSet(models)
  BY DEF Sort
<1>3. models' \in Seq(Model)
  BY DEF Sort, Inductive, Shape
<1>4. Shape'
  BY <1>1, <1>3 DEF Inductive, Shape, context, walk, FrameOK
<1>5. Untouched'
  BY <1>1, <1>2 DEF Inductive, Untouched, Planned, database, context
<1>6. Complete'
  BY <1>1 DEF Inductive, Complete, SeenTo, InOrder, FastDeleted, Updated, Collected, Reached, context
<1>7. Queue' /\ NothingForgotten' /\ Execution'
  BY <1>1 DEF Queue, Walking, NothingForgotten, Execution, Executing
<1>8. LeftToTheCollector => NoReferenceDangles'
  BY <1>1 DEF Inductive, NoReferenceDangles
<1> QED
  BY <1>4, <1>5, <1>6, <1>7, <1>8 DEF Inductive

\* Nothing refers to a row that is deleted without a look.
LEMMA NothingRefersToFast ==
  ASSUME LeftToTheCollector, Shape, NEW e \in before, NEW f \in before,
         f.by \in FastRelations, e.to = f.from
  PROVE  FALSE
<1>1. e.by \in Relation /\ e.by.to = f.by.from
  BY References DEF Shape
<1>2. e.by \in Candidates(f.by.from)
  BY <1>1 DEF Candidates
<1>3. NothingFollows(f.by.from)
  BY DEF FastRelations, CanFastDelete
<1> QED
  BY <1>1, <1>2, <1>3 DEF NothingFollows, LeftToTheCollector

\* A reference that the fast deletes leave: its row is there, and the one it refers
\* to, and the plan sees to it otherwise.
LEMMA LeftByFastDeletes ==
  ASSUME LeftToTheCollector, Inductive, FastDeletes, NEW e \in refs'
  PROVE  /\ e \in before /\ e.from \in rows' /\ e.to \in rows'
         /\ e.to \in Collected => (e.from \in Collected /\ InOrder(e)) \/ Updated(e)
<1>0. PICK gone : gone = UNION {RelatedObjects(q[1], q[2]) : q \in fast_deletes}
  OBVIOUS
<1>1. /\ pc = "fast" /\ pc' = "update" /\ Erase(gone) /\ UNCHANGED <<context, plan, walk, outcome>>
  BY <1>0 DEF FastDeletes
<1>2. /\ refs = before /\ rows = Row /\ \A m \in Model : data[m] # {} => m \in ToSet(models)
  BY <1>1 DEF Inductive, Untouched, Planned
<1>3. rows' = Row \ gone /\ refs' = {x \in before : x.from \notin gone}
  BY <1>1, <1>2 DEF Erase
<1>4. gone = {f.from : f \in {x \in before : FastDeleted(x)}}
  <2>1. gone = UNION {{f.from : f \in {x \in before : x.by = q[1] /\ x.to \in Reached(q[2])}} :
                        q \in fast_deletes}
    BY <1>0, <1>2 DEF RelatedObjects, AsParents, Reached
  <2> QED
    BY <2>1 DEF FastDeleted
<1>5. e.to \notin gone
  <2> SUFFICES ASSUME e.to \in gone
               PROVE  FALSE
    OBVIOUS
  <2>1. PICK f \in before : FastDeleted(f) /\ e.to = f.from
    BY <1>4
  <2>2. f.by \in FastRelations
    BY <2>1 DEF FastDeleted, Inductive, Shape
  <2> QED
    BY <1>3, <2>1, <2>2, NothingRefersToFast DEF Inductive
<1>6. e \in before /\ e.from \notin gone /\ ~FastDeleted(e)
  BY <1>3, <1>4
<1>7. e.from \in Row /\ e.to \in Row
  BY <1>6, References DEF Inductive, Shape
<1>8. e.to \in Collected => SeenTo(e)
  BY <1>1, <1>6 DEF Inductive, Complete
<1> QED
  BY <1>3, <1>5, <1>6, <1>7, <1>8 DEF SeenTo

\* The fast deletes: nothing refers to what they delete.
LEMMA FastDeletesStep ==
  ASSUME Inductive, FastDeletes
  PROVE  Inductive'
<1>1. /\ pc = "fast" /\ pc' = "update" /\ UNCHANGED <<context, plan, walk, outcome>>
  BY DEF FastDeletes
<1>2. \A m \in Model : data[m] # {} => m \in ToSet(models)
  BY <1>1 DEF Inductive, Untouched, Planned
<1>3. Shape'
  BY <1>1 DEF Inductive, Shape, context, plan, walk, FrameOK
<1>4. /\ Collected' = Collected
      /\ \A e : Updated(e)' = Updated(e) /\ InOrder(e)' = InOrder(e)
  BY <1>1 DEF Collected, Updated, InOrder, plan
<1>5. Execution'
  <2> SUFFICES ASSUME LeftToTheCollector
               PROVE  Execution'
    BY DEF Execution
  <2>1. \A e \in refs' :
          /\ e \in before /\ e.from \in rows' /\ e.to \in rows'
          /\ e.to \in Collected => (e.from \in Collected /\ InOrder(e)) \/ Updated(e)
    BY LeftByFastDeletes
  <2>2. \A m \in Model : data'[m] \intersect rows' # {} => m \in ToSet(models')
    BY <1>1, <1>2 DEF plan
  <2> QED
    BY <1>1, <1>4, <2>1, <2>2 DEF Execution, context
<1>6. Untouched' /\ Complete' /\ Queue' /\ NothingForgotten'
  BY <1>1 DEF Untouched, Planned, Complete, Queue, Walking, NothingForgotten
<1>7. LeftToTheCollector => NoReferenceDangles'
  BY <1>1 DEF Inductive, NoReferenceDangles
<1> QED
  BY <1>3, <1>5, <1>6, <1>7 DEF Inductive

\* The updates: what still refers to a collected row is collected.
LEMMA FieldUpdatesStep ==
  ASSUME Inductive, FieldUpdates
  PROVE  Inductive'
<1>1. /\ pc = "update" /\ pc' = "delete" /\ UNCHANGED <<rows, context, plan, walk, outcome>>
      /\ refs' = {e \in refs : ~Updated(e)}
  BY DEF FieldUpdates, Updated
<1>2. Shape'
  BY <1>1 DEF Inductive, Shape, context, plan, walk, FrameOK
<1>3. Collected' = Collected /\ \A e : InOrder(e)' = InOrder(e)
  BY <1>1 DEF Collected, InOrder, plan
<1>4. Execution'
  <2> SUFFICES ASSUME LeftToTheCollector
               PROVE  Execution'
    BY DEF Execution
  <2>1. /\ refs \subseteq before
        /\ \A e \in refs : e.from \in rows /\ (e.to \notin rows => e.to \in Collected)
        /\ \A e \in refs : e.to \in Collected => (e.from \in Collected /\ InOrder(e)) \/ Updated(e)
        /\ \A m \in Model : data[m] \intersect rows # {} => m \in ToSet(models)
    BY <1>1 DEF Inductive, Execution, Executing
  <2> QED
    BY <1>1, <1>3, <2>1 DEF Execution, context, plan
<1>5. Untouched' /\ Complete' /\ Queue' /\ NothingForgotten'
  BY <1>1 DEF Untouched, Planned, Complete, Queue, Walking, NothingForgotten
<1>6. LeftToTheCollector => NoReferenceDangles'
  BY <1>1 DEF Inductive, NoReferenceDangles
<1> QED
  BY <1>2, <1>4, <1>5, <1>6 DEF Inductive

\* The rows of a model go: they are collected rows.
LEMMA DeleteModelStep ==
  ASSUME Inductive, DeleteModel
  PROVE  Inductive'
<1>0. PICK m : m = Head(models)
  OBVIOUS
<1>1. /\ pc = "delete" /\ pc' = "delete" /\ models # <<>> /\ models' = Tail(models)
      /\ rows' = rows \ data[m] /\ refs' = {e \in refs : e.from \notin data[m]}
      /\ UNCHANGED <<context, data, dependencies, field_updates, restricted_objects, fast_deletes,
                     walk, outcome>>
  BY <1>0 DEF DeleteModel, Erase
<1>2. models \in Seq(Model)
  BY DEF Inductive, Shape
<1>3. m \in Model /\ models' \in Seq(Model) /\ ToSet(models) = {m} \union ToSet(models')
  BY <1>0, <1>1, <1>2, FirstTaken
<1>4. Shape'
  BY <1>1, <1>3 DEF Inductive, Shape, context, walk, FrameOK
<1>5. /\ Collected' = Collected /\ data[m] \subseteq Collected
      /\ \A e : InOrder(e)' = InOrder(e)
  BY <1>1, <1>3 DEF Collected, InOrder
<1>6. Execution'
  <2> SUFFICES ASSUME LeftToTheCollector
               PROVE  Execution'
    BY DEF Execution
  <2>1. /\ refs \subseteq before
        /\ \A e \in refs : e.from \in rows /\ (e.to \notin rows => e.to \in Collected)
        /\ \A e \in refs : e.to \in Collected => e.from \in Collected /\ InOrder(e)
        /\ \A n \in Model : data[n] \intersect rows # {} => n \in ToSet(models)
    BY <1>1 DEF Inductive, Execution, Executing
  <2>2. \A n \in Model : data'[n] \intersect rows' # {} => n \in ToSet(models')
    <3> SUFFICES ASSUME NEW n \in Model, data[n] \intersect (rows \ data[m]) # {}
                 PROVE  n \in ToSet(models')
      BY <1>1
    <3>1. n # m /\ n \in ToSet(models)
      BY <2>1
    <3> QED
      BY <3>1, <1>3
  <2> QED
    BY <1>1, <1>5, <2>1, <2>2 DEF Execution, context
<1>7. Untouched' /\ Complete' /\ Queue' /\ NothingForgotten'
  BY <1>1 DEF Untouched, Planned, Complete, Queue, Walking, NothingForgotten
<1>8. LeftToTheCollector => NoReferenceDangles'
  BY <1>1 DEF Inductive, NoReferenceDangles
<1> QED
  BY <1>4, <1>6, <1>7, <1>8 DEF Inductive

\* Every collected row is gone, and with it what referred to collected rows: no
\* foreign key is violated.
LEMMA CommitStep ==
  ASSUME Inductive, Commit
  PROVE  Inductive'
<1>1. pc = "delete" /\ pc' = "done" /\ models = <<>> /\ UNCHANGED <<context, plan, walk>>
  BY DEF Commit
<1>2. ToSet(models) = {}
  BY <1>1, EmptyTuple DEF ToSet
<1>3. ASSUME LeftToTheCollector
      PROVE  NoReferenceDangles'
  <2>1. /\ \A e \in refs : e.from \in rows /\ (e.to \notin rows => e.to \in Collected)
        /\ \A e \in refs : e.to \in Collected => e.from \in Collected
        /\ \A m \in Model : data[m] \intersect rows # {} => m \in ToSet(models)
    BY <1>1, <1>3 DEF Inductive, Execution, Executing
  <2>2. Collected \intersect rows = {}
    BY <1>2, <2>1 DEF Collected
  <2>3. Dangling = {}
    BY <2>1, <2>2 DEF Dangling
  <2> QED
    BY <2>3 DEF Commit, NoReferenceDangles
<1>4. Shape'
  BY <1>1 DEF Inductive, Shape, context, plan, walk, FrameOK
<1>5. Untouched' /\ Complete' /\ Queue' /\ NothingForgotten' /\ Execution'
  BY <1>1 DEF Untouched, Planned, Complete, Queue, Walking, NothingForgotten, Execution, Executing
<1> QED
  BY <1>3, <1>4, <1>5 DEF Inductive

-----------------------------------------------------------------------------
(* The start, and the theorem.                                             *)

\* At the start there is the coroutine of acollect().
LEMMA InitWalks ==
  ASSUME Init
  PROVE  /\ before \in Databases /\ roots \in Batches
         /\ \E c \in Frames :
              /\ FrameOK(c) /\ c.objs = roots /\ c.kind = "acollect" /\ c.items = <<>> /\ c.fast = {}
              /\ c.rels = {rel \in Candidates(OfModel(roots)) :
                            ~(keep_parents /\ rel.to \in Ancestors(OfModel(roots)))}
              /\ stack = <<c>> /\ ToSet(stack) = {c} /\ Top = c
<1>1. roots \in Batches
  <2>1. PICK n \in Model : roots \in (SUBSET {r \in Row : ModelOf[r] = n}) \ {{}}
    BY DEF Init
  <2>2. roots \in SUBSET Row /\ roots # {} /\ \A a \in roots : ModelOf[a] = n
    BY <2>1
  <2>3. \A a, b \in roots : ModelOf[a] = ModelOf[b]
    BY <2>2
  <2> QED
    BY <2>2, <2>3 DEF Batches
<1>2. PICK m, d : m = OfModel(roots) /\ d = Coroutine("acollect", roots)
  OBVIOUS
<1>3. PICK c : c = [d EXCEPT !.rels = {rel \in @ : ~(keep_parents /\ rel.to \in Ancestors(m))}]
  OBVIOUS
<1>4. /\ d \in Frames /\ FrameOK(d) /\ d.objs = roots /\ d.kind = "acollect" /\ d.items = <<>>
      /\ d.rels = Candidates(m)
  BY <1>1, <1>2, CoroutineTyped
<1>5. d.fast = {}
  BY <1>2 DEF Coroutine
<1>6. /\ c \in Frames /\ FrameOK(c) /\ c.objs = roots /\ c.kind = "acollect" /\ c.items = <<>>
      /\ c.rels = {rel \in Candidates(m) : ~(keep_parents /\ rel.to \in Ancestors(m))}
      /\ c.fast = {}
  BY <1>3, <1>4, <1>5 DEF Frames, FrameOK
<1>7. stack = <<c>> /\ before \in Databases
  BY <1>2, <1>3 DEF Init
<1>8. ToSet(stack) = {c} /\ Top = c
  BY <1>6, <1>7 DEF ToSet, Top
<1> QED
  BY <1>1, <1>2, <1>6, <1>7, <1>8

\* It has collected the rows it was given and, unless they are kept, their parents.
LEMMA InitCollects ==
  ASSUME Init
  PROVE  /\ AsParents(roots) \subseteq Row
         /\ Collected = roots \union (IF keep_parents THEN {} ELSE AsParents(roots))
<1>0. PICK up : up = IF keep_parents THEN {} ELSE AsParents(roots)
  OBVIOUS
<1>1. refs = before /\ before \in Databases
  BY DEF Init
<1>2. AsParents(roots) \subseteq Row
  BY <1>1, References DEF AsParents
<1>3. data = [n \in Model |-> {r \in roots \union up : ModelOf[r] = n}]
  BY <1>0 DEF Init
<1>4. roots \subseteq Row
  BY InitWalks DEF Batches
<1>5. \A r \in roots \union up : ModelOf[r] \in Model
  BY <1>0, <1>2, <1>4, SchemaAssumption
<1>6. Collected = roots \union up
  BY <1>3, <1>5 DEF Collected
<1> QED
  BY <1>0, <1>2, <1>6

\* What leads to them is to follow, except the links from the rows to their parents.
LEMMA InitFollows ==
  ASSUME Init, LeftToTheCollector, NEW e \in before, e.to \in Collected
  PROVE  \/ ToFollow(e)
         \/ /\ e.by.parent_link /\ e.from \in roots
            /\ e.to \in (IF keep_parents THEN {} ELSE AsParents(roots))
<1>0. PICK m, up : m = OfModel(roots) /\ up = IF keep_parents THEN {} ELSE AsParents(roots)
  OBVIOUS
<1>1. /\ refs = before /\ before \in Databases /\ e.to \in roots \union up
  BY <1>0, InitCollects DEF Init
<1>2. PICK c \in Frames :
        /\ c.objs = roots /\ ToSet(stack) = {c}
        /\ c.rels = {rel \in Candidates(m) : ~(keep_parents /\ rel.to \in Ancestors(m))}
  BY <1>0, InitWalks
<1>3. m \in Model /\ \A r \in roots : r \in Row /\ ModelOf[r] = m
  BY <1>0, InitWalks, BatchModel
<1>4. e.by \in Relation /\ ModelOf[e.to] = e.by.to
  BY <1>1, References
<1>5. CASE e.to \in roots
  <2>1. e.by \in Candidates(m) /\ e.by.to = m
    BY <1>3, <1>4, <1>5 DEF Candidates
  <2>2. m \notin Ancestors(m)
    BY SchemaAssumption DEF Ancestors, Links
  <2>3. e.by \in c.rels /\ e.to \in Reached(c.objs)
    BY <2>1, <2>2, <1>2, <1>5 DEF Reached
  <2> QED
    BY <2>3, <1>2 DEF ToFollow
<1>6. CASE e.to \in up
  <2>1. ~keep_parents
    BY <1>0, <1>6
  <2>2. PICK x \in before : x.by.parent_link /\ x.from \in roots /\ e.to = x.to
    BY <1>0, <1>1, <1>6, <2>1 DEF AsParents
  <2>3. /\ x.by \in Relation /\ x.by.from = m /\ x.by.to = e.by.to
    BY <1>1, <1>3, <1>4, <2>2, References
  <2>4. e.by.to \in Ancestors(m)
    BY <2>2, <2>3 DEF Ancestors, Links
  <2>5. CASE e.by.parent_link
    <3>1. e = x
      BY <1>1, <2>2, <2>5 DEF LeftToTheCollector
    <3> QED
      BY <1>0, <1>6, <2>2, <3>1
  <2>6. CASE ~e.by.parent_link
    <3>1. e.by \in c.rels
      BY <1>2, <1>4, <2>1, <2>4, <2>6 DEF Candidates
    <3>2. e.to \in Reached(c.objs)
      BY <1>2, <2>2 DEF Reached
    <3> QED
      BY <3>1, <3>2, <1>2 DEF ToFollow
  <2> QED
    BY <2>5, <2>6
<1> QED
  BY <1>1, <1>5, <1>6

\* acollect() is given rows of one model: they are collected, with their parents,
\* and what leads to them is still to follow.
LEMMA InitInductive ==
  ASSUME Init
  PROVE  Inductive
<1>0. PICK m, up : m = OfModel(roots) /\ up = IF keep_parents THEN {} ELSE AsParents(roots)
  OBVIOUS
<1>1. /\ rows = Row /\ refs \in Databases /\ before = refs /\ keep_parents \in BOOLEAN
      /\ data = [n \in Model |-> {r \in roots \union up : ModelOf[r] = n}]
      /\ models = <<m>> \o SetToSeq({ModelOf[r] : r \in up})
      /\ field_updates = {} /\ restricted_objects = {} /\ fast_deletes = {}
      /\ _pending_collects = <<>> /\ protected_objects = {} /\ sorted_models = <<>>
      /\ dependencies = [n \in Model |-> IF \E r \in up : ModelOf[r] = n THEN {m} ELSE {}]
      /\ pc = "collect" /\ outcome = "none"
  BY <1>0 DEF Init
<1>2. roots \in Batches
  BY InitWalks
<1>3. m \in Model /\ \A r \in roots : r \in Row /\ ModelOf[r] = m
  BY <1>0, <1>2, BatchModel
<1>4. up \subseteq Row
  BY <1>0, InitCollects
<1>5. PICK c \in Frames : FrameOK(c) /\ stack = <<c>> /\ ToSet(stack) = {c} /\ Top = c
  BY InitWalks
<1>6. stack \in Seq(Frames)
  BY <1>5
<1>7. models \in Seq(Model) /\ ToSet(models) = {m} \union {ModelOf[r] : r \in up}
  <2> DEFINE S == {ModelOf[r] : r \in up}
             q == SetToSeq(S)
  <2>1. S \subseteq Model
    BY <1>4, SchemaAssumption
  <2>2. IsFiniteSet(up)
    BY <1>4, SchemaAssumption, FS_Subset
  <2>3. [r \in up |-> ModelOf[r]] \in Surjection(up, S)
    BY DEF Surjection
  <2>4. IsFiniteSet(S)
    BY <2>2, <2>3, FS_Surjection
  <2> HIDE DEF S
  <2>5. q \in Seq(S) /\ ToSet(q) = S
    BY <2>4, SetAsSequence
  <2> HIDE DEF q
  <2>6. q \in Seq(Model) /\ <<m>> \in Seq(Model)
    BY <1>3, <2>1, <2>5, SeqMonotonic
  <2>7. models = <<m>> \o q
    BY <1>1 DEF S, q
  <2>8. /\ models \in Seq(Model) /\ Len(models) = 1 + Len(q)
        /\ models[1] = m /\ \A i \in 1 .. Len(q) : models[1 + i] = q[i]
    BY <2>6, <2>7, ConcatProperties
  <2>9. /\ Len(q) \in Nat /\ DOMAIN q = 1 .. Len(q) /\ DOMAIN models = 1 .. 1 + Len(q)
    BY <2>6, <2>8, LenProperties
  <2>10. ASSUME NEW x \in ToSet(models)
         PROVE  x \in {m} \union ToSet(q)
    <3>1. PICK i \in 1 .. 1 + Len(q) : x = models[i]
      BY <2>9 DEF ToSet
    <3>2. CASE i = 1
      BY <3>1, <3>2, <2>8
    <3>3. CASE i # 1
      <4>1. i - 1 \in 1 .. Len(q) /\ 1 + (i - 1) = i
        BY <2>9, <3>1, <3>3
      <4>2. x = q[i - 1]
        BY <3>1, <4>1, <2>8
      <4> QED
        BY <4>1, <4>2, <2>9 DEF ToSet
    <3> QED
      BY <3>2, <3>3
  <2>11. ASSUME NEW x \in {m} \union ToSet(q)
         PROVE  x \in ToSet(models)
    <3>1. CASE x = m
      <4>1. 1 \in DOMAIN models
        BY <2>9
      <4> QED
        BY <3>1, <4>1, <2>8 DEF ToSet
    <3>2. CASE x \in ToSet(q)
      <4>1. PICK i \in 1 .. Len(q) : x = q[i]
        BY <3>2, <2>9 DEF ToSet
      <4>2. x = models[1 + i] /\ 1 + i \in 1 .. 1 + Len(q)
        BY <4>1, <2>8, <2>9
      <4> QED
        BY <4>2, <2>9 DEF ToSet
    <3> QED
      BY <3>1, <3>2
  <2> QED
    BY <2>5, <2>8, <2>10, <2>11 DEF S
<1>8. Shape
  <2>1. data \in [Model -> SUBSET Row] /\ \A n \in Model : \A r \in data[n] : ModelOf[r] = n
    BY <1>1, <1>3, <1>4
  <2>2. _pending_collects \in Seq(Batches) /\ sorted_models \in Seq(Model)
    BY <1>1, EmptySeq
  <2>3. dependencies \in [Model -> SUBSET Model]
    BY <1>1, <1>3
  <2> QED
    BY <1>1, <1>5, <1>6, <1>7, <2>1, <2>2, <2>3 DEF Shape
<1>9. Untouched
  <2>1. \A n \in Model : data[n] # {} => n \in ToSet(models)
    BY <1>1, <1>3, <1>7
  <2> QED
    BY <1>1, <2>1 DEF Untouched
<1>10. ASSUME LeftToTheCollector, NEW e \in before, e.to \in Collected
       PROVE  SeenTo(e) \/ ToFollow(e)
  <2>1. CASE e.from \in roots /\ e.to \in up
    <3>1. e.from \in Collected
      BY <2>1, InitCollects
    <3>2. e.by.from = m /\ e.by.from \in dependencies[e.by.to]
      BY <1>1, <1>3, <2>1, References
    <3> QED
      BY <3>1, <3>2 DEF SeenTo, InOrder
  <2> QED
    BY <1>0, <1>10, <2>1, InitFollows
<1>11. NothingForgotten
  BY <1>10 DEF NothingForgotten
<1>12. Queue /\ Complete /\ Execution /\ NoReferenceDangles
  BY <1>1 DEF Queue, Complete, Execution, Executing, NoReferenceDangles
<1> QED
  BY <1>8, <1>9, <1>11, <1>12 DEF Inductive

\* What the proof knows of the collector holds in every state: one case per action.
LEMMA InductiveInvariant == Spec => []Inductive
<1>1. Init => Inductive
  BY InitInductive
<1>2. Inductive /\ [Next]_vars => Inductive'
  <2> SUFFICES ASSUME Inductive, [Next]_vars
               PROVE  Inductive'
    OBVIOUS
  <2>1. ASSUME NEW rel \in Relation, FollowNothing(rel)
        PROVE  Inductive'
    BY <2>1, FollowNothingStep
  <2>2. ASSUME NEW rel \in Relation, FollowFast(rel)
        PROVE  Inductive'
    BY <2>2, FollowFastStep
  <2>3. ASSUME NEW rel \in Relation, FollowCascade(rel)
        PROVE  Inductive'
    BY <2>3, FollowCascadeStep
  <2>4. ASSUME NEW rel \in Relation, FollowSetNull(rel)
        PROVE  Inductive'
    BY <2>4, FollowSetNullStep
  <2>5. ASSUME NEW rel \in Relation, FollowRestrict(rel)
        PROVE  Inductive'
    BY <2>5, FollowRestrictStep
  <2>6. ASSUME NEW rel \in Relation, FollowProtect(rel)
        PROVE  Inductive'
    BY <2>6, FollowProtectStep
  <2>7. CASE RelatedDone
    BY <2>7, RelatedDoneStep
  <2>8. CASE TakePending
    BY <2>8, TakePendingStep
  <2>9. CASE FollowItem
    BY <2>9, FollowItemStep
  <2>10. CASE DrainDone
    BY <2>10, DrainDoneStep
  <2>11. CASE GiveUp
    BY <2>11, WalkEnds DEF GiveUp
  <2>12. CASE RaiseProtected
    BY <2>12, WalkEnds DEF RaiseProtected, AllFollowed
  <2>13. CASE AcollectDone
    BY <2>13, AcollectDoneStep
  <2>14. CASE SortTake \/ Sort
    BY <2>14, SortTakeStep, SortStep
  <2>15. CASE FastDeletes
    BY <2>15, FastDeletesStep
  <2>16. CASE FieldUpdates
    BY <2>16, FieldUpdatesStep
  <2>17. CASE DeleteModel
    BY <2>17, DeleteModelStep
  <2>18. CASE Commit
    BY <2>18, CommitStep
  <2>19. CASE UNCHANGED vars
    <3>1. UNCHANGED <<rows, refs, before, data, models, dependencies, sorted_models,
                      field_updates, restricted_objects, fast_deletes, _pending_collects, protected_objects, stack, pc, outcome>>
      BY <2>19 DEF vars, database, context, plan, walk
    <3>2. Shape'
      BY <3>1 DEF Inductive, Shape, FrameOK
    <3>3. Untouched' /\ Queue'
      BY <3>1 DEF Inductive, Untouched, Planned, Queue, Walking, Top
    <3>4. /\ Collected' = Collected
          /\ \A e : SeenTo(e)' = SeenTo(e) /\ Updated(e)' = Updated(e) /\ InOrder(e)' = InOrder(e)
          /\ \A e : Restrains(e)' = Restrains(e)
      BY <3>1 DEF SeenTo, FastDeleted, Updated, Restrains, InOrder, Collected, Reached
    <3>5. \A e : ToFollow(e)' = ToFollow(e)
      BY <3>1 DEF ToFollow, Reached
    <3>6. NothingForgotten' /\ Complete'
      BY <3>1, <3>4, <3>5 DEF Inductive, NothingForgotten, Complete, Walking
    <3>7. Execution' /\ (LeftToTheCollector => NoReferenceDangles')
      BY <3>1, <3>4 DEF Inductive, Execution, Executing, NoReferenceDangles
    <3> QED
      BY <3>2, <3>3, <3>6, <3>7 DEF Inductive
  <2> QED
    BY <2>1, <2>2, <2>3, <2>4, <2>5, <2>6, <2>7, <2>8, <2>9, <2>10, <2>11, <2>12, <2>13,
       <2>14, <2>15, <2>16, <2>17, <2>18, <2>19 DEF Next, Over
<1> QED
  BY <1>1, <1>2, PTL DEF Spec

\* For every schema whose foreign keys are all the collector's to look after, and
\* every database of it in which a parent row is that of one child: the plan
\* deletes or updates whatever refers to a row it deletes, so the COMMIT is never
\* refused for a foreign key without its row.
THEOREM PlansLeaveNoReference ==
  ASSUME LeftToTheCollector
  PROVE  Spec => []NoReferenceDangles
<1>1. Inductive => NoReferenceDangles
  BY DEF Inductive
<1> QED
  BY <1>1, InductiveInvariant, PTL

=============================================================================
