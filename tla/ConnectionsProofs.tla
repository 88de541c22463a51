-------------------------- MODULE ConnectionsProofs --------------------------
(***************************************************************************)
(* Theorems about Connections, for any tasks, pool and settings: a wrapper *)
(* belongs to one task at a time, so that a statement runs on the          *)
(* connection its task was given, on one that works, and every connection  *)
(* comes back.                                                             *)
(***************************************************************************)
EXTENDS Connections, SequenceTheorems, TLAPS

Parent(t) == scenario.parents[t]
Live(t) == pc[t] \notin {"unborn", "closing", "done"}
Active(t) == Live(t) /\ pc[t] # "gathering"

\* Where a task is, as far as its wrapper is concerned.
Phase(t) == IF pc[t] \in {"unborn", "gathering", "closing", "done"} THEN pc[t] ELSE "active"

\* The wrapper a task uses, or waits to be closed.
Held(t) == IF pc[t] = "closing" THEN Awaited(t) ELSE IF Live(t) THEN context[t] ELSE None

Wrappers(t) == {Own(t), Independent(t)}

\* A task holds a wrapper that another one, which it awaits, also holds.
Lends(t, u, w) ==
  /\ pc[t] = "gathering"
  /\ \E v \in Children(t) : v <= u /\ Sharing(Kind(v)) /\ Held(v) = w

\* What each kind of task has in its context.
ByKind(t) ==
  /\ pc[t] = "unborn" => Kind(t) # "request" /\ context[t] = None /\ kept[t] = None
  /\ pc[t] = "closing" => Awaited(t) # None
  /\ Kind(t) = "request" => context[t] \in {None, Own(t)} /\ kept[t] = None
  /\ Kind(t) = "plain" => kept[t] = None
  /\ Kind(t) = "independent" /\ Live(t) => context[t] = Independent(t)
  /\ Kind(t) = "temporary" => kept[t] \in {None, context[t]} /\ (Live(t) => context[t] # None)

\* A task works while its parent awaits it.
ParentsWait ==
  \A t \in Task : pc[t] \notin {"unborn", "done"} /\ Parent(t) # 0 => pc[Parent(t)] = "gathering"

\* Two tasks hold the same wrapper only if the older awaits the other.
HeldInTurn ==
  \A t, u \in Task : t < u /\ Held(t) = Held(u) /\ Held(t) # None => Lends(t, u, Held(t))

\* Whoever holds a wrapper has it from the task that created it, which holds it
\* too, and is not younger.
HeldByCreator == \A t, u \in Task : Held(t) \in Wrappers(u) => Held(u) = Held(t)
NeverOlder == \A t, u \in Task : {context[t], kept[t]} \intersect Wrappers(u) # {} => u <= t

\* Whose the wrappers are.
Ownership ==
  (\A t \in Task : ByKind(t)) /\ ParentsWait /\ HeldInTurn /\ HeldByCreator /\ NeverOlder

\* A wrapper is closed for a task that awaits it, or that was cancelled behind
\* the shield of the middleware.
Closers ==
  \A w \in Wrapper : closing[w] # "no" =>
    \/ \E t \in Task : pc[t] = "closing" /\ Awaited(t) = w
    \/ \E t \in Task : Kind(t) = "request" /\ pc[t] = "done" /\ Own(t) = w

\* What the wrapper of a task holds at each point of acursor().
AtPoint(t) ==
  LET w == wrapper[context[t]] IN
  /\ Active(t) /\ pc[t] # "body" => context[t] # None
  /\ pc[t] = "statement" => cursor[t] # None /\ w.connection = cursor[t]
  /\ pc[t] = "granted" => cursor[t] # None /\ raw[cursor[t]].out = context[t]
  /\ pc[t] \in {"connecting", "waiting", "granted"} => w.connection = None
  /\ pc[t] = "recycling" => w.connection # None /\ epoch[context[t]] < scenario.recycles

Holding ==
  /\ \A w \in Wrapper : wrapper[w].connection # None => raw[wrapper[w].connection].out = w
  /\ \A w \in Wrapper : closing[w] = "rollback" => scenario.pooled /\ wrapper[w].connection # None
  /\ \A t \in Task : AtPoint(t)

\* Only a pool lets tasks wait, and only a connection of one's own is checked.
PoolPoint(t) ==
  /\ pc[t] \in {"waiting", "granted"} => scenario.pooled
  /\ pc[t] \in {"checking", "configuring", "recycling"} => ~scenario.pooled

\* A connection that was lost before it was checked, or that a statement failed
\* on, is known to its wrapper by the time it is next recycled.
Steady(w) ==
  LET f == wrapper[w]
      c == raw[f.connection]
  IN f.connection # None =>
       /\ c.failed # 0 => ~c.alive /\ f.errors_occurred /\ c.failed = epoch[w] + 1
       /\ scenario.checks /\ f.health_check_done /\ ~c.alive => c.lost = epoch[w]
Checked(t) ==
  pc[t] \in {"connecting", "configuring", "statement"} => wrapper[context[t]].health_check_done

Reliable ==
  /\ \A t \in Task : PoolPoint(t)
  /\ scenario.pooled =>
       /\ \A w \in Wrapper : epoch[w] = 0
       /\ \A c \in Raw : raw[c].lost = 0 /\ raw[c].failed \in {0, 1}
  /\ ~scenario.pooled =>
       /\ \A w \in Wrapper : Steady(w)
       /\ scenario.checks => \A t \in Task : Checked(t)

\* A wrapper whose closing was cut short, and one that still holds its connection
\* then: an independent one, which nobody closes any more.
Abandoned(w) ==
  \E t \in Task :
    Kind(t) # "request" /\ pc[t] = "done" /\ outcome[t] = "abandoned" /\ Awaited(t) = w
LeftOpen(w) ==
  \E t \in Task :
    Kind(t) = "independent" /\ pc[t] = "done" /\ outcome[t] = "abandoned" /\ w = Independent(t)

\* A wrapper is in use as long as the task that created it uses it, and a
\* connection is on its way while the task it was put aside for is to resume.
InUse(w) == \E t \in Task : w \in Wrappers(t) /\ Live(t) /\ context[t] = w
OnItsWay(c) == \E t \in Task : pc[t] = "granted" /\ cursor[t] = c

\* A task that uses a wrapper of its own will have it closed.
Lent(t) ==
  /\ Kind(t) = "plain" /\ Live(t) => context[t] \notin {None} \union Wrappers(t)
  /\ Kind(t) = "temporary" /\ Live(t) /\ context[t] \in Wrappers(t) => kept[t] = context[t]

\* Every connection that is out is held by a wrapper, or on its way to one; and
\* every wrapper that holds one is in use, or closed.
Accounted ==
  /\ scenario.pooled => \A c \in Raw : raw[c].out # None =>
       wrapper[raw[c].out].connection = c \/ OnItsWay(c) \/ Abandoned(raw[c].out)
  /\ \A w \in Wrapper : wrapper[w].connection # None =>
       InUse(w) \/ closing[w] # "no" \/ LeftOpen(w)
  /\ \A t \in Task :
       pc[t] = "closing" /\ closing[Awaited(t)] = "no" => wrapper[Awaited(t)].connection = None
  /\ \A t \in Task : Lent(t)
  /\ \A t \in Task : pc[t] = "unborn" => wrapper[Own(t)].connection = None

-----------------------------------------------------------------------------
(* The tasks and their wrappers.                                           *)

\* A parent is an older task, and only a request has none.
LEMMA TaskFacts ==
  ASSUME scenario \in Scenarios
  PROVE  /\ Tasks \in Nat
         /\ \A t \in Task :
              /\ t \in Nat /\ t # None
              /\ Kind(t) \in {"request", "plain", "independent", "temporary"}
              /\ Parent(t) \in Nat /\ Parent(t) < t
              /\ Parent(t) = 0 <=> Kind(t) = "request"
              /\ Parent(t) # 0 => Parent(t) \in Task
<1>1. scenario.parents \in Seq(Nat)
  BY ScenarioAssumption
<1>2. Tasks \in Nat /\ DOMAIN scenario.parents = 1 .. Tasks
  BY <1>1, LenProperties DEF Tasks
<1> QED
  BY <1>1, <1>2, ScenarioAssumption, ElementOfSeq DEF Tasks, Task, Kind, Parent, None

\* Every wrapper is one of the two of one task.
LEMMA WrapperFacts ==
  ASSUME scenario \in Scenarios
  PROVE  /\ None \notin Wrapper /\ None \notin Raw
         /\ \A t \in Task : Wrappers(t) \subseteq Wrapper /\ Own(t) # Independent(t)
         /\ \A w \in Wrapper : \E t \in Task : w \in Wrappers(t)
         /\ \A t, u \in Task : Wrappers(t) \intersect Wrappers(u) # {} => t = u
<1>1. Tasks \in Nat
  BY TaskFacts
<1>2. None \notin Wrapper /\ None \notin Raw
  BY DEF None, Wrapper, Raw
<1>3. \A t \in Task : Wrappers(t) \subseteq Wrapper /\ Own(t) # Independent(t)
  BY <1>1 DEF Wrappers, Wrapper, Own, Independent, Task
<1>4. ASSUME NEW w \in Wrapper
      PROVE  \E t \in Task : w \in Wrappers(t)
  <2>1. CASE w <= Tasks
    BY <1>1, <2>1 DEF Wrappers, Wrapper, Own, Task
  <2>2. CASE w > Tasks
    <3>1. w - Tasks \in Task /\ w = Tasks + (w - Tasks)
      BY <1>1, <2>2 DEF Wrapper, Task
    <3> QED
      BY <3>1 DEF Wrappers, Independent
  <2> QED
    BY <1>1, <2>1, <2>2 DEF Wrapper
<1>5. \A t, u \in Task : Wrappers(t) \intersect Wrappers(u) # {} => t = u
  BY <1>1 DEF Wrappers, Own, Independent, Task
<1> QED
  BY <1>2, <1>3, <1>4, <1>5

\* What depends on the scenario alone does not change.
LEMMA SameProgram ==
  ASSUME UNCHANGED scenario
  PROVE  /\ Task' = Task /\ Wrapper' = Wrapper /\ Raw' = Raw /\ Tasks' = Tasks
         /\ \A t : /\ Kind(t)' = Kind(t) /\ Parent(t)' = Parent(t) /\ Children(t)' = Children(t)
                   /\ Own(t)' = Own(t) /\ Independent(t)' = Independent(t)
                   /\ Wrappers(t)' = Wrappers(t)
BY DEF Task, Wrapper, Raw, Tasks, Kind, Parent, Children, Own, Independent, Wrappers

\* What Held and ByKind say of a task rests on its phase and its context.
LEMMA SameTask ==
  ASSUME UNCHANGED scenario, NEW t \in Task,
         Phase(t)' = Phase(t), context'[t] = context[t], kept'[t] = kept[t]
  PROVE  /\ Held(t)' = Held(t)
         /\ Live(t)' <=> Live(t)
         /\ Active(t)' <=> Active(t)
         /\ \A p \in {"unborn", "gathering", "closing", "done"} : pc'[t] = p <=> pc[t] = p
         /\ ByKind(t)' <=> ByKind(t)
<1>1. \A p \in {"unborn", "gathering", "closing", "done"} : pc'[t] = p <=> pc[t] = p
  BY DEF Phase
<1>2. (Live(t)' <=> Live(t)) /\ (Active(t)' <=> Active(t))
  BY <1>1 DEF Live, Active
<1>3. Awaited(t)' = Awaited(t)
  <2>1. Kind(t)' = Kind(t) /\ Independent(t)' = Independent(t)
    BY SameProgram
  <2>2. ClosedOnExit(t)' = ClosedOnExit(t)
    BY <2>1 DEF ClosedOnExit
  <2> QED
    BY <2>1, <2>2 DEF Awaited
<1>4. Held(t)' = Held(t)
  BY <1>1, <1>2, <1>3 DEF Held
<1>5. ByKind(t)' <=> ByKind(t)
  BY <1>1, <1>2, <1>3, SameProgram DEF ByKind
<1> QED
  BY <1>1, <1>2, <1>4, <1>5

\* Who is not working holds nothing, and what is held is in the context.
LEMMA HeldFacts ==
  ASSUME TypeOK, NEW t \in Task, ByKind(t)
  PROVE  /\ pc[t] \in {"unborn", "done"} => Held(t) = None
         /\ Live(t) => Held(t) = context[t]
         /\ pc[t] = "closing" => Held(t) = Awaited(t) /\ Held(t) # None
         /\ Held(t) # None => Held(t) \in {context[t], kept[t], Independent(t)}
         /\ Held(t) \in Wrapper \union {None}
<1>1. Kind(t) \in {"request", "plain", "independent", "temporary"} /\ Wrappers(t) \subseteq Wrapper
  BY TaskFacts, WrapperFacts DEF TypeOK
<1>2. pc[t] = "closing" => Held(t) = Awaited(t) /\ Held(t) # None
  BY DEF ByKind, Held
<1>3. Awaited(t) \in {context[t], kept[t], Independent(t), None}
  BY <1>1 DEF Awaited, ClosedOnExit
<1>4. pc[t] \in {"unborn", "done"} => Held(t) = None
  BY DEF Held, Live
<1>5. Live(t) => Held(t) = context[t]
  BY DEF Held, Live
<1>6. Held(t) # None => Held(t) \in {context[t], kept[t], Independent(t)}
  BY <1>2, <1>3, <1>4, <1>5 DEF Held, Live
<1>7. {context[t], kept[t], Independent(t)} \subseteq Wrapper \union {None}
  BY <1>1 DEF TypeOK, Wrappers
<1> QED
  BY <1>2, <1>4, <1>5, <1>6, <1>7

\* A task that awaits nobody who works holds its wrapper alone among those that
\* are younger than it.
LEMMA Alone ==
  ASSUME TypeOK, Ownership, NEW t \in Task, NEW u \in Task, t < u,
         pc[t] = "gathering" => \A v \in Children(t) : pc[v] = "done",
         Held(t) = Held(u)
  PROVE  Held(t) = None
<1>1. SUFFICES ASSUME Held(t) # None PROVE FALSE
  OBVIOUS
<1>2. Lends(t, u, Held(t))
  BY <1>1 DEF Ownership, HeldInTurn
<1>3. PICK v \in Children(t) : Held(v) = Held(t) /\ pc[v] = "done"
  BY <1>2 DEF Lends
<1>4. v \in Task /\ ByKind(v)
  BY DEF Children, Ownership
<1> QED
  BY <1>1, <1>3, <1>4, HeldFacts

\* Whoever holds a wrapper is not older than the task that created it.
LEMMA HeldByElders ==
  ASSUME TypeOK, Ownership, NEW t \in Task, NEW u \in Task, Held(t) \in Wrappers(u)
  PROVE  u <= t
<1>1. Held(t) # None
  BY WrapperFacts DEF TypeOK
<1>2. Held(t) \in {context[t], kept[t], Independent(t)}
  BY <1>1, HeldFacts DEF Ownership
<1>3. CASE Held(t) = Independent(t)
  <2>1. scenario \in Scenarios
    BY DEF TypeOK
  <2>2. Independent(t) \in Wrappers(t) \intersect Wrappers(u)
    BY <1>3 DEF Wrappers
  <2>3. t = u
    BY <2>1, <2>2, WrapperFacts
  <2>4. t \in Nat
    BY <2>1, TaskFacts
  <2> QED
    BY <2>3, <2>4
<1>4. CASE Held(t) \in {context[t], kept[t]}
  <2>1. {context[t], kept[t]} \intersect Wrappers(u) # {}
    BY <1>4
  <2> QED
    BY <2>1 DEF Ownership, NeverOlder
<1> QED
  BY <1>2, <1>3, <1>4

\* A step that leaves every task in its phase.
LEMMA OwnershipCalm ==
  ASSUME TypeOK, Ownership, UNCHANGED scenario,
         \A x \in Task :
           Phase(x)' = Phase(x) /\ context'[x] = context[x] /\ kept'[x] = kept[x]
  PROVE  Ownership'
<1>1. \A x \in Task :
        /\ Held(x)' = Held(x) /\ (ByKind(x)' <=> ByKind(x))
        /\ \A p \in {"unborn", "gathering", "closing", "done"} : pc'[x] = p <=> pc[x] = p
  BY SameTask
<1>2. /\ Task' = Task
      /\ \A x : /\ Kind(x)' = Kind(x) /\ Parent(x)' = Parent(x)
               /\ Children(x)' = Children(x) /\ Wrappers(x)' = Wrappers(x)
  BY SameProgram
<1>3. \A x \in Task : ByKind(x)'
  BY <1>1 DEF Ownership
<1>4. ParentsWait'
  <2>1. \A x \in Task : Parent(x) # 0 => Parent(x) \in Task
    BY TaskFacts DEF TypeOK
  <2> QED
    BY <1>1, <1>2, <2>1 DEF Ownership, ParentsWait
<1>5. HeldInTurn'
  <2>1. ASSUME NEW x \in Task, NEW u \in Task, NEW w, Lends(x, u, w)
        PROVE  Lends(x, u, w)'
    <3>1. PICK v \in Children(x) : v <= u /\ Sharing(Kind(v)) /\ Held(v) = w
      BY <2>1 DEF Lends
    <3>2. v \in Task
      BY DEF Children
    <3>3. Held(v)' = w /\ pc'[x] = "gathering"
      BY <1>1, <2>1, <3>1, <3>2 DEF Lends
    <3>4. v \in Children(x)' /\ Kind(v)' = Kind(v)
      BY <1>2
    <3> QED
      BY <3>1, <3>3, <3>4 DEF Lends
  <2> QED
    BY <1>1, <1>2, <2>1 DEF Ownership, HeldInTurn
<1>6. HeldByCreator'
  BY <1>1, <1>2 DEF Ownership, HeldByCreator
<1>7. NeverOlder'
  BY <1>2 DEF Ownership, NeverOlder
<1> QED
  BY <1>2, <1>3, <1>4, <1>5, <1>6, <1>7 DEF Ownership

\* A task that awaits nobody who works goes on, or lets its wrapper go.
LEMMA OwnershipRelease ==
  ASSUME TypeOK, Ownership, UNCHANGED scenario, NEW t \in Task,
         \A x \in Task \ {t} :
           Phase(x)' = Phase(x) /\ context'[x] = context[x] /\ kept'[x] = kept[x],
         pc[t] \notin {"unborn", "done"}, pc'[t] \notin {"unborn", "gathering"},
         pc[t] = "gathering" => \A v \in Children(t) : pc[v] = "done",
         Held(t)' \in {None, Held(t)}, ByKind(t)',
         context'[t] \in {context[t], kept[t]}, kept'[t] = kept[t]
  PROVE  Ownership'
<1>1. \A x \in Task \ {t} :
        /\ Held(x)' = Held(x) /\ (ByKind(x)' <=> ByKind(x))
        /\ \A p \in {"unborn", "gathering", "closing", "done"} : pc'[x] = p <=> pc[x] = p
  BY SameTask
<1>2. /\ Task' = Task
      /\ \A x : /\ Kind(x)' = Kind(x) /\ Parent(x)' = Parent(x)
               /\ Children(x)' = Children(x) /\ Wrappers(x)' = Wrappers(x)
  BY SameProgram
<1>3. scenario \in Scenarios
  BY DEF TypeOK
<1>4. \A x \in Task : x \in Nat
  BY <1>3, TaskFacts
<1>5. \A x \in Task : ByKind(x)'
  BY <1>1 DEF Ownership
<1>6. ParentsWait'
  <2>1. SUFFICES ASSUME NEW x \in Task, pc'[x] \notin {"unborn", "done"}, Parent(x) # 0
                 PROVE  pc'[Parent(x)] = "gathering"
    BY <1>2 DEF ParentsWait
  <2>2. pc[x] \notin {"unborn", "done"}
    BY <1>1, <2>1
  <2>3. pc[Parent(x)] = "gathering"
    BY <2>1, <2>2 DEF Ownership, ParentsWait
  <2>4. x \in Children(Parent(x)) /\ Parent(x) \in Task
    BY <1>3, <2>1, TaskFacts DEF Children, Parent
  <2>5. Parent(x) # t
    BY <2>2, <2>3, <2>4
  <2> QED
    BY <1>1, <2>3, <2>4, <2>5
<1>7. HeldInTurn'
  <2>1. SUFFICES ASSUME NEW x \in Task, NEW u \in Task, x < u,
                        Held(x)' = Held(u)', Held(x)' # None
                 PROVE  Lends(x, u, Held(x))'
    BY <1>2 DEF HeldInTurn
  <2>2. None' = None
    BY DEF None
  <2>3. Held(x) = Held(x)' /\ Held(u) = Held(u)'
    BY <1>1, <2>1, <2>2
  <2>4. x # t
    BY <2>1, <2>2, <2>3, Alone
  <2>5. Lends(x, u, Held(x))
    BY <2>1, <2>2, <2>3 DEF Ownership, HeldInTurn
  <2>6. PICK v \in Children(x) : v <= u /\ Sharing(Kind(v)) /\ Held(v) = Held(x)
    BY <2>5 DEF Lends
  <2>7. v \in Task
    BY DEF Children
  <2>8. Held(v)' = Held(x)
    <3>1. CASE v = t /\ t # u
      <4>1. t < u
        BY <1>4, <2>6, <3>1
      <4> QED
        BY <2>1, <2>2, <2>3, <2>6, <3>1, <4>1, Alone
    <3> QED
      BY <1>1, <2>3, <2>6, <2>7, <3>1
  <2>9. pc'[x] = "gathering"
    BY <1>1, <2>4, <2>5 DEF Lends
  <2> QED
    BY <1>2, <2>3, <2>6, <2>8, <2>9 DEF Lends
<1>8. HeldByCreator'
  <2>1. SUFFICES ASSUME NEW x \in Task, NEW u \in Task, Held(x)' \in Wrappers(u)
                 PROVE  Held(u)' = Held(x)'
    BY <1>2 DEF HeldByCreator
  <2>2. Held(x)' # None
    BY <1>3, <2>1, WrapperFacts
  <2>3. Held(x) = Held(x)'
    BY <1>1, <2>2
  <2>4. Held(u) = Held(x)
    BY <2>1, <2>3 DEF Ownership, HeldByCreator
  <2>5. u <= x
    BY <2>1, <2>3, HeldByElders
  <2>6. CASE u = t /\ x # t
    <3>1. t < x
      BY <1>4, <2>5, <2>6
    <3> QED
      BY <2>2, <2>3, <2>4, <2>6, <3>1, Alone
  <2> QED
    BY <1>1, <2>3, <2>4, <2>6
<1>9. NeverOlder'
  <2>1. SUFFICES ASSUME NEW x \in Task, NEW u \in Task,
                        {context'[x], kept'[x]} \intersect Wrappers(u) # {}
                 PROVE  u <= x
    BY <1>2 DEF NeverOlder
  <2>2. {context'[x], kept'[x]} \subseteq {context[x], kept[x]}
    OBVIOUS
  <2>3. {context[x], kept[x]} \intersect Wrappers(u) # {}
    BY <2>1, <2>2
  <2> QED
    BY <2>3 DEF Ownership, NeverOlder
<1> QED
  BY <1>2, <1>5, <1>6, <1>7, <1>8, <1>9 DEF Ownership

\* A task that finds no wrapper creates its own, which nobody has.
LEMMA OwnershipLookUp ==
  ASSUME TypeOK, Ownership, UNCHANGED <<scenario, kept>>, NEW t \in Task,
         Active(t), context[t] = None, context' = [context EXCEPT ![t] = Own(t)],
         \A x \in Task : Phase(x)' = Phase(x)
  PROVE  Ownership'
<1>1. \A x \in Task \ {t} : context'[x] = context[x]
  BY DEF TypeOK
<1>2. \A x \in Task \ {t} : Held(x)' = Held(x) /\ (ByKind(x)' <=> ByKind(x))
  BY <1>1, SameTask
<1>3. \A x \in Task :
        \A p \in {"unborn", "gathering", "closing", "done"} : pc'[x] = p <=> pc[x] = p
  BY DEF Phase
<1>4. /\ Task' = Task
      /\ \A x : /\ Kind(x)' = Kind(x) /\ Parent(x)' = Parent(x)
               /\ Children(x)' = Children(x) /\ Wrappers(x)' = Wrappers(x) /\ Own(x)' = Own(x)
  BY SameProgram
<1>5. scenario \in Scenarios
  BY DEF TypeOK
<1>6. context'[t] = Own(t) /\ kept'[t] = kept[t] /\ ByKind(t)
  BY DEF TypeOK, Ownership
<1>7. Live(t)' /\ Live(t)
  BY <1>3 DEF Active, Live
<1>8. Held(t)' = Own(t) /\ Held(t) = None
  BY <1>3, <1>6, <1>7 DEF Held, Live
<1>9. Own(t) \in Wrappers(t) /\ Own(t) # None /\ t \in Nat
  BY <1>5, WrapperFacts, TaskFacts DEF Wrappers
<1>10. \A x \in Task : Held(x) # Own(t)
  BY <1>8, <1>9 DEF Ownership, HeldByCreator
<1>11. ByKind(t)'
  <2>1. Kind(t) \notin {"independent", "temporary"}
    <3>1. Independent(t) # None
      BY <1>5, WrapperFacts DEF Wrappers
    <3> QED
      BY <1>6, <1>7, <3>1 DEF ByKind
  <2>2. pc'[t] \notin {"unborn", "closing"}
    BY <1>7 DEF Live
  <2>3. Kind(t) \in {"request", "plain"}
    BY <1>5, <2>1, TaskFacts
  <2> QED
    BY <1>4, <1>6, <2>2, <2>3 DEF ByKind
<1>12. ParentsWait'
  <2>1. \A x \in Task : Parent(x) # 0 => Parent(x) \in Task
    BY <1>5, TaskFacts
  <2> QED
    BY <1>3, <1>4, <2>1 DEF Ownership, ParentsWait
<1>13. HeldInTurn'
  <2>1. SUFFICES ASSUME NEW x \in Task, NEW u \in Task, x < u,
                        Held(x)' = Held(u)', Held(x)' # None
                 PROVE  Lends(x, u, Held(x))'
    BY <1>4 DEF HeldInTurn, None
  <2>2. x # t /\ u # t
    <3>1. x # u
      BY <1>5, <2>1, TaskFacts
    <3> QED
      BY <1>2, <1>8, <1>10, <2>1, <3>1
  <2>3. Lends(x, u, Held(x))
    BY <1>2, <2>1, <2>2 DEF Ownership, HeldInTurn
  <2>4. PICK v \in Children(x) : v <= u /\ Sharing(Kind(v)) /\ Held(v) = Held(x)
    BY <2>3 DEF Lends
  <2>5. v \in Task /\ v # t
    BY <1>2, <1>8, <2>1, <2>2, <2>4 DEF Children
  <2>6. Held(v)' = Held(x)' /\ pc'[x] = "gathering"
    BY <1>2, <1>3, <2>2, <2>3, <2>4, <2>5 DEF Lends
  <2> QED
    BY <1>4, <2>4, <2>6 DEF Lends
<1>14. HeldByCreator'
  <2>1. SUFFICES ASSUME NEW x \in Task, NEW u \in Task, Held(x)' \in Wrappers(u)
                 PROVE  Held(u)' = Held(x)'
    BY <1>4 DEF HeldByCreator
  <2>2. CASE x = t
    BY <1>5, <1>8, <1>9, <2>1, <2>2, WrapperFacts
  <2>3. CASE x # t
    <3>1. Held(u) = Held(x) /\ Held(x) # None
      BY <1>2, <1>5, <2>1, <2>3, WrapperFacts DEF Ownership, HeldByCreator
    <3> QED
      BY <1>2, <1>8, <2>3, <3>1
  <2> QED
    BY <2>2, <2>3
<1>15. NeverOlder'
  <2>1. SUFFICES ASSUME NEW x \in Task, NEW u \in Task,
                        {context'[x], kept[x]} \intersect Wrappers(u) # {}
                 PROVE  u <= x
    BY <1>4 DEF NeverOlder
  <2>2. CASE x = t /\ Own(t) \in Wrappers(u)
    <3>1. u = t
      BY <1>5, <1>9, <2>2, WrapperFacts
    <3> QED
      BY <1>9, <2>2, <3>1
  <2>3. CASE ~(x = t /\ Own(t) \in Wrappers(u))
    <3>1. {context[x], kept[x]} \intersect Wrappers(u) # {}
      BY <1>1, <1>6, <2>1, <2>3
    <3> QED
      BY <3>1 DEF Ownership, NeverOlder
  <2> QED
    BY <2>2, <2>3
<1> QED
  BY <1>2, <1>4, <1>11, <1>12, <1>13, <1>14, <1>15 DEF Ownership

\* What a task starts with: the wrapper of its parent, or one of its own.
LEMMA StartFacts ==
  ASSUME scenario \in Scenarios, NEW u \in Task, Kind(u) # "request", NEW seen
  PROVE  /\ Start(u, seen).kept \in {None, seen, Own(u)}
         /\ Kind(u) = "plain" => Start(u, seen).context = seen /\ Start(u, seen).kept = None
         /\ Kind(u) = "independent" => Start(u, seen).context = Independent(u)
         /\ Kind(u) = "temporary" =>
              /\ Start(u, seen).context = IF seen = None THEN Own(u) ELSE seen
              /\ Start(u, seen).kept = IF wrapper[Start(u, seen).context].connection = None
                                         THEN Start(u, seen).context ELSE None
<1>1. Kind(u) \in {"plain", "independent", "temporary"}
  BY TaskFacts
<1>2. CASE Kind(u) = "plain"
  BY <1>2 DEF Start
<1>3. CASE Kind(u) = "independent"
  BY <1>3 DEF Start
<1>4. CASE Kind(u) = "temporary"
  BY <1>4 DEF Start
<1> QED
  BY <1>1, <1>2, <1>3, <1>4

\* A task awaits one that shares its wrapper at most.
LEMMA OneChild ==
  ASSUME OneUserEach, scenario \in Scenarios, NEW t, NEW u \in Children(t), NEW v \in Children(t),
         Sharing(Kind(u)), Sharing(Kind(v))
  PROVE  u = v
<1>1. DOMAIN scenario.parents = Task
  BY ScenarioAssumption, LenProperties DEF Task, Tasks
<1>2. u \in Task /\ v \in Task /\ scenario.parents[u] = scenario.parents[v]
  BY DEF Children
<1> QED
  BY <1>1, <1>2 DEF OneUserEach, Kind

\* What the tasks that a step gathers hold.
LEMMA GatherFacts ==
  ASSUME TypeOK, Ownership, UNCHANGED scenario, NEW t \in Task, Gather(t)
  PROVE  LET born == {u \in Children(t) : pc[u] = "unborn"} IN
         /\ \A x \in Task \ born : context'[x] = context[x] /\ kept'[x] = kept[x]
         /\ \A x \in Task \ born : Held(x)' = Held(x) /\ ByKind(x)'
         /\ \A x \in Task \ (born \union {t}) : pc'[x] = pc[x]
         /\ pc[t] = "body" /\ pc'[t] = "gathering" /\ t \notin born
         /\ \A x \in born :
              /\ pc[x] = "unborn" /\ pc'[x] = "body" /\ x \in Task /\ t < x /\ Parent(x) = t
              /\ Held(x) = None /\ Held(x)' = context'[x] /\ ByKind(x)'
              /\ \/ context'[x] \in Wrappers(x)
                 \/ context'[x] = context[t] /\ Sharing(Kind(x))
              /\ kept'[x] \in {None, context[t]} \union Wrappers(x)
<1> DEFINE born == {u \in Children(t) : pc[u] = "unborn"}
<1>1. /\ pc[t] = "body"
      /\ pc' = [u \in Task |-> IF u = t THEN "gathering" ELSE IF u \in born THEN "body" ELSE pc[u]]
      /\ context' = [u \in Task |-> IF u \in born THEN Start(u, context[t]).context ELSE context[u]]
      /\ kept' = [u \in Task |-> IF u \in born THEN Start(u, context[t]).kept ELSE kept[u]]
  BY DEF Gather
<1>2. scenario \in Scenarios
  BY DEF TypeOK
<1>3. born \subseteq Task /\ t \notin born
  BY <1>1 DEF Children
<1>4. \A x \in Task \ born : context'[x] = context[x] /\ kept'[x] = kept[x]
  BY <1>1
<1>5. \A x \in Task \ (born \union {t}) : pc'[x] = pc[x]
  BY <1>1
<1>6. pc'[t] = "gathering" /\ \A x \in born : pc[x] = "unborn" /\ pc'[x] = "body"
  BY <1>1, <1>3
<1>7. \A x \in Task \ (born \union {t}) : Held(x)' = Held(x) /\ ByKind(x)'
  BY <1>4, <1>5, SameTask DEF Phase, Ownership
<1>8. Held(t)' = Held(t) /\ ByKind(t)'
  <2>1. Live(t) /\ Live(t)'
    BY <1>1, <1>6 DEF Live
  <2>2. Held(t)' = Held(t)
    BY <1>1, <1>3, <1>4, <1>6, <2>1 DEF Held
  <2>3. ByKind(t)
    BY DEF Ownership
  <2>4. Kind(t)' = Kind(t) /\ Own(t)' = Own(t) /\ Independent(t)' = Independent(t)
    BY SameProgram
  <2>5. context'[t] = context[t] /\ kept'[t] = kept[t]
    BY <1>3, <1>4
  <2> QED
    BY <1>1, <1>6, <2>1, <2>2, <2>3, <2>4, <2>5 DEF ByKind
<1>9. ASSUME NEW x \in born
      PROVE  /\ x \in Task /\ t < x /\ Parent(x) = t
             /\ Held(x) = None /\ Held(x)' = context'[x] /\ ByKind(x)'
             /\ \/ context'[x] \in Wrappers(x)
                \/ context'[x] = context[t] /\ Sharing(Kind(x))
             /\ kept'[x] \in {None, context[t]} \union Wrappers(x)
  <2>1. x \in Task /\ Parent(x) = t
    BY DEF Children, Parent
  <2>2. t < x
    BY <1>2, <2>1, TaskFacts
  <2>3. Held(x) = None
    BY <1>6 DEF Held, Live
  <2>4. Live(x)' /\ pc'[x] = "body"
    BY <1>6 DEF Live
  <2>5. Held(x)' = context'[x]
    BY <2>4 DEF Held
  <2>6. Kind(x) \in {"plain", "independent", "temporary"}
    <3>1. ByKind(x)
      BY <2>1 DEF Ownership
    <3> QED
      BY <1>2, <1>6, <2>1, <3>1, TaskFacts DEF ByKind
  <2>7. context'[x] = Start(x, context[t]).context /\ kept'[x] = Start(x, context[t]).kept
    BY <1>1, <2>1
  <2>8. /\ Start(x, context[t]).kept \in {None, context[t], Own(x)}
        /\ Kind(x) = "plain" => Start(x, context[t]).context = context[t] /\ Start(x, context[t]).kept = None
        /\ Kind(x) = "independent" => Start(x, context[t]).context = Independent(x)
        /\ Kind(x) = "temporary" =>
             /\ Start(x, context[t]).context = IF context[t] = None THEN Own(x) ELSE context[t]
             /\ Start(x, context[t]).kept \in {None, Start(x, context[t]).context}
    BY <1>2, <2>1, <2>6, StartFacts
  <2>9. \/ context'[x] \in Wrappers(x)
        \/ context'[x] = context[t] /\ Sharing(Kind(x))
    BY <2>6, <2>7, <2>8 DEF Wrappers, Sharing
  <2>10. kept'[x] \in {None, context[t]} \union Wrappers(x)
    BY <2>7, <2>8 DEF Wrappers
  <2>11. ByKind(x)'
    <3>1. Kind(x)' = Kind(x) /\ Own(x)' = Own(x) /\ Independent(x)' = Independent(x)
      BY SameProgram
    <3>2. Own(x) # None /\ None' = None
      BY <1>2, <2>1, WrapperFacts DEF Wrappers, None
    <3> QED
      BY <2>4, <2>6, <2>7, <2>8, <3>1, <3>2 DEF ByKind
  <2> QED
    BY <2>1, <2>2, <2>3, <2>5, <2>9, <2>10, <2>11
<1> QED
  BY <1>1, <1>3, <1>4, <1>5, <1>6, <1>7, <1>8, <1>9

\* The tasks that are gathered take the wrapper of their parent, one of them at
\* most to use it, or their own.
LEMMA OwnershipGather ==
  ASSUME OneUserEach, TypeOK, Ownership, UNCHANGED scenario, NEW t \in Task, Gather(t)
  PROVE  Ownership'
<1> DEFINE born == {u \in Children(t) : pc[u] = "unborn"}
<1>1. /\ \A x \in Task \ born : context'[x] = context[x] /\ kept'[x] = kept[x]
      /\ \A x \in Task \ born : Held(x)' = Held(x) /\ ByKind(x)'
      /\ \A x \in Task \ (born \union {t}) : pc'[x] = pc[x]
      /\ pc[t] = "body" /\ pc'[t] = "gathering" /\ t \notin born
  BY GatherFacts
<1>2. \A x \in born :
        /\ pc[x] = "unborn" /\ pc'[x] = "body" /\ x \in Task /\ t < x /\ Parent(x) = t
        /\ Held(x) = None /\ Held(x)' = context'[x] /\ ByKind(x)'
        /\ \/ context'[x] \in Wrappers(x)
           \/ context'[x] = context[t] /\ Sharing(Kind(x))
        /\ kept'[x] \in {None, context[t]} \union Wrappers(x)
  BY GatherFacts
<1>3. born \subseteq Children(t)
  OBVIOUS
<1> HIDE DEF born
<1>4. /\ Task' = Task
      /\ \A x : /\ Kind(x)' = Kind(x) /\ Parent(x)' = Parent(x)
               /\ Children(x)' = Children(x) /\ Wrappers(x)' = Wrappers(x)
  BY SameProgram
<1>5. scenario \in Scenarios
  BY DEF TypeOK
<1>6. None' = None /\ \A x \in Task : x \in Nat
  BY <1>5, TaskFacts DEF None
<1>7. Held(t) = context[t]
  BY <1>1 DEF Held, Live
<1>8. \A x \in Task : ByKind(x)'
  BY <1>1, <1>2
<1>9. \A x \in born : context[t] \notin Wrappers(x)
  <2>1. ASSUME NEW x \in born, context[t] \in Wrappers(x)
        PROVE  FALSE
    <3>1. {context[t], kept[t]} \intersect Wrappers(x) # {} /\ x \in Task
      BY <1>2, <2>1
    <3>2. x <= t
      BY <3>1 DEF Ownership, NeverOlder
    <3> QED
      BY <1>2, <1>6, <3>2
  <2> QED
    BY <2>1
<1>10. ASSUME NEW x \in Task, NEW u \in Task, Held(x) \in Wrappers(u)
       PROVE  x \notin born /\ u \notin born /\ Held(u) = Held(x)
  <2>1. Held(x) # None /\ Held(u) = Held(x)
    BY <1>5, <1>10, WrapperFacts DEF Ownership, HeldByCreator
  <2> QED
    BY <1>2, <2>1
<1>11. ParentsWait'
  <2>1. SUFFICES ASSUME NEW x \in Task, pc'[x] \notin {"unborn", "done"}, Parent(x) # 0
                 PROVE  pc'[Parent(x)] = "gathering"
    BY <1>4 DEF ParentsWait
  <2>2. CASE x \in born
    BY <1>1, <1>2, <2>2
  <2>3. CASE x \notin born
    <3>1. pc[x] \notin {"unborn", "done"}
      BY <1>1, <2>1, <2>3
    <3>2. pc[Parent(x)] = "gathering" /\ Parent(x) \in Task
      BY <1>5, <2>1, <3>1, TaskFacts DEF Ownership, ParentsWait
    <3>3. Parent(x) \notin born \union {t}
      BY <1>1, <1>2, <3>2
    <3> QED
      BY <1>1, <3>2, <3>3
  <2> QED
    BY <2>2, <2>3
<1>12. HeldInTurn'
  <2>1. SUFFICES ASSUME NEW x \in Task, NEW u \in Task, x < u,
                        Held(x)' = Held(u)', Held(x)' # None
                 PROVE  Lends(x, u, Held(x))'
    BY <1>4, <1>6 DEF HeldInTurn
  <2>2. ASSUME NEW y \in Task, y <= u, Lends(x, y, Held(x)), Held(x) = Held(x)'
        PROVE  Lends(x, u, Held(x))'
    <3>1. PICK v \in Children(x) : v <= y /\ Sharing(Kind(v)) /\ Held(v) = Held(x)
      BY <2>2 DEF Lends
    <3>2. v \in Task \ born
      BY <1>2, <2>1, <2>2, <3>1 DEF Children
    <3>3. Held(v)' = Held(x)' /\ v <= u
      BY <1>1, <1>6, <2>2, <3>1, <3>2
    <3>4. pc'[x] = "gathering"
      BY <1>1, <1>2, <2>2 DEF Lends
    <3> QED
      BY <1>4, <3>1, <3>3, <3>4 DEF Lends
  <2>3. CASE x \notin born /\ u \notin born
    <3>1. Held(x) = Held(u) /\ Held(x) = Held(x)' /\ u <= u
      BY <1>1, <1>6, <2>1, <2>3
    <3>2. Lends(x, u, Held(x))
      BY <2>1, <3>1 DEF Ownership, HeldInTurn
    <3> QED
      BY <2>2, <3>1, <3>2
  <2>4. CASE x \in born /\ u \notin born
    <3>1. Held(u) = context'[x] /\ Held(u) = Held(x)' /\ Held(x) # Held(u)
      BY <1>1, <1>2, <2>1, <2>4
    <3>2. Held(u) \notin Wrappers(x)
      BY <1>10, <2>4
    <3>3. Held(u) = Held(t)
      BY <1>2, <1>7, <2>4, <3>1, <3>2
    <3>4. t < u /\ Held(t) # None
      BY <1>2, <1>6, <2>1, <2>4, <3>1, <3>3
    <3>5. pc[t] = "gathering"
      BY <3>3, <3>4 DEF Ownership, HeldInTurn, Lends
    <3> QED
      BY <1>1, <3>5
  <2>5. CASE u \in born
    <3>1. Held(u)' = context'[u]
      BY <1>2, <2>5
    <3>2. CASE context'[u] \in Wrappers(u)
      <4>1. CASE x \in born
        <5>1. context'[x] \in Wrappers(u) /\ context'[x] \notin Wrappers(x)
          <6>1. x # u
            BY <1>6, <2>1
          <6> QED
            BY <1>2, <1>5, <2>1, <2>5, <3>2, <4>1, <6>1, WrapperFacts
        <5>2. context[t] \in Wrappers(u)
          BY <1>2, <4>1, <5>1
        <5> QED
          BY <1>9, <2>5, <5>2
      <4>2. CASE x \notin born
        <5>1. Held(x) \in Wrappers(u)
          BY <1>1, <2>1, <3>1, <3>2, <4>2
        <5> QED
          BY <1>10, <2>5, <5>1
      <4> QED
        BY <4>1, <4>2
    <3>3. CASE context'[u] = context[t] /\ Sharing(Kind(u))
      <4>1. Held(x)' = Held(t) /\ Held(t) # None
        BY <1>7, <2>1, <3>1, <3>3
      <4>2. CASE x \in born
        <5>1. context'[x] = context[t]
          BY <1>2, <1>7, <4>1, <4>2
        <5>2. Sharing(Kind(x))
          BY <1>2, <1>9, <4>2, <5>1
        <5>3. x = u
          BY <1>3, <1>5, <2>5, <3>3, <4>2, <5>2, OneChild
        <5> QED
          BY <1>6, <2>1, <5>3
      <4>3. CASE x = t
        <5>1. u \in Children(x)' /\ u <= u /\ Sharing(Kind(u))' /\ Held(u)' = Held(x)'
          BY <1>3, <1>4, <1>6, <2>1, <2>5, <3>3, <4>3 DEF Sharing
        <5>2. pc'[x] = "gathering"
          BY <1>1, <4>3
        <5> QED
          BY <5>1, <5>2 DEF Lends
      <4>4. CASE x \notin born \union {t}
        <5>1. Held(x) = Held(t) /\ Held(x)' = Held(x)
          BY <1>1, <4>1, <4>4
        <5>2. ~ (t < x)
          <6>1. ASSUME t < x PROVE FALSE
            BY <1>1, <4>1, <5>1, <6>1 DEF Ownership, HeldInTurn, Lends
          <6> QED
            BY <6>1
        <5>3. x < t /\ t <= u
          BY <1>2, <1>6, <2>5, <4>4, <5>2
        <5>4. Lends(x, t, Held(x))
          BY <4>1, <5>1, <5>3 DEF Ownership, HeldInTurn
        <5> QED
          BY <2>2, <5>1, <5>3, <5>4
      <4> QED
        BY <4>2, <4>3, <4>4
    <3> QED
      BY <1>2, <2>5, <3>2, <3>3
  <2> QED
    BY <2>3, <2>4, <2>5
<1>13. HeldByCreator'
  <2>1. SUFFICES ASSUME NEW x \in Task, NEW u \in Task, Held(x)' \in Wrappers(u)
                 PROVE  Held(u)' = Held(x)'
    BY <1>4 DEF HeldByCreator
  <2>2. CASE x \notin born
    <3>1. Held(x)' = Held(x)
      BY <1>1, <2>2
    <3>2. u \notin born /\ Held(u) = Held(x)
      BY <1>10, <2>1, <3>1
    <3> QED
      BY <1>1, <3>1, <3>2
  <2>3. CASE x \in born /\ context'[x] \in Wrappers(x)
    BY <1>2, <1>5, <2>1, <2>3, WrapperFacts
  <2>4. CASE x \in born /\ context'[x] = context[t]
    <3>1. Held(x)' = Held(t)
      BY <1>2, <1>7, <2>4
    <3>2. u \notin born /\ Held(u) = Held(t)
      BY <1>10, <2>1, <3>1
    <3> QED
      BY <1>1, <3>1, <3>2
  <2> QED
    BY <1>2, <2>2, <2>3, <2>4
<1>14. NeverOlder'
  <2>1. SUFFICES ASSUME NEW x \in Task, NEW u \in Task,
                        {context'[x], kept'[x]} \intersect Wrappers(u) # {}
                 PROVE  u <= x
    BY <1>4 DEF NeverOlder
  <2>2. CASE x \notin born
    <3>1. {context[x], kept[x]} \intersect Wrappers(u) # {}
      BY <1>1, <2>1, <2>2
    <3> QED
      BY <3>1 DEF Ownership, NeverOlder
  <2>3. CASE x \in born
    <3>1. {context'[x], kept'[x]} \subseteq {None, context[t]} \union Wrappers(x)
      BY <1>2, <2>3
    <3>2. None \notin Wrappers(u)
      BY <1>5, WrapperFacts
    <3>3. CASE context[t] \in Wrappers(u)
      <4>1. {context[t], kept[t]} \intersect Wrappers(u) # {}
        BY <3>3
      <4>2. u <= t
        BY <4>1 DEF Ownership, NeverOlder
      <4> QED
        BY <1>2, <1>6, <2>3, <4>2
    <3>4. CASE context[t] \notin Wrappers(u)
      <4>1. Wrappers(x) \intersect Wrappers(u) # {}
        BY <2>1, <3>1, <3>2, <3>4
      <4>2. x = u
        BY <1>5, <4>1, WrapperFacts
      <4> QED
        BY <1>6, <4>2
    <3> QED
      BY <3>3, <3>4
  <2> QED
    BY <2>2, <2>3
<1> QED
  BY <1>4, <1>8, <1>11, <1>12, <1>13, <1>14 DEF Ownership

\* The steps, as far as the phases and the contexts of the tasks are concerned.
Calm ==
  \A x \in Task : Phase(x)' = Phase(x) /\ context'[x] = context[x] /\ kept'[x] = kept[x]

Releases(t) ==
  /\ \A x \in Task \ {t} :
       Phase(x)' = Phase(x) /\ context'[x] = context[x] /\ kept'[x] = kept[x]
  /\ pc[t] \notin {"unborn", "done"} /\ pc'[t] \notin {"unborn", "gathering"}
  /\ pc[t] = "gathering" => \A v \in Children(t) : pc[v] = "done"
  /\ Held(t)' \in {None, Held(t)} /\ ByKind(t)'
  /\ context'[t] \in {context[t], kept[t]} /\ kept'[t] = kept[t]

\* A step of acursor() or of a recycling.
Works(t) ==
  \/ ACursor(t) \/ HealthChecked(t) \/ GetConn(t) \/ Granted(t) \/ Dial(t) \/ Configured(t)
  \/ Statement(t) \/ Recycle(t) \/ RecycleChecked(t)

\* A task leaves its code.
Leaves(t) ==
  /\ Live(t) /\ kept' = kept /\ \E how \in {"ok", "raised", "cancelled"} : Unwind(t, how)
  /\ pc[t] = "gathering" => \A v \in Children(t) : pc[v] = "done"

\* It goes on with its own code once those it awaited are done.
Resumes(t) ==
  /\ pc[t] = "gathering" /\ \A v \in Children(t) : pc[v] = "done"
  /\ Goto(t, "body") /\ UNCHANGED <<context, kept, closing>>

LooksUp(t) ==
  /\ Active(t) /\ context[t] = None /\ context' = [context EXCEPT ![t] = Own(t)]
  /\ kept' = kept /\ \A x \in Task : Phase(x)' = Phase(x)

\* A step within acursor() or a recycling.
LEMMA GotoCalm ==
  ASSUME TypeOK, UNCHANGED <<context, kept>>, NEW t \in Task, NEW label,
         Active(t), label \notin {"unborn", "gathering", "closing", "done"}, Goto(t, label)
  PROVE  Calm
BY DEF Calm, Goto, TypeOK, Active, Live, Phase

\* A connection that comes back leaves the tasks where they are, but for one
\* that waited for it.
LEMMA GiveBackCalm ==
  ASSUME TypeOK, UNCHANGED <<context, kept>>, NEW c, GiveBack(c)
  PROVE  Calm
<1>1. CASE waiting = <<>>
  BY <1>1 DEF GiveBack, Calm, Phase
<1>2. CASE waiting # <<>>
  <2>1. Head(waiting) \in Task /\ Goto(Head(waiting), "granted")
    BY <1>2, HeadTailProperties DEF GiveBack, TypeOK
  <2>2. Head(waiting) = waiting[1] /\ 1 \in DOMAIN waiting
    BY <1>2, LenProperties, EmptySeq DEF TypeOK
  <2>3. pc[Head(waiting)] = "waiting"
    BY <2>1, <2>2 DEF TypeOK, ToSet
  <2> QED
    BY <2>1, <2>3, GotoCalm DEF Active, Live
<1> QED
  BY <1>1, <1>2

\* A task that leaves its code waits for what it holds to be closed, or is done.
LEMMA UnwindReleases ==
  ASSUME TypeOK, Ownership, UNCHANGED scenario, NEW t \in Task, Leaves(t)
  PROVE  /\ Releases(t)
         /\ pc'[t] = IF ClosedOnExit(t) = None THEN "done" ELSE "closing"
         /\ \A x \in Task \ {t} : pc'[x] = pc[x]
         /\ ClosedOnExit(t) # None => Awaited(t)' = ClosedOnExit(t)
         /\ ClosedOnExit(t) \in {None, Held(t)}
<1>1. scenario \in Scenarios /\ ByKind(t) /\ Live(t) /\ kept' = kept
  BY DEF TypeOK, Ownership, Leaves
<1>2. Kind(t) \in {"request", "plain", "independent", "temporary"} /\ Own(t) # None
      /\ Independent(t) # None
  BY <1>1, TaskFacts, WrapperFacts DEF Wrappers
<1>3. /\ pc'[t] = IF ClosedOnExit(t) = None THEN "done" ELSE "closing"
      /\ \A x \in Task \ {t} : pc'[x] = pc[x] /\ context'[x] = context[x]
      /\ context'[t] = IF Kind(t) = "independent" THEN kept[t] ELSE context[t]
  BY DEF Leaves, Unwind, Goto, TypeOK
<1>4. Kind(t)' = Kind(t) /\ Own(t)' = Own(t) /\ Independent(t)' = Independent(t) /\ None' = None
  BY SameProgram DEF None
<1>5. Held(t) = context[t]
  BY <1>1 DEF Held, Live
<1>6. ClosedOnExit(t) \in {None, Held(t)}
  BY <1>1, <1>2, <1>5 DEF ClosedOnExit, ByKind
<1>7. ClosedOnExit(t) # None => Awaited(t)' = ClosedOnExit(t)
  BY <1>1, <1>2, <1>3, <1>4 DEF Awaited, ClosedOnExit
<1>8. Held(t)' \in {None, Held(t)}
  BY <1>3, <1>4, <1>6, <1>7 DEF Held, Live
<1>9. ByKind(t)'
  <2>1. ~Live(t)' /\ pc'[t] \in {"closing", "done"}
    BY <1>3 DEF Live
  <2>2. pc'[t] = "closing" => Awaited(t)' # None
    BY <1>3, <1>7
  <2> QED
    BY <1>1, <1>2, <1>3, <1>4, <2>1, <2>2 DEF ByKind
<1>10. \A x \in Task \ {t} : Phase(x)' = Phase(x)
  BY <1>3 DEF Phase
<1>11. context'[t] \in {context[t], kept[t]} /\ pc'[t] \in {"closing", "done"}
  BY <1>3
<1> QED
  BY <1>1, <1>3, <1>6, <1>7, <1>8, <1>9, <1>10, <1>11 DEF Releases, Leaves, Live

\* A task that goes on with its own code keeps what it holds.
LEMMA ResumeReleases ==
  ASSUME TypeOK, Ownership, UNCHANGED scenario, NEW t \in Task, Resumes(t)
  PROVE  Releases(t)
<1>1. pc'[t] = "body" /\ \A x \in Task \ {t} : pc'[x] = pc[x]
  BY DEF Resumes, Goto, TypeOK
<1>2. \A x \in Task \ {t} : Phase(x)' = Phase(x)
  BY <1>1 DEF Phase
<1>3. context' = context /\ kept' = kept
  BY DEF Resumes
<1>4. Live(t) /\ Live(t)'
  BY <1>1 DEF Resumes, Live
<1>5. Held(t)' = Held(t)
  BY <1>1, <1>3, <1>4 DEF Resumes, Held
<1>6. ByKind(t)'
  <2>1. Kind(t)' = Kind(t) /\ Own(t)' = Own(t) /\ Independent(t)' = Independent(t) /\ None' = None
    BY SameProgram DEF None
  <2>2. ByKind(t)
    BY DEF Ownership
  <2> QED
    BY <1>1, <1>3, <1>4, <2>1, <2>2 DEF ByKind
<1> QED
  BY <1>1, <1>2, <1>3, <1>5, <1>6 DEF Releases, Resumes

\* A task that has been waited for is done.
LEMMA DoneReleases ==
  ASSUME TypeOK, Ownership, UNCHANGED <<scenario, context, kept>>, NEW t \in Task,
         pc[t] = "closing", Goto(t, "done")
  PROVE  Releases(t)
<1>1. pc'[t] = "done" /\ \A x \in Task \ {t} : pc'[x] = pc[x]
  BY DEF Goto, TypeOK
<1>2. \A x \in Task \ {t} : Phase(x)' = Phase(x)
  BY <1>1 DEF Phase
<1>3. Held(t)' = None
  BY <1>1 DEF Held, Live, None
<1>4. ByKind(t)'
  <2>1. Kind(t)' = Kind(t) /\ Own(t)' = Own(t) /\ None' = None
    BY SameProgram DEF None
  <2>2. ByKind(t) /\ ~Live(t)'
    BY <1>1 DEF Ownership, Live
  <2> QED
    BY <1>1, <2>1, <2>2 DEF ByKind
<1> QED
  BY <1>1, <1>2, <1>3, <1>4 DEF Releases

\* What a step of acursor() or of a recycling is to the wrappers,
LEMMA WorkMoves ==
  ASSUME TypeOK, NEW t \in Task, Works(t)
  PROVE  ((Calm \/ LooksUp(t)) /\ UNCHANGED closing) \/ Leaves(t)
<1>1. CASE ACursor(t)
  <2>1. Active(t) /\ UNCHANGED closing
    BY <1>1 DEF ACursor, Active, Live
  <2>2. \E label \in {"checking", "statement", "connecting"} : Goto(t, label)
    BY <1>1 DEF ACursor, Ensure
  <2>3. CASE context[t] = None
    <3>1. \A x \in Task : Phase(x)' = Phase(x)
      BY <2>1, <2>2 DEF Goto, TypeOK, Active, Live, Phase
    <3> QED
      BY <1>1, <2>1, <2>3, <3>1 DEF ACursor, LooksUp
  <2>4. CASE context[t] # None
    <3>1. context' = context /\ kept' = kept
      BY <1>1, <2>4 DEF ACursor, TypeOK
    <3> QED
      BY <2>1, <2>2, <3>1, GotoCalm
  <2> QED
    BY <2>3, <2>4
<1>2. CASE HealthChecked(t)
  <2>1. \E label \in {"statement", "connecting"} : Goto(t, label)
    BY <1>2 DEF HealthChecked, Ensure
  <2> QED
    BY <1>2, <2>1, GotoCalm DEF HealthChecked, Active, Live
<1>3. CASE GetConn(t)
  <2>1. \E label \in {"waiting", "statement"} : Goto(t, label)
    BY <1>3 DEF GetConn, Take
  <2> QED
    BY <1>3, <2>1, GotoCalm DEF GetConn, Active, Live
<1>4. CASE Granted(t)
  BY <1>4, GotoCalm DEF Granted, Take, Active, Live
<1>5. CASE Dial(t)
  <2>1. CASE Goto(t, "configuring") /\ UNCHANGED <<context, closing>>
    BY <1>5, <2>1, GotoCalm DEF Dial, Active, Live
  <2>2. CASE Unwind(t, "raised")
    BY <1>5, <2>2 DEF Dial, Leaves, Live
  <2> QED
    BY <1>5, <2>1, <2>2 DEF Dial
<1>6. CASE Configured(t)
  <2>1. CASE Goto(t, "statement") /\ UNCHANGED <<context, closing>>
    BY <1>6, <2>1, GotoCalm DEF Configured, Active, Live
  <2>2. CASE Unwind(t, "raised")
    BY <1>6, <2>2 DEF Configured, Leaves, Live
  <2> QED
    BY <1>6, <2>1, <2>2 DEF Configured
<1>7. CASE Statement(t)
  <2>1. CASE UNCHANGED <<pc, context, closing>>
    BY <1>7, <2>1 DEF Statement, Calm, Phase
  <2>2. CASE Goto(t, "body") /\ UNCHANGED <<context, closing>>
    BY <1>7, <2>2, GotoCalm DEF Statement, Active, Live
  <2>3. CASE Unwind(t, "raised")
    BY <1>7, <2>3 DEF Statement, Leaves, Live
  <2> QED
    BY <1>7, <2>1, <2>2, <2>3 DEF Statement
<1>8. CASE Recycle(t)
  <2>1. \E label \in {"recycling", "body"} : Goto(t, label)
    BY <1>8 DEF Recycle, Recycled
  <2> QED
    BY <1>8, <2>1, GotoCalm DEF Recycle, Active, Live
<1>9. CASE RecycleChecked(t)
  <2>1. Goto(t, "body")
    BY <1>9 DEF RecycleChecked, Recycled
  <2> QED
    BY <1>9, <2>1, GotoCalm DEF RecycleChecked, Active, Live
<1> QED
  BY <1>1, <1>2, <1>3, <1>4, <1>5, <1>6, <1>7, <1>8, <1>9 DEF Works

\* and what any step of a task is.
LEMMA StepMoves ==
  ASSUME TypeOK, NEW t \in Task, Step(t)
  PROVE  \/ (Calm \/ LooksUp(t)) /\ UNCHANGED closing
         \/ Leaves(t) \/ Resumes(t) \/ Gather(t) \/ EveryClosed(t)
<1>1. CASE PoolTimeout(t)
  BY <1>1 DEF PoolTimeout, LeaveQueue, Leaves, Live
<1>2. CASE Gathered(t)
  BY <1>2 DEF Gathered, Resumes, Leaves, Live
<1>3. CASE Leave(t)
  BY <1>3 DEF Leave, Leaves, Live
<1> QED
  BY <1>1, <1>2, <1>3, WorkMoves DEF Step, Works

\* The same of a cancellation.
LEMMA CancelMoves ==
  ASSUME NEW t \in Task, Cancel(t)
  PROVE  Leaves(t) \/ CancelClosing(t)
BY DEF Cancel, LeaveQueue, Leaves, Live

\* Closing a wrapper moves no task from its phase.
LEMMA CloserMoves ==
  ASSUME TypeOK, NEW w \in Wrapper, Closer(w)
  PROVE  UNCHANGED <<context, kept>> /\ Calm
<1>1. UNCHANGED <<context, kept>>
  BY DEF Closer, AClose, ARolledBack
<1>2. CASE UNCHANGED pc
  BY <1>1, <1>2 DEF Calm, Phase
<1>3. CASE GiveBack(wrapper[w].connection)
  BY <1>1, <1>3, GiveBackCalm
<1> QED
  BY <1>1, <1>2, <1>3 DEF Closer, AClose, ARolledBack, Closed

\* Whose the wrappers are, is kept by every step.
LEMMA OwnershipStep ==
  ASSUME OneUserEach, TypeOK, Ownership, [Next]_vars
  PROVE  Ownership'
<1>1. ASSUME Calm, UNCHANGED scenario
      PROVE  Ownership'
  BY <1>1, OwnershipCalm DEF Calm
<1>2. ASSUME NEW t \in Task, Releases(t), UNCHANGED scenario
      PROVE  Ownership'
  BY <1>2, OwnershipRelease DEF Releases
<1>3. ASSUME NEW t \in Task, Step(t), UNCHANGED scenario
      PROVE  Ownership'
  <2>1. CASE Calm
    BY <1>1, <1>3, <2>1
  <2>2. CASE LooksUp(t)
    BY <1>3, <2>2, OwnershipLookUp DEF LooksUp
  <2>3. CASE Leaves(t)
    BY <1>2, <1>3, <2>3, UnwindReleases
  <2>4. CASE Resumes(t)
    BY <1>2, <1>3, <2>4, ResumeReleases
  <2>5. CASE Gather(t)
    BY <1>3, <2>5, OwnershipGather
  <2>6. CASE EveryClosed(t)
    BY <1>2, <1>3, <2>6, DoneReleases DEF EveryClosed
  <2> QED
    BY <1>3, <2>1, <2>2, <2>3, <2>4, <2>5, <2>6, StepMoves
<1>4. ASSUME NEW t \in Task, Cancel(t), UNCHANGED scenario
      PROVE  Ownership'
  <2>1. CASE Leaves(t)
    BY <1>2, <1>4, <2>1, UnwindReleases
  <2>2. CASE CancelClosing(t)
    BY <1>2, <1>4, <2>2, DoneReleases DEF CancelClosing
  <2> QED
    BY <1>4, <2>1, <2>2, CancelMoves
<1>5. ASSUME NEW w \in Wrapper, Closer(w), UNCHANGED scenario
      PROVE  Ownership'
  BY <1>1, <1>5, CloserMoves
<1>6. ASSUME UNCHANGED <<scenario, tasks>>
      PROVE  Ownership'
  BY <1>1, <1>6 DEF Calm, tasks, Phase
<1> QED
  BY <1>3, <1>4, <1>5, <1>6 DEF Next, Age, Lose, vars

-----------------------------------------------------------------------------
(* Who is closing what.                                                    *)

\* Steps after which those that closed wrappers still do.
LEMMA ClosersCalm ==
  ASSUME Closers, UNCHANGED scenario,
         \A w \in Wrapper : closing'[w] # "no" => closing[w] # "no",
         \A x \in Task : pc[x] \in {"closing", "done"} => pc'[x] = pc[x] /\ Held(x)' = Held(x)
  PROVE  Closers'
<1>1. /\ Task' = Task /\ Wrapper' = Wrapper
      /\ \A x : Kind(x)' = Kind(x) /\ Own(x)' = Own(x)
  BY SameProgram
<1>2. \A x \in Task : pc[x] = "closing" => Awaited(x)' = Awaited(x)
  BY DEF Held
<1>3. SUFFICES ASSUME NEW w \in Wrapper, closing'[w] # "no"
               PROVE  \/ \E t \in Task : pc'[t] = "closing" /\ Awaited(t)' = w
                      \/ \E t \in Task : Kind(t) = "request" /\ pc'[t] = "done" /\ Own(t) = w
  BY <1>1 DEF Closers
<1>4. CASE \E t \in Task : pc[t] = "closing" /\ Awaited(t) = w
  BY <1>2, <1>4
<1>5. CASE \E t \in Task : Kind(t) = "request" /\ pc[t] = "done" /\ Own(t) = w
  BY <1>5
<1> QED
  BY <1>3, <1>4, <1>5 DEF Closers

\* A task that is done, or that unwinds.
LEMMA ClosersRelease ==
  ASSUME TypeOK, Closers, UNCHANGED scenario, NEW t \in Task, Releases(t),
         \A w \in Wrapper : closing'[w] # "no" =>
           \/ pc'[t] = "closing" /\ Awaited(t)' = w
           \/ pc'[t] = "done" /\ Kind(t) = "request" /\ Own(t) = w
           \/ closing[w] # "no" /\ ~(pc[t] = "closing" /\ Awaited(t) = w)
  PROVE  Closers'
<1>1. /\ Task' = Task /\ Wrapper' = Wrapper
      /\ \A x : Kind(x)' = Kind(x) /\ Own(x)' = Own(x)
  BY SameProgram
<1>2. \A x \in Task \ {t} : pc[x] \in {"closing", "done"} => pc'[x] = pc[x] /\ Held(x)' = Held(x)
  BY SameTask DEF Releases
<1>3. \A x \in Task \ {t} : pc[x] = "closing" => Awaited(x)' = Awaited(x)
  BY <1>2 DEF Held
<1>4. SUFFICES ASSUME NEW w \in Wrapper, closing'[w] # "no"
               PROVE  \/ \E x \in Task : pc'[x] = "closing" /\ Awaited(x)' = w
                      \/ \E x \in Task : Kind(x) = "request" /\ pc'[x] = "done" /\ Own(x) = w
  BY <1>1 DEF Closers
<1>5. CASE pc'[t] = "closing" /\ Awaited(t)' = w
  BY <1>5
<1>6. CASE pc'[t] = "done" /\ Kind(t) = "request" /\ Own(t) = w
  BY <1>6
<1>7. CASE closing[w] # "no" /\ ~(pc[t] = "closing" /\ Awaited(t) = w)
  <2>1. CASE \E x \in Task : pc[x] = "closing" /\ Awaited(x) = w
    BY <1>2, <1>3, <1>7, <2>1
  <2>2. CASE \E x \in Task : Kind(x) = "request" /\ pc[x] = "done" /\ Own(x) = w
    BY <1>2, <2>2 DEF Releases
  <2> QED
    BY <1>7, <2>1, <2>2 DEF Closers
<1> QED
  BY <1>4, <1>5, <1>6, <1>7

\* A task that leaves its code awaits the closing of what it held.
LEMMA ClosersUnwind ==
  ASSUME TypeOK, Ownership, Closers, UNCHANGED scenario, NEW t \in Task, Leaves(t)
  PROVE  Closers'
<1>1. /\ Releases(t)
      /\ pc'[t] = IF ClosedOnExit(t) = None THEN "done" ELSE "closing"
      /\ ClosedOnExit(t) # None => Awaited(t)' = ClosedOnExit(t)
  BY UnwindReleases
<1>2. \A w \in Wrapper : closing'[w] # "no" => closing[w] # "no" \/ w = ClosedOnExit(t)
  BY DEF Leaves, Unwind, TypeOK
<1>3. None \notin Wrapper
  BY WrapperFacts DEF TypeOK
<1> QED
  BY <1>1, <1>2, <1>3, ClosersRelease DEF Leaves, Live

\* No step closes a wrapper but for a task that awaits it.
LEMMA ClosersStep ==
  ASSUME TypeOK, Ownership, Closers, [Next]_vars
  PROVE  Closers'
<1>1. ASSUME Calm, UNCHANGED scenario, \A w \in Wrapper : closing'[w] # "no" => closing[w] # "no"
      PROVE  Closers'
  <2>1. \A x \in Task : pc[x] \in {"closing", "done"} => pc'[x] = pc[x] /\ Held(x)' = Held(x)
    BY <1>1, SameTask DEF Calm
  <2> QED
    BY <1>1, <2>1, ClosersCalm
<1>2. ASSUME NEW t \in Task, Step(t), UNCHANGED scenario
      PROVE  Closers'
  <2>1. CASE Calm /\ UNCHANGED closing
    BY <1>1, <1>2, <2>1
  <2>2. CASE LooksUp(t) /\ UNCHANGED closing
    <3>1. \A x \in Task \ {t} : context'[x] = context[x] /\ kept'[x] = kept[x] /\ Phase(x)' = Phase(x)
      BY <2>2 DEF LooksUp, TypeOK
    <3>2. \A x \in Task : pc[x] \in {"closing", "done"} => x # t
      BY <2>2 DEF LooksUp, Active, Live
    <3>3. \A x \in Task : pc[x] \in {"closing", "done"} => pc'[x] = pc[x] /\ Held(x)' = Held(x)
      BY <1>2, <3>1, <3>2, SameTask
    <3> QED
      BY <1>2, <2>2, <3>3, ClosersCalm
  <2>3. CASE Leaves(t)
    BY <1>2, <2>3, ClosersUnwind
  <2>4. CASE Resumes(t)
    <3>1. Releases(t) /\ pc[t] # "closing"
      BY <1>2, <2>4, ResumeReleases DEF Resumes
    <3> QED
      BY <1>2, <2>4, <3>1, ClosersRelease DEF Resumes
  <2>5. CASE Gather(t)
    <3>1. \A x \in Task : pc[x] \in {"closing", "done"} => pc'[x] = pc[x] /\ Held(x)' = Held(x)
      BY <1>2, <2>5, GatherFacts
    <3>2. UNCHANGED closing
      BY <2>5 DEF Gather
    <3> QED
      BY <1>2, <3>1, <3>2, ClosersCalm
  <2>6. CASE EveryClosed(t)
    <3>1. Releases(t)
      BY <1>2, <2>6, DoneReleases DEF EveryClosed
    <3> QED
      BY <1>2, <2>6, <3>1, ClosersRelease DEF EveryClosed
  <2> QED
    BY <1>2, <2>1, <2>2, <2>3, <2>4, <2>5, <2>6, StepMoves
<1>3. ASSUME NEW t \in Task, Cancel(t), UNCHANGED scenario
      PROVE  Closers'
  <2>1. CASE Leaves(t)
    BY <1>3, <2>1, ClosersUnwind
  <2>2. CASE CancelClosing(t)
    <3>1. Releases(t) /\ pc'[t] = "done"
      BY <1>3, <2>2, DoneReleases DEF CancelClosing, Goto, TypeOK
    <3>2. pc[t] = "closing" /\ Awaited(t) # None
      BY <2>2 DEF CancelClosing, Ownership, ByKind
    <3>3. CASE Kind(t) = "request"
      <4>1. Awaited(t) = Own(t)
        BY <3>2, <3>3 DEF Awaited, ClosedOnExit, Ownership, ByKind
      <4> QED
        BY <1>3, <2>2, <3>1, <3>3, <4>1, ClosersRelease DEF CancelClosing
    <3>4. CASE Kind(t) # "request"
      <4>1. \A w \in Wrapper : closing'[w] # "no" => closing[w] # "no" /\ w # Awaited(t)
        BY <2>2, <3>4 DEF CancelClosing, TypeOK
      <4> QED
        BY <1>3, <3>1, <4>1, ClosersRelease
    <3> QED
      BY <3>3, <3>4
  <2> QED
    BY <1>3, <2>1, <2>2, CancelMoves
<1>4. ASSUME NEW w \in Wrapper, Closer(w), UNCHANGED scenario
      PROVE  Closers'
  <2>1. \A x \in Wrapper : closing'[x] # "no" => closing[x] # "no"
    BY <1>4 DEF Closer, AClose, ARolledBack, TypeOK
  <2> QED
    BY <1>1, <1>4, <2>1, CloserMoves
<1>5. ASSUME UNCHANGED <<scenario, tasks, closing>>
      PROVE  Closers'
  BY <1>1, <1>5 DEF Calm, tasks, Phase
<1> QED
  BY <1>2, <1>3, <1>4, <1>5 DEF Next, Age, Lose, vars

-----------------------------------------------------------------------------
(* The kinds of the variables.                                             *)

Fields == [connection : Raw \union {None}, health_check_done : BOOLEAN,
           errors_occurred : BOOLEAN, obsolete : BOOLEAN]
RawState == [out : Wrapper \union {None}, alive : BOOLEAN, pending : BOOLEAN,
             lost : Nat, failed : Nat]

TaskTypes ==
  /\ pc \in [Task -> Label] /\ outcome \in [Task -> Outcome] /\ todo \in [Task -> Nat]
  /\ context \in [Task -> Wrapper \union {None}] /\ kept \in [Task -> Wrapper \union {None}]
  /\ cursor \in [Task -> Raw \union {None}]

WrapperTypes ==
  /\ closing \in [Wrapper -> {"no", "scheduled", "rollback"}]
  /\ wrapper \in [Wrapper -> Fields]
  /\ epoch \in [Wrapper -> 0 .. scenario.recycles]

Queue ==
  /\ waiting \in Seq(Task) /\ IsInjective(waiting)
  /\ \A t \in Task : pc[t] = "waiting" <=> t \in ToSet(waiting)

PoolTypes ==
  /\ raw \in [Raw -> RawState]
  /\ idle \subseteq {c \in Raw : raw[c].out = None /\ ~raw[c].pending}

\* TypeOK, in parts.
LEMMA TypeParts ==
  TypeOK <=> scenario \in Scenarios /\ TaskTypes /\ WrapperTypes /\ Queue /\ PoolTypes
BY DEF TypeOK, TaskTypes, WrapperTypes, Queue, PoolTypes, Outcome, Fields, RawState

\* A step from one label to another.
LEMMA GotoTypes ==
  ASSUME TaskTypes, NEW t \in Task, NEW label \in Label, Goto(t, label)
  PROVE  pc' \in [Task -> Label] /\ pc'[t] = label /\ \A x \in Task \ {t} : pc'[x] = pc[x]
BY DEF TaskTypes, Goto

\* Leaving the code of a task.
LEMMA UnwindTypes ==
  ASSUME TypeOK, UNCHANGED scenario, todo' \in [Task -> Nat], NEW t \in Task, Leaves(t)
  PROVE  /\ TaskTypes'
         /\ closing' \in [Wrapper -> {"no", "scheduled", "rollback"}]
         /\ pc'[t] \in {"closing", "done"} /\ \A x \in Task \ {t} : pc'[x] = pc[x]
<1>1. PICK how \in {"ok", "raised", "cancelled"} : Unwind(t, how)
  BY DEF Leaves
<1>2. TaskTypes /\ WrapperTypes /\ scenario \in Scenarios
  BY TypeParts
<1>3. ClosedOnExit(t) \in Wrapper \union {None}
  <2>1. Kind(t) \in {"request", "plain", "independent", "temporary"} /\ Independent(t) \in Wrapper
    BY <1>2, TaskFacts, WrapperFacts DEF Wrappers
  <2> QED
    BY <1>2, <2>1 DEF ClosedOnExit, TaskTypes
<1>4. pc' \in [Task -> Label] /\ pc'[t] \in {"closing", "done"} /\ \A x \in Task \ {t} : pc'[x] = pc[x]
  BY <1>1, <1>2 DEF Unwind, Goto, TaskTypes, Label
<1>5. outcome' \in [Task -> Outcome] /\ cursor' \in [Task -> Raw \union {None}]
  BY <1>1, <1>2 DEF Unwind, TaskTypes, Outcome
<1>6. context' \in [Task -> Wrapper \union {None}]
  BY <1>1, <1>2 DEF Unwind, TaskTypes
<1>7. closing' \in [Wrapper -> {"no", "scheduled", "rollback"}]
  BY <1>1, <1>2, <1>3 DEF Unwind, WrapperTypes
<1>8. Task' = Task /\ Wrapper' = Wrapper /\ Raw' = Raw /\ Label' = Label /\ None' = None /\ Outcome' = Outcome
  BY SameProgram DEF Label, None, Outcome
<1> QED
  BY <1>2, <1>4, <1>5, <1>6, <1>7, <1>8 DEF TaskTypes, Leaves

\* The queue as tasks neither enter nor leave it.
LEMMA QueueSame ==
  ASSUME Queue, UNCHANGED <<scenario, waiting>>,
         \A x \in Task : pc'[x] = "waiting" <=> pc[x] = "waiting"
  PROVE  Queue'
BY SameProgram DEF Queue

\* A task that is told to wait is the last one.
LEMMA QueueEntered ==
  ASSUME Queue, UNCHANGED scenario, NEW t \in Task, pc[t] # "waiting", pc'[t] = "waiting",
         \A x \in Task \ {t} : pc'[x] = pc[x], waiting' = Append(waiting, t)
  PROVE  Queue'
<1>1. waiting \in Seq(Task) /\ IsInjective(waiting) /\ DOMAIN waiting = 1 .. Len(waiting)
  BY LenProperties DEF Queue
<1>2. waiting' \in Seq(Task) /\ Len(waiting') = Len(waiting) + 1 /\ DOMAIN waiting' = 1 .. Len(waiting')
  BY <1>1
<1>3. \A i \in 1 .. Len(waiting') : waiting'[i] = IF i <= Len(waiting) THEN waiting[i] ELSE t
  BY <1>1
<1>4. t \notin ToSet(waiting) /\ \A i \in 1 .. Len(waiting) : waiting[i] # t
  BY <1>1 DEF Queue, ToSet
<1>5. IsInjective(waiting')
  BY <1>1, <1>2, <1>3, <1>4 DEF IsInjective
<1>6. ToSet(waiting') = ToSet(waiting) \union {t}
  <2>1. Len(waiting') \in 1 .. Len(waiting') /\ waiting'[Len(waiting')] = t
    BY <1>1, <1>2, <1>3
  <2> QED
    BY <1>1, <1>2, <1>3, <2>1 DEF ToSet
<1>7. \A x \in Task : pc'[x] = "waiting" <=> x \in ToSet(waiting')
  BY <1>4, <1>6 DEF Queue
<1> QED
  BY <1>2, <1>5, <1>7, SameProgram DEF Queue

\* Whoever leaves the queue, from any place.
LEMMA QueueLeft ==
  ASSUME Queue, UNCHANGED scenario, NEW i \in DOMAIN waiting, pc'[waiting[i]] # "waiting",
         \A x \in Task \ {waiting[i]} : pc'[x] = pc[x], waiting' = RemoveAt(waiting, i)
  PROVE  Queue'
<1>1. waiting \in Seq(Task) /\ IsInjective(waiting) /\ DOMAIN waiting = 1 .. Len(waiting)
      /\ Len(waiting) \in Nat
  BY LenProperties DEF Queue
<1>2. i \in 1 .. Len(waiting) /\ i - 1 \in 0 .. Len(waiting) /\ i + 1 \in Int /\ i - 1 \in Int
  BY <1>1
<1> DEFINE first == SubSeq(waiting, 1, i - 1)
           last == SubSeq(waiting, i + 1, Len(waiting))
<1>3. /\ first \in Seq(Task) /\ Len(first) = i - 1
      /\ \A j \in 1 .. i - 1 : first[j] = waiting[j]
  <2>1. \A j \in 1 .. i - 1 : waiting[j] \in Task
    BY <1>1, <1>2
  <2> QED
    BY <1>1, <1>2, <2>1, SubSeqProperties
<1>4. /\ last \in Seq(Task) /\ Len(last) = Len(waiting) - i
      /\ \A j \in 1 .. Len(waiting) - i : last[j] = waiting[j + i]
  <2>1. \A j \in i + 1 .. Len(waiting) : waiting[j] \in Task
    BY <1>1, <1>2
  <2> QED
    BY <1>1, <1>2, <2>1, SubSeqProperties
<1>5. waiting' = first \o last
  BY DEF RemoveAt
<1> HIDE DEF first, last
<1>6. /\ waiting' \in Seq(Task) /\ Len(waiting') = Len(waiting) - 1
      /\ DOMAIN waiting' = 1 .. Len(waiting) - 1
      /\ \A j \in 1 .. Len(waiting) - 1 : waiting'[j] = IF j < i THEN waiting[j] ELSE waiting[j + 1]
  <2>1. /\ waiting' \in Seq(Task) /\ Len(waiting') = Len(first) + Len(last)
        /\ \A j \in 1 .. Len(first) + Len(last) :
             waiting'[j] = IF j <= Len(first) THEN first[j] ELSE last[j - Len(first)]
    BY <1>3, <1>4, <1>5, ConcatProperties
  <2>2. Len(waiting') = Len(waiting) - 1
    BY <1>1, <1>2, <1>3, <1>4, <2>1
  <2>3. DOMAIN waiting' = 1 .. Len(waiting) - 1
    BY <2>1, <2>2, LenProperties
  <2>4. ASSUME NEW j \in 1 .. Len(waiting) - 1
        PROVE  waiting'[j] = IF j < i THEN waiting[j] ELSE waiting[j + 1]
    <3>1. waiting'[j] = IF j <= i - 1 THEN first[j] ELSE last[j - (i - 1)]
      BY <1>1, <1>2, <1>3, <1>4, <2>1
    <3>2. CASE j < i
      BY <1>1, <1>2, <1>3, <3>1, <3>2
    <3>3. CASE ~(j < i)
      <4>1. j - (i - 1) \in 1 .. Len(waiting) - i /\ (j - (i - 1)) + i = j + 1
        BY <1>1, <1>2, <3>3
      <4> QED
        BY <1>1, <1>2, <1>4, <3>1, <3>3, <4>1
    <3> QED
      BY <3>2, <3>3
  <2> QED
    BY <2>1, <2>2, <2>3, <2>4
<1>7. IsInjective(waiting')
  <2>1. SUFFICES ASSUME NEW a \in 1 .. Len(waiting) - 1, NEW b \in 1 .. Len(waiting) - 1,
                        waiting'[a] = waiting'[b]
                 PROVE  a = b
    BY <1>6 DEF IsInjective
  <2>2. PICK k \in 1 .. Len(waiting) : k = (IF a < i THEN a ELSE a + 1) /\ waiting[k] = waiting'[a]
    BY <1>1, <1>2, <1>6
  <2>3. PICK l \in 1 .. Len(waiting) : l = (IF b < i THEN b ELSE b + 1) /\ waiting[l] = waiting'[b]
    BY <1>1, <1>2, <1>6
  <2>4. k = l
    BY <1>1, <2>1, <2>2, <2>3 DEF IsInjective
  <2> QED
    BY <1>1, <1>2, <2>2, <2>3, <2>4
<1>8. \A x : x \in ToSet(waiting') <=> x \in ToSet(waiting) /\ x # waiting[i]
  <2>1. ASSUME NEW x \in ToSet(waiting')
        PROVE  x \in ToSet(waiting) /\ x # waiting[i]
    <3>1. PICK j \in 1 .. Len(waiting) - 1 : x = waiting'[j]
      BY <1>6, <2>1 DEF ToSet
    <3>2. PICK k \in 1 .. Len(waiting) : x = waiting[k] /\ k # i
      BY <1>1, <1>2, <1>6, <3>1
    <3> QED
      BY <1>1, <1>2, <3>2 DEF ToSet, IsInjective
  <2>2. ASSUME NEW x \in ToSet(waiting), x # waiting[i]
        PROVE  x \in ToSet(waiting')
    <3>1. PICK k \in 1 .. Len(waiting) : x = waiting[k] /\ k # i
      BY <1>1, <2>2 DEF ToSet
    <3>2. PICK j \in 1 .. Len(waiting) - 1 : j = IF k < i THEN k ELSE k - 1
      BY <1>1, <1>2, <3>1
    <3>3. waiting'[j] = x
      BY <1>1, <1>2, <1>6, <3>1, <3>2
    <3> QED
      BY <1>6, <3>3 DEF ToSet
  <2> QED
    BY <2>1, <2>2
<1>9. \A x \in Task : pc'[x] = "waiting" <=> x \in ToSet(waiting')
  BY <1>8 DEF Queue
<1> QED
  BY <1>6, <1>7, <1>9, SameProgram DEF Queue

\* The first one is served.
LEMMA QueueServed ==
  ASSUME Queue, UNCHANGED scenario, waiting # <<>>, pc'[Head(waiting)] # "waiting",
         \A x \in Task \ {Head(waiting)} : pc'[x] = pc[x], waiting' = Tail(waiting)
  PROVE  Queue'
<1>1. waiting \in Seq(Task) /\ DOMAIN waiting = 1 .. Len(waiting) /\ Len(waiting) \in Nat \ {0}
  BY LenProperties, EmptySeq DEF Queue
<1>2. 1 \in DOMAIN waiting /\ Head(waiting) = waiting[1]
  BY <1>1
<1>3. Tail(waiting) = RemoveAt(waiting, 1)
  <2>1. Tail(waiting) = SubSeq(waiting, 2, Len(waiting))
    BY <1>1, TailIsSubSeq
  <2>2. SubSeq(waiting, 1, 1 - 1) = <<>>
    BY SubSeqEmpty
  <2>3. 1 + 1 = 2 /\ SubSeq(waiting, 1 + 1, Len(waiting)) \in Seq(Task)
    BY <1>1, <2>1, HeadTailProperties
  <2> QED
    BY <2>1, <2>2, <2>3, ConcatEmptySeq DEF RemoveAt
<1> QED
  BY <1>2, <1>3, QueueLeft

\* The same, for the state that a step leads to.
LEMMA TypePartsNext ==
  ASSUME scenario' \in Scenarios, TaskTypes', WrapperTypes', Queue', PoolTypes'
  PROVE  TypeOK'
BY DEF TypeOK, TaskTypes, WrapperTypes, Queue, PoolTypes, Outcome, Fields, RawState

\* The sets that depend on the scenario alone, with the primes taken away.
LEMMA SameSets ==
  ASSUME UNCHANGED scenario
  PROVE  /\ Fields' = Fields /\ RawState' = RawState /\ Outcome' = Outcome /\ Label' = Label
         /\ None' = None
BY SameProgram DEF Fields, RawState, Outcome, Label, None

\* The kinds of the variables after a step, those of the tasks,
LEMMA TaskTypesNext ==
  ASSUME UNCHANGED scenario,
         pc' \in [Task -> Label], outcome' \in [Task -> Outcome], todo' \in [Task -> Nat],
         context' \in [Task -> Wrapper \union {None}], kept' \in [Task -> Wrapper \union {None}],
         cursor' \in [Task -> Raw \union {None}]
  PROVE  TaskTypes'
BY SameProgram, SameSets DEF TaskTypes

\* those of the wrappers,
LEMMA WrapperTypesNext ==
  ASSUME UNCHANGED scenario,
         closing' \in [Wrapper -> {"no", "scheduled", "rollback"}],
         wrapper' \in [Wrapper -> Fields], epoch' \in [Wrapper -> 0 .. scenario.recycles]
  PROVE  WrapperTypes'
BY SameProgram, SameSets DEF WrapperTypes

\* and those of the pool.
LEMMA PoolTypesNext ==
  ASSUME UNCHANGED scenario, raw' \in [Raw -> RawState],
         idle' \subseteq Raw, \A c \in idle' : raw'[c].out = None /\ ~raw'[c].pending
  PROVE  PoolTypes'
BY SameProgram, SameSets DEF PoolTypes

\* The wrapper that acursor() works on.
Mine(t) == IF context[t] = None THEN Own(t) ELSE context[t]

\* No other task works on the wrapper of a task, and nobody closes it.
LEMMA Exclusive ==
  ASSUME TypeOK, Ownership, Closers, NEW t \in Task, Active(t)
  PROVE  /\ Mine(t) \in Wrapper
         /\ \A u \in Task : Active(u) /\ context[u] = Mine(t) => u = t
         /\ \A u \in Task : pc[u] = "closing" => Awaited(u) # Mine(t)
         /\ closing[Mine(t)] = "no"
<1>1. scenario \in Scenarios
  BY DEF TypeOK
<1>2. Held(t) = context[t] /\ \A u \in Task : Active(u) => Held(u) = context[u]
  BY DEF Held, Active, Live
<1>3. Own(t) \in Wrappers(t) /\ Own(t) # None /\ Own(t) \in Wrapper
  BY <1>1, WrapperFacts DEF Wrappers
<1>4. Mine(t) \in Wrapper /\ Mine(t) # None
  BY <1>1, <1>3, WrapperFacts DEF Mine, TypeOK
<1>5. ASSUME NEW u \in Task, u # t, Held(u) = Mine(t)
      PROVE  pc[u] = "gathering"
  <2>1. CASE context[t] = None
    <3>1. Held(t) = Held(u)
      BY <1>3, <1>5, <2>1 DEF Ownership, HeldByCreator, Mine
    <3> QED
      BY <1>2, <1>4, <1>5, <2>1, <3>1
  <2>2. CASE context[t] # None
    <3>1. Held(t) = Held(u) /\ Held(t) # None /\ pc[t] # "gathering"
      BY <1>2, <1>5, <2>2 DEF Mine, Active
    <3>2. t < u \/ u < t
      BY <1>1, <1>5, TaskFacts
    <3> QED
      BY <3>1, <3>2 DEF Ownership, HeldInTurn, Lends
  <2> QED
    BY <2>1, <2>2
<1>6. \A u \in Task : Active(u) /\ context[u] = Mine(t) => u = t
  BY <1>2, <1>5 DEF Active
<1>7. \A u \in Task : pc[u] = "closing" => Awaited(u) # Mine(t)
  <2>1. \A u \in Task : pc[u] = "closing" => u # t /\ Held(u) = Awaited(u)
    BY DEF Held, Active, Live
  <2> QED
    BY <1>5, <2>1
<1>8. closing[Mine(t)] = "no"
  <2>1. SUFFICES ASSUME NEW u \in Task, Kind(u) = "request", pc[u] = "done", Own(u) = Mine(t)
                 PROVE  FALSE
    BY <1>4, <1>7 DEF Closers
  <2>2. Held(u) = None /\ u # t
    BY <2>1 DEF Held, Live, Active
  <2>3. Mine(t) \in Wrappers(u)
    BY <2>1 DEF Wrappers
  <2>4. CASE context[t] = None
    BY <1>1, <1>3, <2>2, <2>3, <2>4, WrapperFacts DEF Mine
  <2>5. CASE context[t] # None
    <3>1. Held(u) = Held(t)
      BY <1>2, <2>3, <2>5 DEF Mine, Ownership, HeldByCreator
    <3> QED
      BY <1>2, <2>2, <2>5, <3>1
  <2> QED
    BY <2>4, <2>5
<1> QED
  BY <1>4, <1>6, <1>7, <1>8

\* The same of what a task closes.
LEMMA ClosingExclusive ==
  ASSUME TypeOK, Ownership, NEW t \in Task, pc[t] = "closing"
  PROVE  /\ Awaited(t) \in Wrapper
         /\ \A u \in Task : Active(u) => context[u] # Awaited(t)
         /\ \A u \in Task : pc[u] = "closing" /\ Awaited(u) = Awaited(t) => u = t
<1>1. scenario \in Scenarios
  BY DEF TypeOK
<1>2. Held(t) = Awaited(t) /\ Held(t) # None /\ Held(t) \in Wrapper
  <2>1. ByKind(t)
    BY DEF Ownership
  <2> QED
    BY <2>1, HeldFacts
<1>3. ASSUME NEW u \in Task, u # t, Held(u) = Held(t)
      PROVE  pc[u] = "gathering"
  <2>1. t < u \/ u < t
    BY <1>1, <1>3, TaskFacts
  <2> QED
    BY <1>2, <1>3, <2>1 DEF Ownership, HeldInTurn, Lends
<1>4. \A u \in Task : Active(u) => Held(u) = context[u] /\ u # t /\ pc[u] # "gathering"
  BY DEF Held, Active, Live
<1>5. \A u \in Task : pc[u] = "closing" => Held(u) = Awaited(u)
  BY DEF Held
<1> QED
  BY <1>2, <1>3, <1>4, <1>5

-----------------------------------------------------------------------------
(* What a step of acursor() and of a recycling does to the wrappers and the *)
(* connections.                                                            *)

Core == TypeOK /\ Ownership /\ Closers /\ Holding

\* Only the wrapper w changes, and connections that are its own or nobody's.
Touches(w) ==
  /\ wrapper' \in [Wrapper -> Fields] /\ raw' \in [Raw -> RawState]
  /\ epoch' \in [Wrapper -> 0 .. scenario.recycles]
  /\ \A x \in Wrapper \ {w} : wrapper'[x] = wrapper[x] /\ epoch'[x] = epoch[x]
  /\ \A c \in Raw : raw'[c] # raw[c] => raw[c].out \in {None, w}
  /\ idle' \subseteq idle /\ \A c \in idle' : raw'[c] = raw[c]

\* It keeps its connection, gets one, or gives it up.
Keeps(w) ==
  wrapper'[w].connection = wrapper[w].connection /\ \A c \in Raw : raw'[c].out = raw[c].out
Gets(w) ==
  LET c == wrapper'[w].connection IN
  /\ wrapper[w].connection = None /\ c # None /\ raw'[c].out = w
  /\ \A d \in Raw \ {c} : raw'[d] = raw[d]
GivesUp(w) ==
  LET c == wrapper[w].connection IN
  /\ wrapper'[w].connection = None /\ c # None /\ raw'[c].out = None
  /\ \A d \in Raw \ {c} : raw'[d] = raw[d]

\* What the types say of one task, one wrapper, one connection.
LEMMA TypeFacts ==
  ASSUME TypeOK
  PROVE  /\ scenario \in Scenarios /\ TaskTypes /\ WrapperTypes /\ Queue /\ PoolTypes
         /\ \A t \in Task : /\ context[t] \in Wrapper \union {None}
                            /\ kept[t] \in Wrapper \union {None}
                            /\ cursor[t] \in Raw \union {None}
         /\ \A w \in Wrapper : wrapper[w] \in Fields /\ wrapper[w].connection \in Raw \union {None}
         /\ \A c \in Raw : raw[c] \in RawState
         /\ None \notin Wrapper /\ None \notin Raw
BY TypeParts, WrapperFacts DEF TypeOK, Fields, RawState

\* A task at work in acursor() has a wrapper.
LEMMA WorksOn ==
  ASSUME Core, NEW t \in Task, Active(t), pc[t] # "body"
  PROVE  Mine(t) = context[t] /\ context[t] \in Wrapper /\ context[t] # None
BY TypeFacts DEF Core, Holding, AtPoint, Mine

\* A connection is opened for a wrapper that has none.
LEMMA OpenTouches ==
  ASSUME TypeOK, NEW w \in Wrapper, NEW c \in Raw, wrapper[w].connection = None, raw[c].out = None,
         raw' = [raw EXCEPT ![c] = OpenedFor(w)], wrapper' = [wrapper EXCEPT ![w].connection = c],
         UNCHANGED epoch, idle' \subseteq idle \ {c}
  PROVE  Touches(w) /\ Gets(w)
<1>1. OpenedFor(w) \in RawState /\ OpenedFor(w).out = w
  BY DEF OpenedFor, RawState
<1>2. raw' \in [Raw -> RawState] /\ raw'[c].out = w /\ \A d \in Raw \ {c} : raw'[d] = raw[d]
  BY <1>1, TypeFacts DEF PoolTypes
<1>3. /\ wrapper' \in [Wrapper -> Fields] /\ wrapper'[w].connection = c
      /\ \A x \in Wrapper \ {w} : wrapper'[x] = wrapper[x]
  BY TypeFacts DEF WrapperTypes, Fields
<1>4. epoch' \in [Wrapper -> 0 .. scenario.recycles] /\ idle \subseteq Raw
  BY TypeFacts DEF WrapperTypes, PoolTypes
<1>5. c # None
  BY TypeFacts
<1> QED
  BY <1>2, <1>3, <1>4, <1>5 DEF Touches, Gets

\* A wrapper keeps its connection, whatever becomes of its other fields.
LEMMA KeepTouches ==
  ASSUME TypeOK, NEW w \in Wrapper, NEW f \in Fields, f.connection = wrapper[w].connection,
         wrapper' = [wrapper EXCEPT ![w] = f], UNCHANGED <<raw, idle>>,
         epoch' \in [Wrapper -> 0 .. scenario.recycles],
         \A x \in Wrapper \ {w} : epoch'[x] = epoch[x]
  PROVE  Touches(w) /\ Keeps(w)
<1>1. /\ wrapper' \in [Wrapper -> Fields] /\ wrapper'[w] = f
      /\ \A x \in Wrapper \ {w} : wrapper'[x] = wrapper[x]
  BY TypeFacts DEF WrapperTypes
<1>2. raw \in [Raw -> RawState]
  BY TypeFacts DEF PoolTypes
<1> QED
  BY <1>1, <1>2 DEF Touches, Keeps

\* A step that leaves the wrappers and the connections alone.
LEMMA SameTouches ==
  ASSUME TypeOK, NEW w, UNCHANGED <<wrapper, raw, epoch, idle>>
  PROVE  Touches(w) /\ Keeps(w)
BY TypeFacts DEF Touches, Keeps, WrapperTypes, PoolTypes

\* A connection that is closed, or put back.
LEMMA ClosedFacts ==
  ASSUME PoolTypes, NEW c \in Raw, Closed(c)
  PROVE  /\ raw' \in [Raw -> RawState] /\ \A d \in Raw \ {c} : raw'[d] = raw[d]
         /\ raw'[c].out = None /\ ~raw'[c].alive /\ ~raw'[c].pending
         /\ raw'[c].lost = raw[c].lost /\ raw'[c].failed = raw[c].failed
<1>1. raw \in [Raw -> RawState] /\ raw[c] \in RawState
  BY DEF PoolTypes
<1> DEFINE r == [raw[c] EXCEPT !.out = None, !.alive = FALSE, !.pending = FALSE]
<1>2. r \in RawState
  BY <1>1 DEF RawState
<1>3. raw' = [raw EXCEPT ![c] = r]
  BY <1>1 DEF Closed, RawState
<1>4. /\ r.out = None /\ ~r.alive /\ ~r.pending /\ r.lost = raw[c].lost /\ r.failed = raw[c].failed
  BY <1>1 DEF RawState
<1> HIDE DEF r
<1>5. raw' \in [Raw -> RawState] /\ raw'[c] = r /\ \A d \in Raw \ {c} : raw'[d] = raw[d]
  BY <1>1, <1>2, <1>3
<1> QED
  BY <1>4, <1>5

\* A wrapper gives up its connection, which is closed.
LEMMA CloseTouches ==
  ASSUME TypeOK, NEW w \in Wrapper, NEW f \in Fields, f.connection = None,
         wrapper[w].connection # None, raw[wrapper[w].connection].out = w,
         wrapper' = [wrapper EXCEPT ![w] = f], Closed(wrapper[w].connection),
         epoch' \in [Wrapper -> 0 .. scenario.recycles],
         \A x \in Wrapper \ {w} : epoch'[x] = epoch[x], UNCHANGED idle
  PROVE  Touches(w) /\ GivesUp(w)
<1> DEFINE c == wrapper[w].connection
<1>1. c \in Raw
  BY TypeFacts
<1>2. /\ wrapper' \in [Wrapper -> Fields] /\ wrapper'[w] = f
      /\ \A x \in Wrapper \ {w} : wrapper'[x] = wrapper[x]
  BY TypeFacts DEF WrapperTypes
<1>3. raw' \in [Raw -> RawState] /\ raw'[c].out = None /\ \A d \in Raw \ {c} : raw'[d] = raw[d]
  BY <1>1, TypeFacts, ClosedFacts
<1>4. \A d \in idle : d \in Raw /\ d # c
  BY TypeFacts DEF PoolTypes
<1> QED
  BY <1>1, <1>2, <1>3, <1>4 DEF Touches, GivesUp

\* The connection that a wrapper holds changes otherwise.
LEMMA ChangeTouches ==
  ASSUME TypeOK, NEW w \in Wrapper, NEW f \in Fields, f.connection = wrapper[w].connection,
         NEW c \in Raw, raw[c].out = w, NEW r \in RawState, r.out = w,
         wrapper' = [wrapper EXCEPT ![w] = f], raw' = [raw EXCEPT ![c] = r], UNCHANGED <<epoch, idle>>
  PROVE  Touches(w) /\ Keeps(w)
<1>1. /\ wrapper' \in [Wrapper -> Fields] /\ wrapper'[w] = f
      /\ \A x \in Wrapper \ {w} : wrapper'[x] = wrapper[x]
  BY TypeFacts DEF WrapperTypes
<1>2. raw' \in [Raw -> RawState] /\ raw'[c] = r /\ \A d \in Raw \ {c} : raw'[d] = raw[d]
  BY TypeFacts DEF PoolTypes
<1>3. \A d \in idle : d \in Raw /\ d # c
  BY TypeFacts DEF PoolTypes
<1>4. epoch' \in [Wrapper -> 0 .. scenario.recycles]
  BY TypeFacts DEF WrapperTypes
<1> QED
  BY <1>1, <1>2, <1>3, <1>4 DEF Touches, Keeps

\* aensure_connection() keeps a connection, or waits for one.
LEMMA EnsureTouches ==
  ASSUME TypeOK, NEW t \in Task, NEW w \in Wrapper, NEW f \in Fields,
         f.connection = wrapper[w].connection, Ensure(t, w, f), UNCHANGED <<raw, epoch, idle>>
  PROVE  Touches(w) /\ Keeps(w)
<1>1. \E g \in Fields : g.connection = f.connection /\ wrapper' = [wrapper EXCEPT ![w] = g]
  <2>1. CASE f.connection # None
    BY <2>1 DEF Ensure
  <2>2. CASE f.connection = None
    <3>1. [Fresh EXCEPT !.health_check_done = TRUE] \in Fields
      BY DEF Fresh, Fields
    <3> QED
      BY <2>2, <3>1 DEF Ensure, Fresh
  <2> QED
    BY <2>1, <2>2
<1>2. epoch \in [Wrapper -> 0 .. scenario.recycles]
  BY TypeFacts DEF WrapperTypes
<1> QED
  BY <1>1, <1>2, KeepTouches

\* acursor() starts.
LEMMA ACursorTouches ==
  ASSUME Core, NEW t \in Task, ACursor(t)
  PROVE  Touches(Mine(t)) /\ Keeps(Mine(t))
<1>1. Active(t) /\ Mine(t) \in Wrapper
  BY Exclusive DEF Core, ACursor, Active, Live
<1>2. wrapper[Mine(t)] \in Fields
  BY <1>1, TypeFacts DEF Core
<1>3. CASE UNCHANGED wrapper
  BY <1>3, SameTouches DEF ACursor, pool, Core
<1>4. CASE Ensure(t, Mine(t), wrapper[Mine(t)])
  BY <1>1, <1>2, <1>4, EnsureTouches DEF ACursor, pool, Core
<1> QED
  BY <1>3, <1>4 DEF ACursor, Mine

\* A wrapper drops a connection that fails its check.
LEMMA HealthCheckedTouches ==
  ASSUME Core, NEW t \in Task, HealthChecked(t)
  PROVE  Touches(Mine(t)) /\ (Keeps(Mine(t)) \/ GivesUp(Mine(t)))
<1> DEFINE w == context[t]
           c == wrapper[w].connection
           usable == c # None /\ raw[c].alive
           f == [wrapper[w] EXCEPT !.connection = IF usable THEN c ELSE None,
                                   !.health_check_done = TRUE]
<1>1. Mine(t) = w /\ w \in Wrapper
  BY WorksOn DEF HealthChecked, Active, Live
<1>2. wrapper[w] \in Fields /\ c \in Raw \union {None}
  BY <1>1, TypeFacts DEF Core
<1>3. f \in Fields /\ f.connection = IF usable THEN c ELSE None
  BY <1>2 DEF Fields
<1>4. Ensure(t, w, f) /\ UNCHANGED <<epoch, idle>>
      /\ IF c # None /\ ~usable THEN Closed(c) ELSE UNCHANGED raw
  BY DEF HealthChecked
<1>5. epoch \in [Wrapper -> 0 .. scenario.recycles]
  BY TypeFacts DEF Core, WrapperTypes
<1> HIDE DEF f
<1>6. CASE c # None /\ ~usable
  <2>1. wrapper' = [wrapper EXCEPT ![w] = [Fresh EXCEPT !.health_check_done = TRUE]]
    BY <1>3, <1>4, <1>6 DEF Ensure
  <2>2. [Fresh EXCEPT !.health_check_done = TRUE] \in Fields
        /\ [Fresh EXCEPT !.health_check_done = TRUE].connection = None
    BY DEF Fresh, Fields
  <2>3. raw[c].out = w
    BY <1>1, <1>6 DEF Core, Holding
  <2> QED
    BY <1>1, <1>4, <1>5, <1>6, <2>1, <2>2, <2>3, CloseTouches DEF Core
<1>7. CASE ~(c # None /\ ~usable)
  <2>1. f.connection = wrapper[w].connection
    BY <1>3, <1>7
  <2> QED
    BY <1>1, <1>3, <1>4, <1>7, <2>1, EnsureTouches DEF Core
<1> QED
  BY <1>6, <1>7

\* getconn() hands out a connection that is nobody's.
LEMMA GetConnTouches ==
  ASSUME Core, NEW t \in Task, GetConn(t)
  PROVE  Touches(Mine(t)) /\ (Keeps(Mine(t)) \/ Gets(Mine(t)))
<1>1. Mine(t) = context[t] /\ context[t] \in Wrapper
  BY WorksOn DEF GetConn, Active, Live
<1>2. CASE idle \union Unused = {}
  BY <1>2, SameTouches DEF GetConn, Core
<1>3. CASE idle \union Unused # {}
  <2>1. PICK c \in Raw : /\ IF idle # {} THEN c \in idle ELSE New(c)
                         /\ raw' = [raw EXCEPT ![c] = OpenedFor(context[t])] /\ idle' = idle \ {c}
                         /\ Take(t, c)
    BY <1>3 DEF GetConn
  <2>2. raw[c].out = None
    BY <2>1, TypeFacts DEF New, Unused, PoolTypes, Core
  <2>3. wrapper[context[t]].connection = None
    BY DEF GetConn, Core, Holding, AtPoint
  <2> QED
    BY <1>1, <2>1, <2>2, <2>3, OpenTouches DEF Take, GetConn, Core
<1> QED
  BY <1>2, <1>3

\* The connection that was put aside for a task reaches its wrapper.
LEMMA GrantedTouches ==
  ASSUME Core, NEW t \in Task, Granted(t)
  PROVE  Touches(Mine(t)) /\ Gets(Mine(t))
<1> DEFINE w == context[t]
           c == cursor[t]
<1>1. Mine(t) = w /\ w \in Wrapper
  BY WorksOn DEF Granted, Active, Live
<1>2. c # None /\ c \in Raw /\ raw[c].out = w /\ wrapper[w].connection = None
  BY TypeFacts DEF Granted, Core, Holding, AtPoint
<1>3. /\ wrapper' \in [Wrapper -> Fields] /\ wrapper'[w].connection = c
      /\ \A x \in Wrapper \ {w} : wrapper'[x] = wrapper[x]
  BY <1>1, <1>2, TypeFacts DEF Granted, Take, WrapperTypes, Fields, Core
<1>4. raw' = raw /\ epoch' = epoch /\ idle' = idle
  BY DEF Granted, pool
<1> QED
  BY <1>1, <1>2, <1>3, <1>4, TypeFacts DEF Touches, Gets, Core, WrapperTypes, PoolTypes

\* A new connection is the wrapper's.
LEMMA DialTouches ==
  ASSUME Core, NEW t \in Task, Dial(t)
  PROVE  Touches(Mine(t)) /\ (Keeps(Mine(t)) \/ Gets(Mine(t)))
<1>1. Mine(t) = context[t] /\ context[t] \in Wrapper
  BY WorksOn DEF Dial, Active, Live
<1>2. CASE UNCHANGED <<wrapper, raw>>
  BY <1>2, SameTouches DEF Dial, Core
<1>3. ASSUME NEW c \in Raw, New(c), raw' = [raw EXCEPT ![c] = OpenedFor(context[t])],
             wrapper' = [wrapper EXCEPT ![context[t]].connection = c]
      PROVE  Touches(Mine(t)) /\ Gets(Mine(t))
  <2>1. raw[c].out = None /\ idle' \subseteq idle \ {c}
    BY <1>3 DEF New, Unused, Dial
  <2>2. wrapper[context[t]].connection = None
    BY DEF Dial, Core, Holding, AtPoint
  <2> QED
    BY <1>1, <1>3, <2>1, <2>2, OpenTouches DEF Dial, Core
<1> QED
  BY <1>2, <1>3 DEF Dial

\* A wrapper notes that its connection failed while it was configured.
LEMMA ConfiguredTouches ==
  ASSUME Core, NEW t \in Task, Configured(t)
  PROVE  Touches(Mine(t)) /\ Keeps(Mine(t))
<1> DEFINE w == context[t]
           c == wrapper[w].connection
           f == [wrapper[w] EXCEPT !.errors_occurred = c # None]
<1>1. Mine(t) = w /\ w \in Wrapper
  BY WorksOn DEF Configured, Active, Live
<1>2. wrapper[w] \in Fields /\ wrapper \in [Wrapper -> Fields]
  BY <1>1, TypeFacts DEF Core, WrapperTypes
<1>3. UNCHANGED <<raw, epoch, idle>> /\ epoch \in [Wrapper -> 0 .. scenario.recycles]
  BY TypeFacts DEF Configured, pool, Core, WrapperTypes
<1>4. CASE UNCHANGED wrapper
  BY <1>1, <1>3, <1>4, SameTouches DEF Core
<1>5. CASE wrapper' = [wrapper EXCEPT ![w].errors_occurred = c # None]
  <2>1. f \in Fields /\ f.connection = wrapper[w].connection
    BY <1>2 DEF Fields
  <2>2. wrapper' = [wrapper EXCEPT ![w] = f]
    BY <1>5
  <2> QED
    BY <1>1, <1>3, <2>1, <2>2, KeepTouches DEF Core
<1> QED
  BY <1>4, <1>5 DEF Configured

\* A statement leaves its connection with its wrapper.
LEMMA StatementTouches ==
  ASSUME Core, NEW t \in Task, Statement(t)
  PROVE  Touches(Mine(t)) /\ Keeps(Mine(t))
<1> DEFINE w == context[t]
           c == cursor[t]
<1>1. Mine(t) = w /\ w \in Wrapper
  BY WorksOn DEF Statement, Active, Live
<1>2. c # None /\ wrapper[w].connection = c
  BY DEF Statement, Core, Holding, AtPoint
<1>3. c \in Raw /\ raw[c] \in RawState /\ raw \in [Raw -> RawState]
  BY <1>1, <1>2, TypeFacts DEF Core, PoolTypes
<1>4. wrapper[w] \in Fields /\ wrapper \in [Wrapper -> Fields]
  BY <1>1, TypeFacts DEF Core, WrapperTypes
<1>5. raw[c].out = w
  BY <1>1, <1>2 DEF Core, Holding
<1>6. UNCHANGED <<epoch, idle>>
  BY DEF Statement
<1>7. CASE raw[c].alive
  <2> DEFINE r == [raw[c] EXCEPT !.pending = @ \/ scenario.manual]
  <2>1. scenario.manual \in BOOLEAN
    BY ScenarioAssumption, TypeFacts DEF Core
  <2>2. r \in RawState /\ r.out = w
    BY <1>3, <1>5, <2>1 DEF RawState
  <2>3. raw' = [raw EXCEPT ![c] = r]
    BY <1>7 DEF Statement
  <2>4. wrapper' = [wrapper EXCEPT ![w] = wrapper[w]]
    BY <1>4, <1>7 DEF Statement
  <2> HIDE DEF r
  <2> QED
    BY <1>1, <1>3, <1>4, <1>5, <1>6, <2>2, <2>3, <2>4, ChangeTouches DEF Core
<1>8. CASE ~raw[c].alive
  <2> DEFINE r == [raw[c] EXCEPT !.failed = IF @ = 0 THEN epoch[context[t]] + 1 ELSE @]
             f == [wrapper[w] EXCEPT !.errors_occurred = TRUE]
  <2>1. epoch[context[t]] \in Nat
    BY <1>1, TypeFacts, ScenarioAssumption DEF Core, WrapperTypes
  <2>2. r \in RawState /\ r.out = w
    BY <1>3, <1>5, <2>1 DEF RawState
  <2>3. f \in Fields /\ f.connection = wrapper[w].connection
    BY <1>4 DEF Fields
  <2>4. raw' = [raw EXCEPT ![c] = r]
    BY <1>8 DEF Statement
  <2>5. wrapper' = [wrapper EXCEPT ![w] = f]
    BY <1>8 DEF Statement
  <2> HIDE DEF r, f
  <2> QED
    BY <1>1, <1>3, <1>5, <1>6, <2>2, <2>3, <2>4, <2>5, ChangeTouches DEF Core
<1> QED
  BY <1>7, <1>8

\* The end of a recycling: the connection is kept or closed.
LEMMA RecycledTouches ==
  ASSUME Core, NEW t \in Task, NEW w \in Wrapper, NEW f \in Fields, NEW close \in BOOLEAN,
         wrapper[w].connection # None, f.connection = wrapper[w].connection,
         epoch[w] < scenario.recycles, Recycled(t, w, f, close), UNCHANGED idle
  PROVE  Touches(w) /\ (Keeps(w) \/ GivesUp(w))
<1>1. epoch \in [Wrapper -> 0 .. scenario.recycles] /\ scenario.recycles \in Nat
  BY TypeFacts, ScenarioAssumption DEF Core, WrapperTypes
<1>2. /\ epoch' \in [Wrapper -> 0 .. scenario.recycles]
      /\ \A x \in Wrapper \ {w} : epoch'[x] = epoch[x]
  BY <1>1 DEF Recycled
<1>3. CASE close
  <2>1. [f EXCEPT !.connection = None] \in Fields /\ [f EXCEPT !.connection = None].connection = None
    BY DEF Fields
  <2>2. wrapper' = [wrapper EXCEPT ![w] = [f EXCEPT !.connection = None]]
        /\ Closed(wrapper[w].connection)
    BY <1>3 DEF Recycled
  <2>3. raw[wrapper[w].connection].out = w
    BY DEF Core, Holding
  <2> QED
    BY <1>2, <2>1, <2>2, <2>3, CloseTouches DEF Core
<1>4. CASE ~close
  <2>1. [f EXCEPT !.connection = @] = f
    BY DEF Fields
  <2>2. wrapper' = [wrapper EXCEPT ![w] = f] /\ UNCHANGED raw
    BY <1>4, <2>1 DEF Recycled
  <2> QED
    BY <1>2, <2>2, KeepTouches DEF Core
<1> QED
  BY <1>3, <1>4

\* aclose_if_unusable_or_obsolete() starts.
LEMMA RecycleTouches ==
  ASSUME Core, NEW t \in Task, Recycle(t)
  PROVE  Touches(Mine(t)) /\ (Keeps(Mine(t)) \/ GivesUp(Mine(t)))
<1> DEFINE w == context[t]
           f == [wrapper[w] EXCEPT !.health_check_done = FALSE]
           manual == raw[f.connection].pending
<1>1. w # None /\ wrapper[w].connection # None /\ epoch[w] < scenario.recycles /\ UNCHANGED idle
  BY DEF Recycle
<1>2. w \in Wrapper /\ Mine(t) = w
  BY <1>1, TypeFacts DEF Core, Mine
<1>3. wrapper[w] \in Fields /\ wrapper[w].connection \in Raw
  BY <1>1, <1>2, TypeFacts DEF Core
<1>4. f \in Fields /\ f.connection = wrapper[w].connection
  BY <1>3 DEF Fields
<1>5. manual \in BOOLEAN /\ f.obsolete \in BOOLEAN
  BY <1>3, <1>4, TypeFacts DEF Core, RawState, Fields
<1>6. \/ wrapper' = [wrapper EXCEPT ![w] = f] /\ UNCHANGED <<raw, epoch>>
      \/ Recycled(t, w, f, manual \/ f.obsolete)
  BY DEF Recycle
<1>7. epoch \in [Wrapper -> 0 .. scenario.recycles]
  BY TypeFacts DEF Core, WrapperTypes
<1>8. (manual \/ f.obsolete) \in BOOLEAN
  BY <1>5
<1> HIDE DEF f
<1>9. CASE wrapper' = [wrapper EXCEPT ![w] = f] /\ UNCHANGED <<raw, epoch>>
  BY <1>1, <1>2, <1>4, <1>7, <1>9, KeepTouches DEF Core
<1>10. CASE Recycled(t, w, f, manual \/ f.obsolete)
  BY <1>1, <1>2, <1>4, <1>8, <1>10, RecycledTouches
<1> QED
  BY <1>6, <1>9, <1>10

\* It ends, once the connection has been checked.
LEMMA RecycleCheckedTouches ==
  ASSUME Core, NEW t \in Task, RecycleChecked(t)
  PROVE  Touches(Mine(t)) /\ (Keeps(Mine(t)) \/ GivesUp(Mine(t)))
<1> DEFINE w == context[t]
           f == [wrapper[w] EXCEPT !.errors_occurred = FALSE, !.health_check_done = TRUE]
<1>1. Mine(t) = w /\ w \in Wrapper
  BY WorksOn DEF RecycleChecked, Active, Live
<1>2. wrapper[w].connection # None /\ epoch[w] < scenario.recycles /\ UNCHANGED idle
  BY DEF RecycleChecked, Core, Holding, AtPoint
<1>3. wrapper[w] \in Fields
  BY <1>1, TypeFacts DEF Core
<1>4. f \in Fields /\ f.connection = wrapper[w].connection /\ wrapper[w].obsolete \in BOOLEAN
  BY <1>3 DEF Fields
<1>5. Recycled(t, w, f, wrapper[w].obsolete) \/ Recycled(t, w, wrapper[w], TRUE)
  BY DEF RecycleChecked
<1> HIDE DEF f
<1>6. CASE Recycled(t, w, f, wrapper[w].obsolete)
  BY <1>1, <1>2, <1>4, <1>6, RecycledTouches
<1>7. CASE Recycled(t, w, wrapper[w], TRUE)
  BY <1>1, <1>2, <1>3, <1>7, RecycledTouches
<1> QED
  BY <1>5, <1>6, <1>7

\* Every step of acursor() and of a recycling is one of these.
LEMMA WorkTouches ==
  ASSUME Core, NEW t \in Task, Works(t)
  PROVE  /\ Active(t) /\ Touches(Mine(t))
         /\ Keeps(Mine(t)) \/ Gets(Mine(t)) \/ GivesUp(Mine(t))
         /\ \A u \in Task \ {t} : pc'[u] = pc[u] /\ context'[u] = context[u] /\ cursor'[u] = cursor[u]
<1>1. Active(t)
  BY DEF Works, ACursor, HealthChecked, GetConn, Granted, Dial, Configured, Statement, Recycle,
         RecycleChecked, Active, Live
<1>2. Touches(Mine(t)) /\ (Keeps(Mine(t)) \/ Gets(Mine(t)) \/ GivesUp(Mine(t)))
  BY ACursorTouches, HealthCheckedTouches, GetConnTouches, GrantedTouches, DialTouches,
     ConfiguredTouches, StatementTouches, RecycleTouches, RecycleCheckedTouches DEF Works
<1>3. TaskTypes
  BY TypeFacts DEF Core
<1>4. \A u \in Task \ {t} : pc'[u] = pc[u] /\ context'[u] = context[u] /\ cursor'[u] = cursor[u]
  <2>1. CASE ACursor(t) \/ HealthChecked(t) \/ GetConn(t) \/ Granted(t)
    BY <1>3, <2>1 DEF ACursor, HealthChecked, GetConn, Granted, Ensure, Take, Goto, TaskTypes
  <2>2. CASE Dial(t) \/ Configured(t) \/ Statement(t)
    BY <1>3, <2>2 DEF Dial, Configured, Statement, Unwind, Goto, TaskTypes
  <2>3. CASE Recycle(t) \/ RecycleChecked(t)
    BY <1>3, <2>3 DEF Recycle, RecycleChecked, Recycled, Goto, TaskTypes
  <2> QED
    BY <2>1, <2>2, <2>3 DEF Works
<1> QED
  BY <1>1, <1>2, <1>4

-----------------------------------------------------------------------------
(* The types are kept.                                                     *)

\* A task that goes from one label to another.
LEMMA GotoTaskTypes ==
  ASSUME TaskTypes, UNCHANGED <<scenario, outcome, kept>>, NEW t \in Task, NEW label \in Label,
         Goto(t, label), todo' \in [Task -> Nat], context' \in [Task -> Wrapper \union {None}],
         cursor' \in [Task -> Raw \union {None}]
  PROVE  TaskTypes'
<1>1. pc' \in [Task -> Label] /\ outcome' \in [Task -> Outcome]
      /\ kept' \in [Task -> Wrapper \union {None}]
  BY GotoTypes DEF TaskTypes
<1> QED
  BY <1>1, TaskTypesNext

\* Where a step of acursor() takes its task, and with which cursor.
LEMMA WorkGoes ==
  ASSUME Core, UNCHANGED scenario, NEW t \in Task, Works(t)
  PROVE  \/ Leaves(t) /\ todo' \in [Task -> Nat]
         \/ /\ \E label \in Label : Goto(t, label)
            /\ UNCHANGED <<outcome, kept, closing>> /\ todo' \in [Task -> Nat]
            /\ context' = [context EXCEPT ![t] = Mine(t)]
            /\ cursor' \in [Task -> Raw \union {None}]
<1>1. todo \in [Task -> Nat] /\ context \in [Task -> Wrapper \union {None}]
      /\ cursor \in [Task -> Raw \union {None}] /\ pc \in [Task -> Label]
  BY TypeFacts DEF Core, TaskTypes
<1>2. Active(t) /\ Mine(t) \in Wrapper
  BY WorkTouches, Exclusive DEF Core
<1>3. \A w \in Wrapper : wrapper[w].connection \in Raw \union {None}
  BY TypeFacts DEF Core
<1>4. pc[t] # "body" => Mine(t) = context[t] /\ context = [context EXCEPT ![t] = Mine(t)]
  BY <1>1, <1>2, WorksOn
<1>5. {"body", "checking", "connecting", "waiting", "configuring", "statement", "recycling"} \subseteq Label
  BY DEF Label
<1>6. CASE ACursor(t)
  <2>1. context' = [context EXCEPT ![t] = Mine(t)] /\ UNCHANGED <<outcome, kept, closing, todo>>
    BY <1>6 DEF ACursor, Mine
  <2>2. (\E label \in Label : Goto(t, label)) /\ cursor' \in [Task -> Raw \union {None}]
    BY <1>1, <1>2, <1>3, <1>5, <1>6 DEF ACursor, Ensure, Mine
  <2> QED
    BY <1>1, <2>1, <2>2
<1>7. CASE HealthChecked(t)
  <2> DEFINE c == wrapper[context[t]].connection
             usable == c # None /\ raw[c].alive
             f == [wrapper[context[t]] EXCEPT !.connection = IF usable THEN c ELSE None,
                                              !.health_check_done = TRUE]
  <2>1. Mine(t) = context[t] /\ context' = [context EXCEPT ![t] = Mine(t)]
        /\ UNCHANGED <<outcome, kept, closing, todo>>
    BY <1>4, <1>7 DEF HealthChecked
  <2>2. wrapper[context[t]] \in Fields /\ c \in Raw \union {None}
    BY <1>2, <2>1, TypeFacts DEF Core
  <2>3. f.connection \in Raw \union {None}
    BY <2>2 DEF Fields
  <2>4. Ensure(t, context[t], f)
    BY <1>7 DEF HealthChecked
  <2> HIDE DEF f
  <2>5. (\E label \in Label : Goto(t, label)) /\ cursor' \in [Task -> Raw \union {None}]
    BY <1>1, <1>5, <2>3, <2>4 DEF Ensure
  <2> QED
    BY <1>1, <2>1, <2>5
<1>8. CASE GetConn(t) \/ Granted(t)
  <2>1. context' = [context EXCEPT ![t] = Mine(t)] /\ UNCHANGED <<outcome, kept, closing, todo>>
    BY <1>4, <1>8 DEF GetConn, Granted
  <2>2. (\E label \in Label : Goto(t, label)) /\ cursor' \in [Task -> Raw \union {None}]
    BY <1>1, <1>5, <1>8 DEF GetConn, Granted, Take
  <2> QED
    BY <1>1, <2>1, <2>2
<1>9. CASE (Dial(t) \/ Configured(t)) /\ ~Leaves(t)
  <2>1. ~Unwind(t, "raised")
    BY <1>9 DEF Dial, Configured, Leaves, Live
  <2>2. context' = [context EXCEPT ![t] = Mine(t)] /\ UNCHANGED <<outcome, kept, closing, todo>>
    BY <1>4, <1>9, <2>1 DEF Dial, Configured
  <2>3. Mine(t) = context[t] /\ wrapper[context[t]].connection \in Raw \union {None}
    BY <1>2, <1>3, <1>4, <1>9 DEF Dial, Configured
  <2>4. (\E label \in Label : Goto(t, label)) /\ cursor' \in [Task -> Raw \union {None}]
    BY <1>1, <1>5, <1>9, <2>1, <2>3 DEF Dial, Configured
  <2> QED
    BY <1>1, <2>2, <2>4
<1>10. CASE Statement(t)
  <2>1. todo' \in [Task -> Nat]
    BY <1>1, <1>10 DEF Statement
  <2>2. CASE Unwind(t, "raised")
    BY <1>10, <2>1, <2>2 DEF Statement, Leaves, Live
  <2>3. CASE ~Unwind(t, "raised")
    <3>1. context' = [context EXCEPT ![t] = Mine(t)] /\ UNCHANGED <<outcome, kept, closing>>
      BY <1>4, <1>10, <2>3 DEF Statement
    <3>2. pc = [pc EXCEPT ![t] = pc[t]] /\ pc[t] \in Label
      BY <1>1
    <3>3. (\E label \in Label : Goto(t, label)) /\ cursor' \in [Task -> Raw \union {None}]
      BY <1>1, <1>5, <1>10, <2>3, <3>2 DEF Statement, Goto
    <3> QED
      BY <2>1, <3>1, <3>3
  <2> QED
    BY <2>2, <2>3
<1>11. CASE Recycle(t) \/ RecycleChecked(t)
  <2>1. UNCHANGED <<outcome, kept, closing, todo, context, cursor>>
    BY <1>11 DEF Recycle, RecycleChecked
  <2>2. context[t] # None
    BY <1>11, WorksOn DEF Recycle, RecycleChecked, Active, Live
  <2>3. context' = [context EXCEPT ![t] = Mine(t)]
    BY <1>1, <2>1, <2>2 DEF Mine
  <2>4. \E label \in Label : Goto(t, label)
    BY <1>5, <1>11 DEF Recycle, RecycleChecked, Recycled
  <2> QED
    BY <1>1, <2>1, <2>3, <2>4
<1>12. CASE (Dial(t) \/ Configured(t)) /\ Leaves(t)
  BY <1>1, <1>12 DEF Dial, Configured
<1> QED
  BY <1>6, <1>7, <1>8, <1>9, <1>10, <1>11, <1>12 DEF Works

\* The tasks that are gathered have contexts of their kind.
LEMMA GatherTypes ==
  ASSUME TypeOK, Ownership, UNCHANGED scenario, NEW t \in Task, Gather(t)
  PROVE  TaskTypes'
<1> DEFINE born == {u \in Children(t) : pc[u] = "unborn"}
<1>1. TaskTypes /\ scenario \in Scenarios
  BY TypeFacts
<1>2. /\ \A x \in born : context'[x] \in Wrappers(x) \union {context[t]}
      /\ \A x \in born : kept'[x] \in {None, context[t]} \union Wrappers(x)
      /\ \A x \in Task \ born : context'[x] = context[x] /\ kept'[x] = kept[x]
  BY GatherFacts
<1>3. \A x \in Task : Wrappers(x) \subseteq Wrapper
  BY <1>1, WrapperFacts
<1>4. \A x \in Task : context'[x] \in Wrapper \union {None} /\ kept'[x] \in Wrapper \union {None}
  BY <1>1, <1>2, <1>3 DEF TaskTypes
<1>5. pc' \in [Task -> Label]
  BY <1>1 DEF Gather, TaskTypes, Label
<1>6. DOMAIN context' = Task /\ DOMAIN kept' = Task
      /\ context' = [x \in Task |-> context'[x]] /\ kept' = [x \in Task |-> kept'[x]]
  BY DEF Gather
<1>7. context' \in [Task -> Wrapper \union {None}] /\ kept' \in [Task -> Wrapper \union {None}]
  BY <1>4, <1>6
<1>8. UNCHANGED <<outcome, todo, cursor>>
  BY DEF Gather
<1> QED
  BY <1>1, <1>5, <1>7, <1>8, TaskTypesNext DEF TaskTypes

\* What the steps of a task outside acursor() leave alone.
LEMMA RestTouches ==
  ASSUME NEW t \in Task,
         PoolTimeout(t) \/ Gather(t) \/ Gathered(t) \/ Leave(t) \/ EveryClosed(t)
  PROVE  UNCHANGED <<wrapper, raw, idle, epoch, todo>>
BY DEF PoolTimeout, LeaveQueue, Gather, Gathered, Leave, EveryClosed, pool

\* A step of acursor() joins the queue at most.
LEMMA WorkQueue ==
  ASSUME Core, UNCHANGED scenario, NEW t \in Task, Works(t)
  PROVE  Queue'
<1>1. Queue /\ TaskTypes
  BY TypeFacts DEF Core
<1>2. \A u \in Task \ {t} : pc'[u] = pc[u]
  BY WorkTouches
<1>3. CASE waiting' = Append(waiting, t) /\ Goto(t, "waiting") /\ pc[t] = "connecting"
  BY <1>1, <1>2, <1>3, QueueEntered DEF Goto, TaskTypes
<1>4. CASE UNCHANGED waiting /\ pc[t] # "waiting" /\ pc'[t] # "waiting"
  BY <1>1, <1>2, <1>4, QueueSame
<1>5. ASSUME NEW label, Goto(t, label), label # "waiting"
      PROVE  pc'[t] # "waiting"
  BY <1>1, <1>5 DEF Goto, TaskTypes
<1>6. ASSUME NEW how, Unwind(t, how)
      PROVE  pc'[t] # "waiting"
  BY <1>5, <1>6 DEF Unwind
<1>7. CASE ACursor(t) \/ HealthChecked(t)
  <2>1. pc'[t] # "waiting"
    BY <1>5, <1>7 DEF ACursor, HealthChecked, Ensure
  <2> QED
    BY <1>4, <1>7, <2>1 DEF ACursor, HealthChecked, pool
<1>8. CASE GetConn(t)
  BY <1>3, <1>4, <1>5, <1>8 DEF GetConn, Take
<1>9. CASE Granted(t)
  BY <1>4, <1>5, <1>9 DEF Granted, Take, pool
<1>10. CASE Dial(t) \/ Configured(t)
  <2>1. pc'[t] # "waiting"
    BY <1>5, <1>6, <1>10 DEF Dial, Configured
  <2> QED
    BY <1>4, <1>10, <2>1 DEF Dial, Configured, pool
<1>11. CASE Statement(t)
  <2>1. pc'[t] # "waiting"
    BY <1>5, <1>6, <1>11 DEF Statement
  <2> QED
    BY <1>4, <1>11, <2>1 DEF Statement
<1>12. CASE Recycle(t) \/ RecycleChecked(t)
  <2>1. pc'[t] # "waiting"
    BY <1>5, <1>12 DEF Recycle, RecycleChecked, Recycled
  <2> QED
    BY <1>4, <1>12, <2>1 DEF Recycle, RecycleChecked
<1> QED
  BY <1>7, <1>8, <1>9, <1>10, <1>11, <1>12 DEF Works

\* A step of acursor() or of a recycling keeps the types.
LEMMA WorkTypes ==
  ASSUME Core, UNCHANGED scenario, NEW t \in Task, Works(t)
  PROVE  TypeOK'
<1>1. TypeOK /\ TaskTypes /\ WrapperTypes /\ PoolTypes /\ scenario \in Scenarios
  BY TypeFacts DEF Core
<1>2. Mine(t) \in Wrapper /\ Touches(Mine(t))
  BY WorkTouches, Exclusive DEF Core
<1>3. TaskTypes' /\ closing' \in [Wrapper -> {"no", "scheduled", "rollback"}]
  <2>1. CASE Leaves(t) /\ todo' \in [Task -> Nat]
    BY <1>1, <2>1, UnwindTypes
  <2>2. CASE /\ \E label \in Label : Goto(t, label)
             /\ UNCHANGED <<outcome, kept, closing>> /\ todo' \in [Task -> Nat]
             /\ context' = [context EXCEPT ![t] = Mine(t)]
             /\ cursor' \in [Task -> Raw \union {None}]
    <3>1. context' \in [Task -> Wrapper \union {None}]
      BY <1>1, <1>2, <2>2 DEF TaskTypes
    <3> QED
      BY <1>1, <2>2, <3>1, GotoTaskTypes DEF WrapperTypes
  <2> QED
    BY <2>1, <2>2, WorkGoes
<1>4. WrapperTypes'
  BY <1>2, <1>3, WrapperTypesNext DEF Touches
<1>5. PoolTypes'
  <2>1. \A c \in idle' : c \in Raw /\ raw'[c].out = None /\ ~raw'[c].pending
    BY <1>1, <1>2 DEF Touches, PoolTypes
  <2> QED
    BY <1>2, <2>1, PoolTypesNext DEF Touches
<1> QED
  BY <1>1, <1>3, <1>4, <1>5, WorkQueue, TypePartsNext

\* Leaving the queue.
LEMMA LeaveQueueTypes ==
  ASSUME Core, UNCHANGED scenario, NEW t \in Task, NEW how \in {"raised", "cancelled"},
         LeaveQueue(t, how)
  PROVE  TypeOK'
<1>1. TypeOK /\ TaskTypes /\ WrapperTypes /\ PoolTypes /\ Queue /\ scenario \in Scenarios
  BY TypeFacts DEF Core
<1>2. Leaves(t) /\ todo' \in [Task -> Nat] /\ UNCHANGED <<wrapper, epoch, raw, idle>>
  BY <1>1 DEF LeaveQueue, Leaves, Live, TaskTypes
<1>3. /\ TaskTypes' /\ closing' \in [Wrapper -> {"no", "scheduled", "rollback"}]
      /\ pc'[t] \in {"closing", "done"} /\ \A x \in Task \ {t} : pc'[x] = pc[x]
  BY <1>1, <1>2, UnwindTypes
<1>4. Queue'
  <2>1. PICK i \in DOMAIN waiting : waiting[i] = t /\ waiting' = RemoveAt(waiting, i)
    BY DEF LeaveQueue
  <2> QED
    BY <1>1, <1>3, <2>1, QueueLeft
<1>5. WrapperTypes' /\ PoolTypes'
  BY <1>1, <1>2, <1>3, WrapperTypesNext, PoolTypesNext DEF WrapperTypes, PoolTypes
<1> QED
  BY <1>1, <1>3, <1>4, <1>5, TypePartsNext

\* So does every step of a task.
LEMMA StepTypes ==
  ASSUME Core, UNCHANGED scenario, NEW t \in Task, Step(t)
  PROVE  TypeOK'
<1>1. TypeOK /\ Ownership /\ TaskTypes /\ WrapperTypes /\ PoolTypes /\ Queue /\ scenario \in Scenarios
  BY TypeFacts DEF Core
<1>2. ASSUME UNCHANGED <<wrapper, raw, idle, epoch, waiting>>, TaskTypes',
             closing' \in [Wrapper -> {"no", "scheduled", "rollback"}],
             \A x \in Task : pc'[x] = "waiting" <=> pc[x] = "waiting"
      PROVE  TypeOK'
  <2>1. Queue'
    BY <1>1, <1>2, QueueSame
  <2>2. WrapperTypes' /\ PoolTypes'
    BY <1>1, <1>2, WrapperTypesNext, PoolTypesNext DEF WrapperTypes, PoolTypes
  <2> QED
    BY <1>1, <1>2, <2>1, <2>2, TypePartsNext
<1>3. CASE PoolTimeout(t)
  BY <1>3, LeaveQueueTypes DEF PoolTimeout
<1>4. CASE Gather(t)
  <2>1. TaskTypes'
    BY <1>1, <1>4, GatherTypes
  <2>2. \A x \in Task : pc'[x] = "waiting" <=> pc[x] = "waiting"
    BY <1>1, <1>4, GatherFacts
  <2>3. UNCHANGED <<wrapper, raw, idle, epoch, waiting, closing>>
    BY <1>4 DEF Gather, pool
  <2> QED
    BY <1>1, <1>2, <2>1, <2>2, <2>3 DEF WrapperTypes
<1>5. CASE Gathered(t) \/ Leave(t)
  <2>1. UNCHANGED <<wrapper, raw, idle, epoch, waiting, todo, kept>> /\ pc[t] # "waiting"
    BY <1>5 DEF Gathered, Leave, pool
  <2>2. todo' \in [Task -> Nat]
    BY <1>1, <2>1 DEF TaskTypes
  <2>3. CASE Leaves(t)
    <3>1. /\ TaskTypes' /\ closing' \in [Wrapper -> {"no", "scheduled", "rollback"}]
          /\ pc'[t] \in {"closing", "done"} /\ \A x \in Task \ {t} : pc'[x] = pc[x]
      BY <1>1, <2>2, <2>3, UnwindTypes
    <3> QED
      BY <1>2, <2>1, <3>1
  <2>4. CASE Goto(t, "body") /\ UNCHANGED <<outcome, context, cursor, closing>>
    <3>1. TaskTypes'
      BY <1>1, <2>1, <2>4, GotoTaskTypes DEF TaskTypes, Label
    <3>2. \A x \in Task : pc'[x] = "waiting" <=> pc[x] = "waiting"
      BY <1>1, <2>1, <2>4 DEF Goto, TaskTypes
    <3> QED
      BY <1>1, <1>2, <2>1, <2>4, <3>1, <3>2 DEF WrapperTypes
  <2> QED
    BY <1>5, <2>3, <2>4 DEF Gathered, Leave, Leaves, Live
<1>6. CASE EveryClosed(t)
  <2>1. UNCHANGED <<todo, outcome, context, kept, cursor, wrapper, closing, raw, idle, waiting, epoch>>
        /\ pc[t] = "closing" /\ Goto(t, "done")
    BY <1>6 DEF EveryClosed, pool
  <2>2. TaskTypes'
    BY <1>1, <2>1, GotoTaskTypes DEF TaskTypes, Label
  <2>3. \A x \in Task : pc'[x] = "waiting" <=> pc[x] = "waiting"
    BY <1>1, <2>1 DEF Goto, TaskTypes
  <2> QED
    BY <1>1, <1>2, <2>1, <2>2, <2>3 DEF WrapperTypes
<1> QED
  BY <1>3, <1>4, <1>5, <1>6, WorkTypes DEF Step, Works

\* A connection that comes back is idle, or the first that waits has it.
LEMMA GiveBackFacts ==
  ASSUME Core, NEW c \in Raw, GiveBack(c)
  PROVE  /\ raw' \in [Raw -> RawState] /\ \A d \in Raw \ {c} : raw'[d] = raw[d]
         /\ raw'[c] = [raw[c] EXCEPT !.out = raw'[c].out, !.pending = FALSE]
         /\ \/ /\ raw'[c].out = None /\ idle' = idle \union {c}
               /\ UNCHANGED <<pc, cursor, waiting>>
            \/ /\ waiting # <<>> /\ waiting' = Tail(waiting) /\ idle' = idle
               /\ Head(waiting) \in Task /\ pc[Head(waiting)] = "waiting"
               /\ raw'[c].out = context[Head(waiting)] /\ context[Head(waiting)] \in Wrapper
               /\ wrapper[context[Head(waiting)]].connection = None
               /\ cursor' = [cursor EXCEPT ![Head(waiting)] = c] /\ Goto(Head(waiting), "granted")
<1>1. raw \in [Raw -> RawState] /\ raw[c] \in RawState /\ Queue
  BY TypeFacts DEF PoolTypes, Core
<1>2. ASSUME NEW o \in Wrapper \union {None},
             raw' = [raw EXCEPT ![c].out = o, ![c].pending = FALSE]
      PROVE  /\ raw' \in [Raw -> RawState] /\ \A d \in Raw \ {c} : raw'[d] = raw[d]
             /\ raw'[c] = [raw[c] EXCEPT !.out = o, !.pending = FALSE] /\ raw'[c].out = o
  <2> DEFINE r == [raw[c] EXCEPT !.out = o, !.pending = FALSE]
  <2>1. r \in RawState /\ r.out = o
    BY <1>1 DEF RawState
  <2>2. raw' = [raw EXCEPT ![c] = r]
    BY <1>1, <1>2 DEF RawState
  <2>3. raw'[c] = r /\ raw' \in [Raw -> RawState] /\ \A d \in Raw \ {c} : raw'[d] = raw[d]
    BY <1>1, <2>1, <2>2
  <2> QED
    BY <2>1, <2>3
<1>3. CASE waiting = <<>>
  <2>1. raw' = [raw EXCEPT ![c].out = None, ![c].pending = FALSE]
    BY <1>3 DEF GiveBack
  <2>2. idle' = idle \union {c} /\ UNCHANGED <<pc, cursor, waiting>>
    BY <1>3 DEF GiveBack
  <2> QED
    BY <1>2, <2>1, <2>2
<1>4. CASE waiting # <<>>
  <2> DEFINE t == Head(waiting)
  <2>1. t \in Task /\ pc[t] = "waiting"
    <3>1. t \in Task /\ t = waiting[1] /\ 1 \in DOMAIN waiting
      BY <1>1, <1>4, HeadTailProperties, LenProperties, EmptySeq DEF Queue
    <3> QED
      BY <1>1, <3>1 DEF Queue, ToSet
  <2>2. Active(t) /\ context[t] \in Wrapper /\ wrapper[context[t]].connection = None
    BY <2>1, WorksOn DEF Active, Live, Core, Holding, AtPoint
  <2>3. raw' = [raw EXCEPT ![c].out = context[t], ![c].pending = FALSE]
    BY <1>4 DEF GiveBack
  <2>4. /\ waiting' = Tail(waiting) /\ idle' = idle
        /\ cursor' = [cursor EXCEPT ![t] = c] /\ Goto(t, "granted")
    BY <1>4 DEF GiveBack
  <2>5. /\ raw' \in [Raw -> RawState] /\ \A d \in Raw \ {c} : raw'[d] = raw[d]
        /\ raw'[c] = [raw[c] EXCEPT !.out = context[t], !.pending = FALSE]
        /\ raw'[c].out = context[t]
    BY <1>2, <2>2, <2>3
  <2> QED
    BY <1>4, <2>1, <2>2, <2>4, <2>5
<1> QED
  BY <1>3, <1>4

\* A connection that comes back keeps the types.
LEMMA GiveBackTypes ==
  ASSUME Core, UNCHANGED <<scenario, todo, outcome, context, kept, epoch>>,
         NEW c \in Raw, raw[c].out # None, GiveBack(c),
         closing' \in [Wrapper -> {"no", "scheduled", "rollback"}], wrapper' \in [Wrapper -> Fields]
  PROVE  TypeOK'
<1>1. TaskTypes /\ WrapperTypes /\ PoolTypes /\ Queue /\ scenario \in Scenarios
  BY TypeFacts DEF Core
<1>2. /\ raw' \in [Raw -> RawState] /\ \A d \in Raw \ {c} : raw'[d] = raw[d]
      /\ raw'[c] = [raw[c] EXCEPT !.out = raw'[c].out, !.pending = FALSE]
  BY GiveBackFacts
<1>3. WrapperTypes'
  BY <1>1, WrapperTypesNext DEF WrapperTypes
<1>4. ~raw'[c].pending
  <2>1. raw[c] \in RawState
    BY <1>1 DEF PoolTypes
  <2> QED
    BY <1>2, <2>1 DEF RawState
<1>5. c \notin idle /\ \A d \in idle : d \in Raw /\ raw'[d].out = None /\ ~raw'[d].pending
  BY <1>1, <1>2 DEF PoolTypes
<1>6. CASE raw'[c].out = None /\ idle' = idle \union {c} /\ UNCHANGED <<pc, cursor, waiting>>
  <2>1. TaskTypes'
    BY <1>1, <1>6, TaskTypesNext DEF TaskTypes
  <2>2. Queue'
    BY <1>1, <1>6, QueueSame
  <2>3. PoolTypes'
    <3>1. idle' \subseteq Raw /\ \A d \in idle' : raw'[d].out = None /\ ~raw'[d].pending
      BY <1>4, <1>5, <1>6
    <3> QED
      BY <1>2, <3>1, PoolTypesNext
  <2> QED
    BY <1>1, <1>3, <2>1, <2>2, <2>3, TypePartsNext
<1>7. CASE /\ waiting # <<>> /\ waiting' = Tail(waiting) /\ idle' = idle
           /\ Head(waiting) \in Task /\ pc[Head(waiting)] = "waiting"
           /\ cursor' = [cursor EXCEPT ![Head(waiting)] = c] /\ Goto(Head(waiting), "granted")
  <2> DEFINE t == Head(waiting)
  <2>1. cursor' \in [Task -> Raw \union {None}] /\ "granted" \in Label
    BY <1>1, <1>7 DEF TaskTypes, Label
  <2>2. TaskTypes'
    BY <1>1, <1>7, <2>1, GotoTaskTypes DEF TaskTypes
  <2>3. pc'[t] = "granted" /\ \A x \in Task \ {t} : pc'[x] = pc[x]
    BY <1>1, <1>7, <2>1, GotoTypes
  <2>4. Queue'
    BY <1>1, <1>7, <2>3, QueueServed
  <2>5. PoolTypes'
    <3>1. idle' \subseteq Raw /\ \A d \in idle' : raw'[d].out = None /\ ~raw'[d].pending
      BY <1>5, <1>7
    <3> QED
      BY <1>2, <3>1, PoolTypesNext
  <2> QED
    BY <1>1, <1>3, <2>2, <2>4, <2>5, TypePartsNext
<1> QED
  BY <1>6, <1>7, GiveBackFacts

\* A cancellation keeps the types,
LEMMA CancelTypes ==
  ASSUME Core, UNCHANGED scenario, NEW t \in Task, Cancel(t)
  PROVE  TypeOK'
<1>1. TypeOK /\ Ownership /\ TaskTypes /\ WrapperTypes /\ PoolTypes /\ Queue /\ scenario \in Scenarios
  BY TypeFacts DEF Core
<1>2. ASSUME UNCHANGED <<raw, idle, epoch, waiting>>, TaskTypes', wrapper' \in [Wrapper -> Fields],
             closing' \in [Wrapper -> {"no", "scheduled", "rollback"}],
             \A x \in Task : pc'[x] = "waiting" <=> pc[x] = "waiting"
      PROVE  TypeOK'
  <2>1. Queue'
    BY <1>1, <1>2, QueueSame
  <2>2. WrapperTypes' /\ PoolTypes'
    BY <1>1, <1>2, WrapperTypesNext, PoolTypesNext DEF WrapperTypes, PoolTypes
  <2> QED
    BY <1>1, <1>2, <2>1, <2>2, TypePartsNext
<1>3. CASE LeaveQueue(t, "cancelled")
  BY <1>3, LeaveQueueTypes
<1>4. CASE /\ pc[t] \in {"connecting", "configuring", "checking", "recycling", "statement"}
           /\ Unwind(t, "cancelled") /\ UNCHANGED <<todo, kept, wrapper, pool, epoch>>
  <2>1. Leaves(t) /\ todo' \in [Task -> Nat] /\ UNCHANGED <<raw, idle, waiting>> /\ pc[t] # "waiting"
    BY <1>1, <1>4 DEF Leaves, Live, TaskTypes, pool
  <2>2. /\ TaskTypes' /\ closing' \in [Wrapper -> {"no", "scheduled", "rollback"}]
        /\ pc'[t] \in {"closing", "done"} /\ \A x \in Task \ {t} : pc'[x] = pc[x]
    BY <1>1, <2>1, UnwindTypes
  <2> QED
    BY <1>1, <1>2, <1>4, <2>1, <2>2 DEF WrapperTypes
<1>5. CASE CancelClosing(t)
  <2>1. /\ UNCHANGED <<todo, context, kept, cursor, raw, idle, waiting, epoch>>
        /\ pc[t] = "closing" /\ Goto(t, "done") /\ outcome' = [outcome EXCEPT ![t] = CancelledAs(t)]
    BY <1>5 DEF CancelClosing, pool
  <2>2. pc' \in [Task -> Label] /\ pc'[t] = "done" /\ \A x \in Task \ {t} : pc'[x] = pc[x]
    BY <1>1, <2>1, GotoTypes DEF Label
  <2>3. TaskTypes'
    BY <1>1, <2>1, <2>2, TaskTypesNext DEF TaskTypes, Outcome, CancelledAs
  <2>4. closing' \in [Wrapper -> {"no", "scheduled", "rollback"}]
    BY <1>1, <1>5 DEF CancelClosing, WrapperTypes
  <2>5. wrapper' \in [Wrapper -> Fields]
    BY <1>1, <1>5 DEF CancelClosing, Drop, WrapperTypes, Fields
  <2> QED
    BY <1>2, <2>1, <2>2, <2>3, <2>4, <2>5
<1> QED
  BY <1>3, <1>4, <1>5 DEF Cancel

\* and so does the closing of a wrapper.
LEMMA CloserTypes ==
  ASSUME Core, UNCHANGED scenario, NEW w \in Wrapper, Closer(w)
  PROVE  TypeOK'
<1> DEFINE c == wrapper[w].connection
<1>1. TaskTypes /\ WrapperTypes /\ PoolTypes /\ Queue /\ scenario \in Scenarios
  BY TypeFacts DEF Core
<1>2. c \in Raw \union {None} /\ (c # None => raw[c].out = w /\ w # None)
  BY TypeFacts DEF Core, Holding
<1>3. closing' \in [Wrapper -> {"no", "scheduled", "rollback"}]
  BY <1>1 DEF Closer, AClose, ARolledBack, WrapperTypes
<1>4. wrapper' \in [Wrapper -> Fields]
  BY <1>1 DEF Closer, AClose, ARolledBack, Drop, WrapperTypes, Fields
<1>5. UNCHANGED <<todo, outcome, context, kept, epoch>>
  BY DEF Closer, AClose, ARolledBack
<1>6. CASE GiveBack(c) /\ c # None
  BY <1>2, <1>3, <1>4, <1>5, <1>6, GiveBackTypes
<1>7. CASE UNCHANGED <<pc, cursor, idle, waiting>> /\ (UNCHANGED raw \/ (c # None /\ Closed(c)))
  <2>1. TaskTypes'
    BY <1>1, <1>5, <1>7, TaskTypesNext DEF TaskTypes
  <2>2. Queue'
    BY <1>1, <1>7, QueueSame
  <2>3. WrapperTypes'
    BY <1>1, <1>3, <1>4, <1>5, WrapperTypesNext DEF WrapperTypes
  <2>4. PoolTypes'
    <3>1. CASE UNCHANGED raw
      BY <1>1, <1>7, <3>1, PoolTypesNext DEF PoolTypes
    <3>2. CASE c # None /\ Closed(c)
      <4>1. raw' \in [Raw -> RawState] /\ \A d \in Raw \ {c} : raw'[d] = raw[d]
        BY <1>1, <1>2, <3>2, ClosedFacts
      <4>2. c \notin idle /\ idle \subseteq Raw
        BY <1>1, <1>2, <3>2 DEF PoolTypes
      <4> QED
        BY <1>1, <1>7, <4>1, <4>2, PoolTypesNext DEF PoolTypes
    <3> QED
      BY <1>7, <3>1, <3>2
  <2> QED
    BY <1>1, <2>1, <2>2, <2>3, <2>4, TypePartsNext
<1>8. closing[w] = "rollback" => c # None
  BY DEF Core, Holding
<1> QED
  BY <1>6, <1>7, <1>8 DEF Closer, AClose, ARolledBack, pool

\* Every step keeps the types.
LEMMA TypeStep ==
  ASSUME Core, [Next]_vars
  PROVE  TypeOK'
<1>1. TypeOK /\ TaskTypes /\ WrapperTypes /\ PoolTypes /\ Queue /\ scenario \in Scenarios
  BY TypeFacts DEF Core
<1>2. ASSUME UNCHANGED <<scenario, tasks, closing, epoch, idle, waiting>>,
             wrapper' \in [Wrapper -> Fields], raw' \in [Raw -> RawState],
             \A c \in Raw : raw'[c].out = raw[c].out /\ raw'[c].pending = raw[c].pending
      PROVE  TypeOK'
  <2>1. TaskTypes'
    BY <1>1, <1>2, TaskTypesNext DEF TaskTypes, tasks
  <2>2. Queue'
    BY <1>1, <1>2, QueueSame DEF tasks
  <2>3. WrapperTypes' /\ PoolTypes'
    BY <1>1, <1>2, WrapperTypesNext, PoolTypesNext DEF WrapperTypes, PoolTypes
  <2> QED
    BY <1>1, <1>2, <2>1, <2>2, <2>3, TypePartsNext
<1>3. ASSUME NEW w \in Wrapper, Age(w), UNCHANGED scenario
      PROVE  TypeOK'
  <2>1. wrapper' \in [Wrapper -> Fields]
    BY <1>1, <1>3 DEF Age, WrapperTypes, Fields
  <2> QED
    BY <1>1, <1>2, <1>3, <2>1 DEF Age, pool, PoolTypes
<1>4. ASSUME NEW c \in Raw, Lose(c), UNCHANGED scenario
      PROVE  TypeOK'
  <2>1. Epoch(raw[c].out) \in Nat
    BY <1>1, ScenarioAssumption DEF PoolTypes, RawState, WrapperTypes, Epoch
  <2> DEFINE r == [raw[c] EXCEPT !.alive = FALSE, !.lost = Epoch(raw[c].out)]
  <2>2. r \in RawState /\ r.out = raw[c].out /\ r.pending = raw[c].pending
    BY <1>1, <2>1 DEF PoolTypes, RawState
  <2>3. raw' = [raw EXCEPT ![c] = r]
    BY <1>1, <1>4 DEF Lose, PoolTypes, RawState
  <2> HIDE DEF r
  <2>4. raw' \in [Raw -> RawState]
        /\ \A d \in Raw : raw'[d].out = raw[d].out /\ raw'[d].pending = raw[d].pending
    BY <1>1, <2>2, <2>3 DEF PoolTypes
  <2> QED
    BY <1>1, <1>2, <1>4, <2>4 DEF Lose, WrapperTypes
<1>5. CASE UNCHANGED vars
  BY <1>1, <1>2, <1>5 DEF vars, pool, WrapperTypes, PoolTypes
<1> QED
  BY <1>3, <1>4, <1>5, StepTypes, CancelTypes, CloserTypes DEF Next

-----------------------------------------------------------------------------
(* What the wrappers hold, and where the tasks are in acursor().           *)

AtEase(t) == pc[t] \in {"unborn", "body", "gathering", "closing", "done"}

\* A wrapper that is being closed is not worked on.
LEMMA ClosingUnused ==
  ASSUME Core, NEW w \in Wrapper, closing[w] # "no", NEW u \in Task, Active(u)
  PROVE  context[u] # w
BY Exclusive, TypeFacts DEF Core, Mine

\* Steps that leave the connections where they are.
LEMMA HoldingSame ==
  ASSUME Core, UNCHANGED <<scenario, epoch>>,
         \A w \in Wrapper : wrapper'[w].connection = wrapper[w].connection,
         \A c \in Raw : raw'[c].out = raw[c].out,
         \A w \in Wrapper : closing'[w] = "rollback" => closing[w] = "rollback",
         \A u \in Task : \/ AtEase(u)'
                         \/ pc'[u] = pc[u] /\ context'[u] = context[u] /\ cursor'[u] = cursor[u]
  PROVE  Holding'
<1>1. Wrapper' = Wrapper /\ Raw' = Raw /\ Task' = Task /\ None' = None
  BY SameProgram, SameSets
<1>2. \A w \in Wrapper : wrapper[w].connection \in Raw \union {None}
  BY TypeFacts DEF Core
<1>3. \A w \in Wrapper : wrapper'[w].connection # None => raw'[wrapper'[w].connection].out = w
  BY <1>2 DEF Core, Holding
<1>4. ASSUME NEW w \in Wrapper, closing'[w] = "rollback"
      PROVE  scenario'.pooled /\ wrapper'[w].connection # None
  BY <1>4 DEF Core, Holding
<1>5. ASSUME NEW u \in Task
      PROVE  AtPoint(u)'
  <2>1. CASE AtEase(u)'
    BY <2>1 DEF AtEase, AtPoint, Active, Live
  <2>2. CASE ~AtEase(u)'
    <3>1. pc'[u] = pc[u] /\ context'[u] = context[u] /\ cursor'[u] = cursor[u] /\ ~AtEase(u)
      BY <2>2 DEF AtEase
    <3>2. AtPoint(u) /\ context[u] \in Wrapper /\ cursor[u] \in Raw \union {None}
      BY <3>1, TypeFacts DEF Core, Holding, AtPoint, AtEase, Active, Live
    <3> QED
      BY <1>1, <3>1, <3>2 DEF AtPoint, Active, Live
  <2> QED
    BY <2>1, <2>2
<1> QED
  BY <1>1, <1>3, <1>4, <1>5 DEF Holding

\* A wrapper that is being closed loses its connection, perhaps to a task that waits.
LEMMA HoldingDropped ==
  ASSUME Core, UNCHANGED <<scenario, epoch>>, NEW w \in Wrapper, closing[w] # "no", Drop(w),
         closing'[w] = "no", \A x \in Wrapper \ {w} : closing'[x] = closing[x],
         \A d \in Raw \ {wrapper[w].connection} : raw'[d] = raw[d],
         \A u \in Task :
           \/ AtEase(u)'
           \/ pc'[u] = pc[u] /\ context'[u] = context[u] /\ cursor'[u] = cursor[u]
           \/ /\ pc[u] = "waiting" /\ pc'[u] = "granted" /\ context'[u] = context[u]
              /\ cursor'[u] = wrapper[w].connection /\ cursor'[u] # None
              /\ raw'[wrapper[w].connection].out = context[u]
  PROVE  Holding'
<1> DEFINE c == wrapper[w].connection
<1>1. Wrapper' = Wrapper /\ Raw' = Raw /\ Task' = Task /\ None' = None
  BY SameProgram, SameSets
<1>2. \A x \in Wrapper : wrapper[x].connection \in Raw \union {None}
  BY TypeFacts DEF Core
<1>3. wrapper'[w].connection = None /\ \A x \in Wrapper \ {w} : wrapper'[x] = wrapper[x]
  BY TypeFacts DEF Core, WrapperTypes, Drop, Fields
<1>4. c # None => raw[c].out = w
  BY DEF Core, Holding
<1>5. \A x \in Wrapper : wrapper'[x].connection # None => raw'[wrapper'[x].connection].out = x
  BY <1>2, <1>3, <1>4 DEF Core, Holding
<1>6. ASSUME NEW x \in Wrapper, closing'[x] = "rollback"
      PROVE  scenario'.pooled /\ wrapper'[x].connection # None
  BY <1>3, <1>6 DEF Core, Holding
<1>7. ASSUME NEW u \in Task
      PROVE  AtPoint(u)'
  <2>1. CASE AtEase(u)'
    BY <2>1 DEF AtEase, AtPoint, Active, Live
  <2>2. CASE ~AtEase(u)
    <3>1. /\ AtPoint(u) /\ context[u] \in Wrapper \ {w}
          /\ cursor[u] \in Raw \union {None} /\ Active(u)
      BY <2>2, TypeFacts, ClosingUnused DEF Core, Holding, AtPoint, AtEase, Active, Live
    <3>2. wrapper'[context[u]] = wrapper[context[u]]
      BY <1>3, <3>1
    <3>3. CASE pc'[u] = pc[u] /\ context'[u] = context[u] /\ cursor'[u] = cursor[u]
      <4>1. pc[u] = "granted" => raw'[cursor[u]] = raw[cursor[u]]
        BY <1>4, <3>1 DEF AtPoint
      <4> QED
        BY <1>1, <3>1, <3>2, <3>3, <4>1 DEF AtPoint, Active, Live
    <3>4. CASE /\ pc[u] = "waiting" /\ pc'[u] = "granted" /\ context'[u] = context[u]
               /\ cursor'[u] = c /\ cursor'[u] # None /\ raw'[c].out = context[u]
      <4>1. context[u] # None /\ wrapper'[context'[u]].connection = None
        BY <3>1, <3>2, <3>4, TypeFacts DEF AtPoint, Core
      <4>2. raw'[cursor'[u]].out = context'[u]
        BY <3>4
      <4> QED
        BY <1>1, <3>4, <4>1, <4>2 DEF AtPoint
    <3> QED
      BY <2>1, <3>3, <3>4
  <2> QED
    BY <2>1, <2>2 DEF AtEase
<1> QED
  BY <1>1, <1>5, <1>6, <1>7 DEF Holding

\* Where a step of acursor() leaves the others.
LEMMA HoldingWork ==
  ASSUME Core, UNCHANGED scenario, NEW t \in Task, Works(t), AtPoint(t)'
  PROVE  Holding'
<1> DEFINE w == Mine(t)
<1>1. Wrapper' = Wrapper /\ Raw' = Raw /\ Task' = Task /\ None' = None
  BY SameProgram, SameSets
<1>2. \A x \in Wrapper : wrapper[x].connection \in Raw \union {None}
  BY TypeFacts DEF Core
<1>3. /\ Active(t) /\ Touches(w) /\ (Keeps(w) \/ Gets(w) \/ GivesUp(w))
      /\ \A u \in Task \ {t} : pc'[u] = pc[u] /\ context'[u] = context[u] /\ cursor'[u] = cursor[u]
  BY WorkTouches
<1>4. /\ w \in Wrapper /\ closing[w] = "no"
      /\ \A u \in Task : Active(u) /\ context[u] = w => u = t
  BY <1>3, Exclusive DEF Core
<1>5. ASSUME NEW x \in Wrapper, wrapper'[x].connection # None
      PROVE  raw'[wrapper'[x].connection].out = x
  <2>1. CASE x = w
    BY <1>2, <1>3, <1>4, <1>5, <2>1 DEF Keeps, Gets, GivesUp, Core, Holding
  <2>2. CASE x # w
    <3>1. wrapper'[x] = wrapper[x] /\ wrapper[x].connection \in Raw
      BY <1>2, <1>3, <1>5, <2>2 DEF Touches
    <3>2. raw[wrapper[x].connection].out = x /\ x # None
      BY <1>5, <3>1, TypeFacts DEF Core, Holding
    <3> QED
      BY <1>3, <2>2, <3>1, <3>2 DEF Touches
  <2> QED
    BY <2>1, <2>2
<1>6. ASSUME NEW x \in Wrapper, closing'[x] = "rollback"
      PROVE  scenario'.pooled /\ wrapper'[x].connection # None
  <2>1. closing[x] = "rollback"
    <3>1. closing' = closing \/ \E v : closing' = [closing EXCEPT ![v] = "scheduled"]
      BY WorkGoes DEF Leaves, Unwind
    <3> QED
      BY <1>6, <3>1, TypeFacts DEF Core, WrapperTypes
  <2>2. x # w /\ wrapper'[x] = wrapper[x]
    BY <1>3, <1>4, <2>1 DEF Touches
  <2> QED
    BY <2>1, <2>2 DEF Core, Holding
<1>7. ASSUME NEW u \in Task, u # t
      PROVE  AtPoint(u)'
  <2>1. pc'[u] = pc[u] /\ context'[u] = context[u] /\ cursor'[u] = cursor[u]
    BY <1>3, <1>7
  <2>2. CASE AtEase(u)
    BY <2>1, <2>2 DEF AtEase, AtPoint, Active, Live
  <2>3. CASE ~AtEase(u)
    <3>1. /\ AtPoint(u) /\ context[u] \in Wrapper \ {w} /\ context[u] # None
          /\ cursor[u] \in Raw \union {None}
      BY <1>4, <1>7, <2>3, TypeFacts DEF Core, Holding, AtPoint, AtEase, Active, Live
    <3>2. wrapper'[context[u]] = wrapper[context[u]] /\ epoch'[context[u]] = epoch[context[u]]
      BY <1>3, <3>1 DEF Touches
    <3>3. pc[u] = "granted" => raw'[cursor[u]] = raw[cursor[u]]
      BY <1>3, <3>1 DEF AtPoint, Touches
    <3> QED
      BY <1>1, <2>1, <3>1, <3>2, <3>3 DEF AtPoint, Active, Live
  <2> QED
    BY <2>2, <2>3
<1> QED
  BY <1>1, <1>5, <1>6, <1>7 DEF Holding

\* aensure_connection() goes on with the connection of the wrapper, or without one.
LEMMA EnsureAtPoint ==
  ASSUME TypeOK, NEW t \in Task, NEW w \in Wrapper, NEW f \in Fields, Ensure(t, w, f),
         context'[t] = w
  PROVE  AtPoint(t)'
<1>1. pc \in [Task -> Label] /\ cursor \in [Task -> Raw \union {None}] /\ None \notin Wrapper
      /\ wrapper \in [Wrapper -> Fields] /\ None' = None
  BY TypeFacts, SameSets DEF TaskTypes, WrapperTypes, None
<1>2. CASE f.connection # None
  <2>1. pc'[t] = "statement" /\ cursor'[t] = f.connection /\ wrapper'[w] = f
    BY <1>1, <1>2 DEF Ensure, Goto
  <2> QED
    BY <1>1, <1>2, <2>1 DEF AtPoint
<1>3. CASE f.connection = None
  <2>1. pc'[t] = "connecting" /\ wrapper'[w] = [Fresh EXCEPT !.health_check_done = TRUE]
    BY <1>1, <1>3 DEF Ensure, Goto
  <2>2. wrapper'[w].connection = None
    BY <2>1 DEF Fresh
  <2> QED
    BY <1>1, <2>1, <2>2 DEF AtPoint
<1> QED
  BY <1>2, <1>3

\* Where a step of acursor() or of a recycling leaves its task.
LEMMA WorkAtPoint ==
  ASSUME Core, UNCHANGED scenario, NEW t \in Task, Works(t)
  PROVE  AtPoint(t)'
<1> DEFINE w == Mine(t)
<1>1. /\ pc \in [Task -> Label] /\ cursor \in [Task -> Raw \union {None}]
      /\ context \in [Task -> Wrapper \union {None}] /\ wrapper \in [Wrapper -> Fields]
      /\ None \notin Wrapper /\ None \notin Raw /\ TypeOK
  BY TypeFacts DEF Core, TaskTypes, WrapperTypes
<1>2. None' = None
  BY DEF None
<1>3. Active(t) /\ w \in Wrapper /\ Touches(w) /\ AtPoint(t)
  BY WorkTouches, Exclusive DEF Core, Holding
<1>4. CASE AtEase(t)'
  BY <1>4 DEF AtEase, AtPoint, Active, Live
<1>5. CASE ~AtEase(t)' /\ context'[t] = w
  <2>1. CASE ACursor(t)
    <3>1. CASE Goto(t, "checking")
      <4>1. pc'[t] = "checking"
        BY <1>1, <3>1 DEF Goto
      <4> QED
        BY <1>1, <1>2, <1>3, <1>5, <4>1 DEF AtPoint
    <3>2. CASE Ensure(t, w, wrapper[w])
      BY <1>1, <1>3, <1>5, <3>2, EnsureAtPoint
    <3> QED
      BY <2>1, <3>1, <3>2 DEF ACursor, Mine
  <2>2. CASE HealthChecked(t)
    <3> DEFINE c == wrapper[w].connection
               usable == c # None /\ raw[c].alive
               f == [wrapper[w] EXCEPT !.connection = IF usable THEN c ELSE None,
                                       !.health_check_done = TRUE]
    <3>1. w = context[t]
      BY <2>2, WorksOn DEF HealthChecked, Active, Live
    <3>2. f \in Fields
      BY <1>1, <1>3 DEF Fields
    <3>3. Ensure(t, w, f)
      BY <2>2, <3>1 DEF HealthChecked
    <3> HIDE DEF f
    <3> QED
      BY <1>1, <1>3, <1>5, <3>2, <3>3, EnsureAtPoint
  <2>3. CASE GetConn(t) \/ Granted(t)
    <3>1. w = context[t] /\ wrapper[w].connection = None
      BY <1>3, <2>3, WorksOn DEF GetConn, Granted, Active, Live, AtPoint
    <3>2. CASE Goto(t, "waiting") /\ UNCHANGED wrapper
      <4>1. pc'[t] = "waiting"
        BY <1>1, <3>2 DEF Goto
      <4> QED
        BY <1>1, <1>2, <1>3, <1>5, <3>1, <3>2, <4>1 DEF AtPoint
    <3>3. ASSUME NEW c \in Raw, Take(t, c)
          PROVE  AtPoint(t)'
      <4>1. pc'[t] = "statement" /\ cursor'[t] = c /\ wrapper'[w].connection = c
        BY <1>1, <1>3, <3>1, <3>3 DEF Take, Goto, Fields
      <4> QED
        BY <1>1, <1>2, <1>3, <1>5, <4>1 DEF AtPoint
    <3>4. pc[t] = "granted" => cursor[t] \in Raw
      BY <1>1, <1>3 DEF AtPoint
    <3> QED
      BY <2>3, <3>2, <3>3, <3>4 DEF GetConn, Granted
  <2>4. CASE Dial(t) \/ Configured(t)
    <3>1. w = context[t]
      BY <2>4, WorksOn DEF Dial, Configured, Active, Live
    <3>2. CASE Goto(t, "configuring")
      <4>1. pc'[t] = "configuring"
        BY <1>1, <3>2 DEF Goto
      <4> QED
        BY <1>1, <1>2, <1>3, <1>5, <4>1 DEF AtPoint
    <3>3. CASE /\ wrapper[w].connection # None /\ Goto(t, "statement") /\ UNCHANGED wrapper
               /\ cursor' = [cursor EXCEPT ![t] = wrapper[w].connection]
      <4>1. pc'[t] = "statement" /\ cursor'[t] = wrapper[w].connection
        BY <1>1, <3>3 DEF Goto
      <4> QED
        BY <1>1, <1>2, <1>3, <1>5, <3>3, <4>1 DEF AtPoint
    <3>4. CASE Unwind(t, "raised")
      BY <1>1, <1>5, <3>4 DEF Unwind, Goto, AtEase
    <3> QED
      BY <2>4, <3>1, <3>2, <3>3, <3>4 DEF Dial, Configured
  <2>5. CASE Statement(t)
    <3>1. CASE UNCHANGED <<pc, cursor, wrapper>>
      <4>1. w = context[t]
        BY <2>5, WorksOn DEF Statement, Active, Live
      <4> QED
        BY <1>1, <1>2, <1>3, <1>5, <2>5, <3>1, <4>1 DEF Statement, AtPoint
    <3>2. CASE Goto(t, "body")
      BY <1>1, <1>5, <3>2 DEF Goto, AtEase
    <3>3. CASE Unwind(t, "raised")
      BY <1>1, <1>5, <3>3 DEF Unwind, Goto, AtEase
    <3> QED
      BY <2>5, <3>1, <3>2, <3>3 DEF Statement
  <2>6. CASE Recycle(t)
    <3> DEFINE f == [wrapper[w] EXCEPT !.health_check_done = FALSE]
    <3>1. w = context[t] /\ wrapper[w].connection # None /\ epoch[w] < scenario.recycles
      BY <2>6 DEF Recycle, Mine
    <3>2. CASE Goto(t, "body")
      BY <1>1, <1>5, <3>2 DEF Goto, AtEase
    <3>3. CASE wrapper' = [wrapper EXCEPT ![w] = f] /\ Goto(t, "recycling") /\ UNCHANGED epoch
      <4>1. pc'[t] = "recycling"
        BY <1>1, <3>3 DEF Goto
      <4>2. wrapper'[w] = f
        BY <1>1, <1>3, <3>3
      <4>3. wrapper'[w].connection = wrapper[w].connection
        BY <1>1, <1>3, <4>2 DEF Fields
      <4> QED
        BY <1>1, <1>2, <1>3, <1>5, <3>1, <3>3, <4>1, <4>3 DEF AtPoint
    <3> QED
      BY <2>6, <3>1, <3>2, <3>3 DEF Recycle, Recycled
  <2>7. CASE RecycleChecked(t)
    <3>1. Goto(t, "body")
      BY <2>7 DEF RecycleChecked, Recycled
    <3> QED
      BY <1>1, <1>5, <3>1 DEF Goto, AtEase
  <2> QED
    BY <2>1, <2>2, <2>3, <2>4, <2>5, <2>6, <2>7 DEF Works
<1>6. AtEase(t)' \/ context'[t] = w
  <2>1. CASE Leaves(t)
    BY <1>1, <2>1 DEF Leaves, Unwind, Goto, AtEase
  <2>2. CASE context' = [context EXCEPT ![t] = w]
    BY <1>1, <2>2
  <2> QED
    BY <2>1, <2>2, WorkGoes
<1> QED
  BY <1>4, <1>5, <1>6

\* A task that leaves its code.
LEMMA HoldingLeaves ==
  ASSUME Core, UNCHANGED <<scenario, wrapper, raw, epoch>>, NEW t \in Task, Leaves(t)
  PROVE  Holding'
<1>1. TaskTypes /\ WrapperTypes /\ TypeOK /\ Ownership
  BY TypeFacts DEF Core
<1>2. PICK how : Unwind(t, how)
  BY DEF Leaves
<1>3. \A w \in Wrapper : closing'[w] = "rollback" => closing[w] = "rollback"
  BY <1>1, <1>2 DEF Unwind, WrapperTypes
<1>4. AtEase(t)' /\ \A u \in Task \ {t} :
        pc'[u] = pc[u] /\ context'[u] = context[u] /\ cursor'[u] = cursor[u]
  BY <1>1, <1>2 DEF Unwind, Goto, AtEase, TaskTypes
<1> QED
  BY <1>3, <1>4, HoldingSame

\* What the wrappers hold is kept by every step of a task,
LEMMA HoldingStep ==
  ASSUME Core, UNCHANGED scenario, NEW t \in Task, Step(t)
  PROVE  Holding'
<1>1. TaskTypes /\ TypeOK /\ Ownership
  BY TypeFacts DEF Core
<1>2. CASE Works(t)
  BY <1>2, HoldingWork, WorkAtPoint
<1>3. CASE PoolTimeout(t) \/ Gather(t) \/ Gathered(t) \/ Leave(t) \/ EveryClosed(t)
  <2>1. UNCHANGED <<wrapper, raw, epoch>>
    BY <1>3, RestTouches
  <2>2. CASE Leaves(t)
    BY <2>1, <2>2, HoldingLeaves
  <2>3. CASE Gather(t)
    <3>1. \A u \in Task : AtEase(u)' \/ (pc'[u] = pc[u] /\ context'[u] = context[u])
      BY <1>1, <2>3 DEF Gather, AtEase
    <3>2. cursor' = cursor /\ closing' = closing
      BY <2>3 DEF Gather
    <3> QED
      BY <2>1, <3>1, <3>2, HoldingSame
  <2>4. CASE UNCHANGED <<context, cursor, closing>> /\ (Goto(t, "body") \/ Goto(t, "done"))
    <3>1. AtEase(t)' /\ \A u \in Task \ {t} : pc'[u] = pc[u]
      BY <1>1, <2>4 DEF Goto, AtEase, TaskTypes
    <3> QED
      BY <2>1, <2>4, <3>1, HoldingSame
  <2> QED
    BY <1>3, <2>2, <2>3, <2>4
    DEF PoolTimeout, LeaveQueue, Gathered, Leave, EveryClosed, Leaves, Live
<1> QED
  BY <1>2, <1>3 DEF Step, Works

\* by every cancellation,
LEMMA HoldingCancel ==
  ASSUME Core, UNCHANGED scenario, NEW t \in Task, Cancel(t)
  PROVE  Holding'
<1>1. TaskTypes /\ WrapperTypes /\ TypeOK /\ Ownership
  BY TypeFacts DEF Core
<1>2. CASE Leaves(t)
  <2>1. UNCHANGED <<wrapper, raw, epoch>>
    BY <1>2 DEF Cancel, CancelClosing, LeaveQueue, pool, Leaves, Live
  <2> QED
    BY <1>2, <2>1, HoldingLeaves
<1>3. CASE CancelClosing(t)
  <2> DEFINE w == Awaited(t)
  <2>1. UNCHANGED <<context, cursor, raw, epoch>> /\ pc[t] = "closing" /\ Goto(t, "done")
    BY <1>3 DEF CancelClosing, pool
  <2>2. AtEase(t)' /\ \A u \in Task \ {t} : pc'[u] = pc[u]
    BY <1>1, <2>1 DEF Goto, AtEase, TaskTypes
  <2>3. w \in Wrapper
    BY <1>1, <2>1, ClosingExclusive
  <2>4. CASE UNCHANGED wrapper /\ (closing' = closing \/ closing' = [closing EXCEPT ![w] = "no"])
    <3>1. \A x \in Wrapper : closing'[x] = "rollback" => closing[x] = "rollback"
      BY <1>1, <2>4 DEF WrapperTypes
    <3> QED
      BY <2>1, <2>2, <2>4, <3>1, HoldingSame
  <2>5. CASE closing[w] = "rollback" /\ Drop(w) /\ closing' = [closing EXCEPT ![w] = "no"]
    <3>1. closing[w] # "no" /\ closing'[w] = "no" /\ \A x \in Wrapper \ {w} : closing'[x] = closing[x]
      BY <1>1, <2>3, <2>5 DEF WrapperTypes
    <3> QED
      BY <2>1, <2>2, <2>3, <2>5, <3>1, HoldingDropped
  <2> QED
    BY <1>3, <2>4, <2>5 DEF CancelClosing
<1> QED
  BY <1>2, <1>3, CancelMoves

\* by the closing of a wrapper,
LEMMA HoldingCloser ==
  ASSUME Core, UNCHANGED scenario, NEW w \in Wrapper, Closer(w)
  PROVE  Holding'
<1> DEFINE c == wrapper[w].connection
<1>1. TaskTypes /\ WrapperTypes /\ PoolTypes /\ TypeOK
  BY TypeFacts DEF Core
<1>2. UNCHANGED <<epoch, context>> /\ closing[w] # "no"
  BY DEF Closer, AClose, ARolledBack
<1>3. \A x \in Wrapper \ {w} : closing'[x] = closing[x]
  BY <1>1 DEF Closer, AClose, ARolledBack, WrapperTypes
<1>4. closing[w] = "rollback" => c # None
  BY DEF Core, Holding
<1>5. CASE UNCHANGED <<pc, cursor, wrapper, pool>>
  <2>1. closing'[w] = "rollback" => scenario.pooled /\ c # None
    BY <1>1, <1>4, <1>5 DEF WrapperTypes, Closer, AClose, ARolledBack, Core, Holding
  <2>2. UNCHANGED raw
    BY <1>5 DEF pool
  <2>3. \A x \in Wrapper : wrapper'[x] = wrapper[x]
    BY <1>5
  <2>4. Wrapper' = Wrapper /\ Task' = Task /\ None' = None
    BY SameProgram, SameSets
  <2>5. \A x \in Wrapper : closing'[x] = "rollback" => scenario'.pooled /\ wrapper'[x].connection # None
    BY <1>3, <2>1, <2>3 DEF Core, Holding
  <2>6. \A x \in Wrapper : wrapper'[x].connection # None => raw'[wrapper'[x].connection].out = x
    BY <2>2, <2>3 DEF Core, Holding
  <2>7. ASSUME NEW u \in Task
        PROVE  AtPoint(u)'
    <3>1. AtPoint(u)
      BY DEF Core, Holding
    <3> QED
      BY <1>2, <1>5, <2>2, <2>4, <3>1 DEF AtPoint, Active, Live
  <2> QED
    BY <2>4, <2>5, <2>6, <2>7 DEF Holding
<1>6. CASE Drop(w) /\ c # None /\ closing' = [closing EXCEPT ![w] = "no"]
           /\ (GiveBack(c) \/ (Closed(c) /\ UNCHANGED <<pc, cursor>>))
  <2>1. c \in Raw /\ closing'[w] = "no"
    BY <1>1, <1>6, TypeFacts DEF WrapperTypes
  <2>2. CASE Closed(c) /\ UNCHANGED <<pc, cursor>>
    <3>1. \A d \in Raw \ {c} : raw'[d] = raw[d]
      BY <1>1, <2>1, <2>2, ClosedFacts
    <3> QED
      BY <1>2, <1>3, <1>6, <2>1, <2>2, <3>1, HoldingDropped
  <2>3. CASE GiveBack(c)
    <3>1. \A d \in Raw \ {c} : raw'[d] = raw[d]
      BY <2>1, <2>3, GiveBackFacts
    <3>2. ASSUME NEW u \in Task
          PROVE  \/ pc'[u] = pc[u] /\ cursor'[u] = cursor[u]
                 \/ /\ pc[u] = "waiting" /\ pc'[u] = "granted"
                    /\ cursor'[u] = c /\ raw'[c].out = context[u]
      BY <1>1, <2>1, <2>3, GiveBackFacts DEF Goto, TaskTypes
    <3>3. \A u \in Task : context'[u] = context[u]
      BY <1>2
    <3>4. None' = None
      BY SameSets
    <3> QED
      BY <1>2, <1>3, <1>6, <2>1, <3>1, <3>2, <3>3, <3>4, HoldingDropped
  <2> QED
    BY <1>6, <2>2, <2>3
<1>7. CASE AClose(w)
  <2>1. closing' = [closing EXCEPT ![w] = "no"] \/ closing' = [closing EXCEPT ![w] = "rollback"]
    BY <1>7 DEF AClose
  <2>2. closing'[w] # "rollback" => closing' = [closing EXCEPT ![w] = "no"]
    BY <1>1, <2>1 DEF WrapperTypes
  <2> QED
    BY <1>5, <1>6, <1>7, <2>2 DEF AClose
<1>8. CASE ARolledBack(w)
  BY <1>4, <1>6, <1>8 DEF ARolledBack
<1> QED
  BY <1>7, <1>8 DEF Closer

\* and by all others.
LEMMA HoldingNext ==
  ASSUME Core, [Next]_vars
  PROVE  Holding'
<1>1. ASSUME NEW w \in Wrapper, Age(w), UNCHANGED scenario
      PROVE  Holding'
  <2>1. \A x \in Wrapper : wrapper'[x].connection = wrapper[x].connection
    BY <1>1, TypeFacts DEF Core, Age, WrapperTypes, Fields
  <2> QED
    BY <1>1, <2>1, HoldingSame DEF Age, tasks, pool
<1>2. ASSUME NEW c \in Raw, Lose(c), UNCHANGED scenario
      PROVE  Holding'
  <2> DEFINE r == [raw[c] EXCEPT !.alive = FALSE, !.lost = Epoch(raw[c].out)]
  <2>1. raw \in [Raw -> RawState] /\ raw[c] \in RawState
    BY TypeFacts DEF Core, PoolTypes
  <2>2. raw' = [raw EXCEPT ![c] = r] /\ r.out = raw[c].out
    BY <1>2, <2>1 DEF Lose, RawState
  <2> HIDE DEF r
  <2>3. \A d \in Raw : raw'[d].out = raw[d].out
    BY <2>1, <2>2
  <2> QED
    BY <1>2, <2>3, HoldingSame DEF Lose, tasks
<1>3. CASE UNCHANGED vars
  BY <1>3, HoldingSame DEF vars, tasks, pool
<1> QED
  BY <1>1, <1>2, <1>3, HoldingStep, HoldingCancel, HoldingCloser DEF Next

\* The first state.
LEMMA CoreInit ==
  ASSUME Init
  PROVE  Core
<1>1. scenario \in Scenarios
  BY DEF Init
<1>2. /\ \A t \in Task : /\ t \in Nat /\ t # None
                         /\ Kind(t) \in {"request", "plain", "independent", "temporary"}
                         /\ Parent(t) = 0 <=> Kind(t) = "request"
      /\ None \notin Wrapper
      /\ \A t \in Task : Wrappers(t) \subseteq Wrapper
  BY <1>1, TaskFacts, WrapperFacts
<1>3. /\ \A t \in Task : /\ pc[t] = IF Kind(t) = "request" THEN "body" ELSE "unborn"
                         /\ context[t] = None /\ kept[t] = None /\ cursor[t] = None
      /\ \A w \in Wrapper : wrapper[w] = Fresh /\ closing[w] = "no"
      /\ \A c \in Raw : raw[c] = Unopened
  BY DEF Init
<1>4. TypeOK
  <2>1. /\ scenario.todo \in [Task -> Nat] /\ scenario.recycles \in Nat
    <3>1. /\ scenario.parents \in Seq(Nat) /\ Len(scenario.todo) = Len(scenario.parents)
          /\ scenario.todo \in Seq(Nat) /\ scenario.recycles \in Nat
      BY <1>1, ScenarioAssumption
    <3> QED
      BY <1>1, <3>1, LenProperties, ScenarioAssumption DEF Task, Tasks
  <2>2. TaskTypes
    BY <1>3, <2>1 DEF Init, TaskTypes, Label, Outcome
  <2>3. WrapperTypes
    BY <2>1 DEF Init, WrapperTypes, Fields, Fresh
  <2>4. PoolTypes
    BY DEF Init, PoolTypes, RawState, Unopened
  <2>5. Queue
    <3>1. waiting = <<>> /\ \A t \in Task : pc[t] # "waiting"
      BY <1>3 DEF Init
    <3> QED
      BY <3>1 DEF Queue, IsInjective, ToSet
  <2> QED
    BY <1>1, <2>2, <2>3, <2>4, <2>5, TypeParts
<1>5. \A t \in Task : Held(t) = None /\ ByKind(t)
  BY <1>2, <1>3 DEF Held, ByKind, Live
<1>6. Ownership
  <2>1. ParentsWait
    BY <1>2, <1>3 DEF ParentsWait
  <2>2. HeldInTurn
    BY <1>5 DEF HeldInTurn
  <2>3. HeldByCreator
    BY <1>2, <1>5 DEF HeldByCreator
  <2>4. NeverOlder
    BY <1>2, <1>3 DEF NeverOlder
  <2> QED
    BY <1>5, <2>1, <2>2, <2>3, <2>4 DEF Ownership
<1>7. Closers
  BY <1>3 DEF Closers
<1>8. Holding
  BY <1>3 DEF Holding, AtPoint, Fresh, Active, Live
<1> QED
  BY <1>4, <1>6, <1>7, <1>8 DEF Core

\* Every step keeps it all.
LEMMA CoreStep ==
  ASSUME OneUserEach, Core, [Next]_vars
  PROVE  Core'
BY OwnershipStep, ClosersStep, TypeStep, HoldingNext DEF Core

-----------------------------------------------------------------------------
(* What is known of the connections.                                       *)

\* Steps outside acursor(): a wrapper may lose its connection, and a task that
\* waits may be given one.
LEMMA ReliableRest ==
  ASSUME Core, Reliable, UNCHANGED <<scenario, epoch>>,
         \A w \in Wrapper :
           /\ wrapper'[w].health_check_done = wrapper[w].health_check_done
           /\ \/ wrapper'[w].connection = None
              \/ /\ wrapper'[w].connection = wrapper[w].connection
                 /\ wrapper'[w].errors_occurred = wrapper[w].errors_occurred
                 /\ raw'[wrapper[w].connection].alive = raw[wrapper[w].connection].alive,
         \A c \in Raw : raw'[c].lost = raw[c].lost /\ raw'[c].failed = raw[c].failed,
         \A u \in Task : \/ AtEase(u)'
                         \/ pc'[u] = pc[u] /\ context'[u] = context[u]
                         \/ pc[u] = "waiting" /\ pc'[u] = "granted"
  PROVE  Reliable'
<1>1. Wrapper' = Wrapper /\ Raw' = Raw /\ Task' = Task /\ None' = None
  BY SameProgram, SameSets
<1>2. \A w \in Wrapper : wrapper[w].connection \in Raw \union {None}
  BY TypeFacts DEF Core
<1>3. \A u \in Task : PoolPoint(u)'
  BY DEF Reliable, PoolPoint, AtEase
<1>4. scenario'.pooled =>
        /\ \A w \in Wrapper : epoch'[w] = 0
        /\ \A c \in Raw : raw'[c].lost = 0 /\ raw'[c].failed \in {0, 1}
  BY DEF Reliable
<1>5. ASSUME ~scenario.pooled, NEW w \in Wrapper
      PROVE  Steady(w)'
  <2>1. CASE wrapper'[w].connection = None
    BY <1>1, <2>1 DEF Steady
  <2>2. CASE wrapper'[w].connection # None
    <3>1. wrapper'[w].connection = wrapper[w].connection /\ wrapper[w].connection \in Raw
      BY <1>2, <2>2
    <3> QED
      BY <1>1, <1>5, <2>2, <3>1 DEF Reliable, Steady
  <2> QED
    BY <2>1, <2>2
<1>6. ASSUME ~scenario.pooled, scenario.checks, NEW u \in Task
      PROVE  Checked(u)'
  <2>1. SUFFICES ASSUME pc'[u] \in {"connecting", "configuring", "statement"}
                 PROVE  wrapper'[context'[u]].health_check_done
    BY DEF Checked
  <2>2. pc'[u] = pc[u] /\ context'[u] = context[u]
    BY <2>1 DEF AtEase
  <2>3. context[u] \in Wrapper /\ Checked(u)
    BY <1>6, <2>1, <2>2, WorksOn DEF Active, Live, Reliable
  <2> QED
    BY <2>1, <2>2, <2>3 DEF Checked
<1> QED
  BY <1>1, <1>3, <1>4, <1>5, <1>6 DEF Reliable

\* What a step of acursor() has to show of its own wrapper and task.
LEMMA ReliableWork ==
  ASSUME Core, Reliable, UNCHANGED scenario, NEW t \in Task, Works(t), PoolPoint(t)',
         scenario.pooled => epoch' = epoch,
         scenario.pooled => \A c \in Raw : raw'[c].lost \in {0, raw[c].lost}
                                           /\ raw'[c].failed \in {0, 1, raw[c].failed},
         NEW w \in Wrapper, w = Mine(t), ~scenario.pooled => Steady(w)',
         ~scenario.pooled /\ scenario.checks => Checked(t)'
  PROVE  Reliable'
<1>1. Wrapper' = Wrapper /\ Raw' = Raw /\ Task' = Task /\ None' = None
  BY SameProgram, SameSets
<1>2. \A x \in Wrapper : wrapper[x].connection \in Raw \union {None}
  BY TypeFacts DEF Core
<1>3. /\ Active(t) /\ Touches(w)
      /\ \A u \in Task \ {t} : pc'[u] = pc[u] /\ context'[u] = context[u] /\ cursor'[u] = cursor[u]
  BY WorkTouches
<1>4. w \in Wrapper /\ \A u \in Task : Active(u) /\ context[u] = w => u = t
  BY <1>3, Exclusive DEF Core
<1>5. \A u \in Task : PoolPoint(u)'
  <2>1. \A u \in Task \ {t} : PoolPoint(u)'
    BY <1>3 DEF Reliable, PoolPoint
  <2> QED
    BY <2>1
<1>6. scenario'.pooled =>
        /\ \A x \in Wrapper : epoch'[x] = 0
        /\ \A c \in Raw : raw'[c].lost = 0 /\ raw'[c].failed \in {0, 1}
  BY DEF Reliable
<1>7. ASSUME ~scenario.pooled, NEW x \in Wrapper, x # w
      PROVE  Steady(x)'
  <2>1. wrapper'[x] = wrapper[x] /\ epoch'[x] = epoch[x]
    BY <1>3, <1>7 DEF Touches
  <2>2. CASE wrapper[x].connection = None
    BY <1>1, <2>1, <2>2 DEF Steady
  <2>3. CASE wrapper[x].connection # None
    <3>1. raw[wrapper[x].connection].out = x /\ x # None /\ wrapper[x].connection \in Raw
      BY <1>2, <2>3, TypeFacts DEF Core, Holding
    <3>2. raw'[wrapper[x].connection] = raw[wrapper[x].connection]
      BY <1>3, <1>7, <3>1 DEF Touches
    <3> QED
      BY <1>1, <1>7, <2>1, <2>3, <3>2 DEF Reliable, Steady
  <2> QED
    BY <2>2, <2>3
<1>8. ASSUME ~scenario.pooled, scenario.checks, NEW u \in Task, u # t
      PROVE  Checked(u)'
  <2>1. pc'[u] = pc[u] /\ context'[u] = context[u] /\ Checked(u)
    BY <1>3, <1>8 DEF Reliable
  <2>2. SUFFICES ASSUME pc[u] \in {"connecting", "configuring", "statement"}
                 PROVE  wrapper'[context[u]].health_check_done
    BY <2>1 DEF Checked
  <2>3. context[u] \in Wrapper \ {w}
    BY <1>4, <1>8, <2>2, WorksOn DEF Active, Live
  <2>4. wrapper'[context[u]] = wrapper[context[u]]
    BY <1>3, <2>3 DEF Touches
  <2> QED
    BY <2>1, <2>2, <2>4 DEF Checked
<1>9. ~scenario.pooled => \A x \in Wrapper : Steady(x)'
  BY <1>7
<1>10. ~scenario.pooled /\ scenario.checks => \A u \in Task : Checked(u)'
  BY <1>8
<1> QED
  BY <1>1, <1>5, <1>6, <1>9, <1>10 DEF Reliable

\* Closing a connection says nothing new of it.
LEMMA ClosedKnown ==
  ASSUME Core, NEW c \in Raw, Closed(c)
  PROVE  \A d \in Raw : raw'[d].lost = raw[d].lost /\ raw'[d].failed = raw[d].failed
BY ClosedFacts, TypeFacts DEF Core

\* aensure_connection() goes on with a connection that has been checked.
LEMMA EnsureChecked ==
  ASSUME TypeOK, NEW t \in Task, NEW w \in Wrapper, NEW f \in Fields, Ensure(t, w, f),
         context'[t] = w, f.connection # None => f.health_check_done
  PROVE  Checked(t)'
<1>1. pc \in [Task -> Label] /\ wrapper \in [Wrapper -> Fields]
  BY TypeFacts DEF TaskTypes, WrapperTypes
<1>2. CASE f.connection # None
  BY <1>1, <1>2 DEF Ensure, Checked
<1>3. CASE f.connection = None
  <2>1. wrapper'[w] = [Fresh EXCEPT !.health_check_done = TRUE]
    BY <1>1, <1>3 DEF Ensure
  <2> QED
    BY <2>1 DEF Checked, Fresh
<1> QED
  BY <1>2, <1>3

\* What it knows of a wrapper it leaves as it is, or clears.
LEMMA EnsureSteady ==
  ASSUME TypeOK, UNCHANGED epoch, NEW t \in Task, NEW w \in Wrapper, NEW f \in Fields,
         Ensure(t, w, f),
         f.connection # None =>
           /\ raw'[f.connection] = raw[f.connection]
           /\ raw[f.connection].failed # 0 =>
                ~raw[f.connection].alive /\ f.errors_occurred /\ raw[f.connection].failed = epoch[w] + 1
           /\ scenario'.checks /\ f.health_check_done /\ ~raw[f.connection].alive =>
                raw[f.connection].lost = epoch[w]
  PROVE  Steady(w)'
<1>1. wrapper \in [Wrapper -> Fields] /\ None' = None
  BY TypeFacts, SameSets DEF WrapperTypes, None
<1>2. CASE f.connection # None
  <2>1. wrapper'[w] = f
    BY <1>1, <1>2 DEF Ensure
  <2> QED
    BY <1>1, <1>2, <2>1 DEF Steady
<1>3. CASE f.connection = None
  <2>1. wrapper'[w] = [Fresh EXCEPT !.health_check_done = TRUE]
    BY <1>1, <1>3 DEF Ensure
  <2> QED
    BY <1>1, <2>1 DEF Steady, Fresh
<1> QED
  BY <1>2, <1>3

\* acursor() trusts a connection that was checked, or that needs no check,
LEMMA ACursorReliable ==
  ASSUME Core, Reliable, UNCHANGED scenario, NEW t \in Task, ACursor(t)
  PROVE  Reliable'
<1>1. TypeOK /\ pc \in [Task -> Label] /\ context \in [Task -> Wrapper \union {None}]
      /\ wrapper \in [Wrapper -> Fields]
  BY TypeFacts DEF Core, TaskTypes, WrapperTypes
<1>2. Mine(t) \in Wrapper
  BY Exclusive DEF Core, ACursor, Active, Live
<1> PICK w \in Wrapper : w = Mine(t)
  BY <1>2
<1>3. wrapper[w] \in Fields /\ UNCHANGED <<raw, epoch>> /\ context'[t] = w
  BY <1>1 DEF ACursor, Mine, pool
<1>4. CASE Checkable(wrapper[w]) /\ Goto(t, "checking") /\ UNCHANGED wrapper
  <2>1. pc'[t] = "checking" /\ ~scenario.pooled
    BY <1>1, <1>4 DEF Goto, Checkable
  <2>2. PoolPoint(t)' /\ Checked(t)'
    BY <2>1 DEF PoolPoint, Checked
  <2>3. Steady(w)'
    <3>1. Steady(w)
      BY <2>1 DEF Reliable
    <3> QED
      BY <1>3, <1>4, <3>1, SameSets DEF Steady
  <2> QED
    BY <1>3, <2>2, <2>3, ReliableWork DEF Works
<1>5. CASE Ensure(t, w, wrapper[w]) /\ ~Checkable(wrapper[w])
  <2>1. PoolPoint(t)'
    BY <1>1, <1>5 DEF Ensure, Goto, PoolPoint
  <2>2. ~scenario.pooled => Steady(w)'
    <3>1. ~scenario.pooled => Steady(w)
      BY DEF Reliable
    <3> QED
      BY <1>1, <1>3, <1>5, <3>1, EnsureSteady DEF Steady
  <2>3. ~scenario.pooled /\ scenario.checks => Checked(t)'
    BY <1>1, <1>3, <1>5, EnsureChecked DEF Checkable
  <2> QED
    BY <1>3, <2>1, <2>2, <2>3, ReliableWork DEF Works
<1> QED
  BY <1>4, <1>5 DEF ACursor, Mine

\* the check tells a connection that works,
LEMMA HealthCheckedReliable ==
  ASSUME Core, Reliable, UNCHANGED scenario, NEW t \in Task, HealthChecked(t)
  PROVE  Reliable'
<1>1. TypeOK /\ pc \in [Task -> Label] /\ context' = context
  BY TypeFacts DEF Core, TaskTypes, HealthChecked
<1>2. Mine(t) = context[t] /\ context[t] \in Wrapper
  BY WorksOn DEF HealthChecked, Active, Live
<1> PICK w \in Wrapper : w = context[t]
  BY <1>2
<1> DEFINE c == wrapper[w].connection
           usable == c # None /\ raw[c].alive
           f == [wrapper[w] EXCEPT !.connection = IF usable THEN c ELSE None,
                                   !.health_check_done = TRUE]
<1>3. wrapper[w] \in Fields /\ c \in Raw \union {None} /\ ~scenario.pooled
  BY <1>2, TypeFacts DEF Core, HealthChecked, Reliable, PoolPoint
<1>4. f \in Fields /\ f.connection = (IF usable THEN c ELSE None) /\ f.health_check_done
  BY <1>3 DEF Fields
<1>5. /\ Ensure(t, w, f) /\ UNCHANGED epoch
      /\ IF c # None /\ ~usable THEN Closed(c) ELSE UNCHANGED raw
  BY DEF HealthChecked
<1>6. usable => raw[c].failed = 0
  <2>1. Steady(w)
    BY <1>2, <1>3 DEF Reliable
  <2> QED
    BY <2>1 DEF Steady
<1> HIDE DEF f
<1>7. Steady(w)'
  BY <1>1, <1>2, <1>4, <1>5, <1>6, EnsureSteady
<1>8. Checked(t)'
  BY <1>1, <1>2, <1>4, <1>5, EnsureChecked
<1>9. PoolPoint(t)'
  BY <1>1, <1>5 DEF Ensure, Goto, PoolPoint
<1> QED
  BY <1>2, <1>3, <1>7, <1>8, <1>9, ReliableWork DEF Works

\* a connection of the pool is as good as it is,
LEMMA GetConnReliable ==
  ASSUME Core, Reliable, UNCHANGED scenario, NEW t \in Task, GetConn(t) \/ Granted(t)
  PROVE  Reliable'
<1>1. TypeOK /\ pc \in [Task -> Label] /\ raw \in [Raw -> RawState]
  BY TypeFacts DEF Core, TaskTypes, PoolTypes
<1>2. scenario.pooled /\ UNCHANGED epoch
  BY DEF GetConn, Granted, Reliable, PoolPoint
<1>3. PoolPoint(t)'
  BY <1>1, <1>2 DEF GetConn, Granted, Take, Goto, PoolPoint
<1>4. UNCHANGED raw \/ \E c \in Raw : raw' = [raw EXCEPT ![c] = OpenedFor(context[t])]
  BY DEF GetConn, Granted, pool
<1>5. \A c \in Raw : raw'[c].lost \in {0, raw[c].lost} /\ raw'[c].failed \in {0, 1, raw[c].failed}
  BY <1>1, <1>4 DEF OpenedFor
<1>6. Mine(t) \in Wrapper
  BY Exclusive DEF Core, GetConn, Granted, Active, Live
<1> QED
  BY <1>2, <1>3, <1>5, <1>6, ReliableWork DEF Works

\* a new one works,
LEMMA DialReliable ==
  ASSUME Core, Reliable, UNCHANGED scenario, NEW t \in Task, Dial(t) \/ Configured(t)
  PROVE  Reliable'
<1>1. /\ TypeOK /\ pc \in [Task -> Label] /\ raw \in [Raw -> RawState]
      /\ wrapper \in [Wrapper -> Fields] /\ None' = None
  BY TypeFacts, SameSets DEF Core, TaskTypes, PoolTypes, WrapperTypes
<1>2. Mine(t) = context[t] /\ context[t] \in Wrapper
  BY WorksOn DEF Dial, Configured, Active, Live
<1> PICK w \in Wrapper : w = context[t]
  BY <1>2
<1>3. ~scenario.pooled /\ UNCHANGED epoch /\ Steady(w) /\ (scenario.checks => Checked(t))
  BY DEF Dial, Configured, Reliable, PoolPoint
<1>4. wrapper[w] \in Fields /\ raw \in [Raw -> RawState]
  BY <1>1
<1>5. ASSUME PoolPoint(t)', Steady(w)', scenario.checks => Checked(t)'
      PROVE  Reliable'
  BY <1>2, <1>3, <1>5, ReliableWork DEF Works
<1>6. ASSUME NEW how, Unwind(t, how)
      PROVE  PoolPoint(t)' /\ Checked(t)'
  BY <1>1, <1>6 DEF Unwind, Goto, PoolPoint, Checked
<1>7. ASSUME NEW c \in Raw, Dial(t), raw' = [raw EXCEPT ![c] = OpenedFor(context[t])],
             wrapper' = [wrapper EXCEPT ![context[t]].connection = c],
             Goto(t, "configuring"), UNCHANGED context
      PROVE  Reliable'
  <2>1. pc'[t] = "configuring" /\ pc[t] = "connecting"
    BY <1>1, <1>7 DEF Goto, Dial
  <2>2. raw'[c] = OpenedFor(w)
    BY <1>1, <1>7
  <2>3. /\ wrapper'[w].connection = c
        /\ wrapper'[w].health_check_done = wrapper[w].health_check_done
    BY <1>1, <1>4, <1>7 DEF Fields
  <2>4. Steady(w)'
    BY <2>2, <2>3 DEF Steady, OpenedFor
  <2>5. scenario.checks => Checked(t)'
    BY <1>3, <1>7, <2>1, <2>3 DEF Checked
  <2>6. PoolPoint(t)'
    BY <1>3, <2>1 DEF PoolPoint
  <2> QED
    BY <1>5, <2>4, <2>5, <2>6
<1>8. CASE Unwind(t, "raised") /\ UNCHANGED <<wrapper, raw>>
  <2>1. Steady(w)'
    BY <1>1, <1>3, <1>8 DEF Steady
  <2> QED
    BY <1>5, <1>6, <1>8, <2>1
<1>9. CASE /\ Configured(t) /\ Goto(t, "statement") /\ UNCHANGED <<context, wrapper>>
  <2>1. pc'[t] = "statement" /\ pc[t] = "configuring" /\ UNCHANGED raw
    BY <1>1, <1>9 DEF Goto, Configured, pool
  <2>2. Steady(w)'
    BY <1>1, <1>3, <1>9, <2>1 DEF Steady
  <2>3. (scenario.checks => Checked(t)') /\ PoolPoint(t)'
    BY <1>3, <1>9, <2>1 DEF Checked, PoolPoint
  <2> QED
    BY <1>5, <2>2, <2>3
<1>10. CASE /\ Configured(t) /\ Unwind(t, "raised")
            /\ wrapper' = [wrapper EXCEPT ![w].errors_occurred = wrapper[w].connection # None]
  <2>1. UNCHANGED raw
    BY <1>10 DEF Configured, pool
  <2>2. /\ wrapper'[w].connection = wrapper[w].connection
        /\ wrapper'[w].health_check_done = wrapper[w].health_check_done
        /\ wrapper[w].connection # None => wrapper'[w].errors_occurred
    BY <1>1, <1>4, <1>10 DEF Fields
  <2>3. Steady(w)'
    BY <1>1, <1>3, <2>1, <2>2 DEF Steady
  <2> QED
    BY <1>5, <1>6, <1>10, <2>3
<1> QED
  BY <1>7, <1>8, <1>9, <1>10 DEF Dial, Configured

\* a statement that fails is noted,
LEMMA StatementReliable ==
  ASSUME Core, Reliable, UNCHANGED scenario, NEW t \in Task, Statement(t)
  PROVE  Reliable'
<1> DEFINE c == cursor[t]
<1>1. /\ TypeOK /\ pc \in [Task -> Label] /\ raw \in [Raw -> RawState]
      /\ wrapper \in [Wrapper -> Fields] /\ None' = None
  BY TypeFacts, SameSets DEF Core, TaskTypes, PoolTypes, WrapperTypes
<1>2. Mine(t) = context[t] /\ context[t] \in Wrapper
  BY WorksOn DEF Statement, Active, Live
<1> PICK w \in Wrapper : w = context[t]
  BY <1>2
<1>3. c # None /\ wrapper[w].connection = c /\ c \in Raw
  BY TypeFacts DEF Statement, Core, Holding, AtPoint
<1>4. UNCHANGED epoch /\ wrapper[w] \in Fields /\ raw[c] \in RawState
  BY <1>1, <1>3 DEF Statement
<1>5. /\ ~scenario.pooled => Steady(w) /\ (scenario.checks => Checked(t))
      /\ scenario.pooled => epoch[w] = 0 /\ raw[c].failed \in {0, 1}
  BY <1>3 DEF Reliable
<1>6. PoolPoint(t)'
  BY <1>1 DEF Statement, Unwind, Goto, PoolPoint
<1>7. \/ pc'[t] = "statement" /\ context'[t] = w
      \/ pc'[t] \notin {"connecting", "configuring", "statement"}
  <2>1. CASE UNCHANGED <<pc, context>>
    BY <2>1 DEF Statement
  <2>2. CASE Goto(t, "body")
    BY <1>1, <2>2 DEF Goto
  <2>3. CASE Unwind(t, "raised")
    BY <1>1, <2>3 DEF Unwind, Goto
  <2> QED
    BY <2>1, <2>2, <2>3 DEF Statement
<1>8. CASE raw[c].alive
  <2> DEFINE r == [raw[c] EXCEPT !.pending = @ \/ scenario.manual]
  <2>1. r.lost = raw[c].lost /\ r.failed = raw[c].failed /\ r.alive = raw[c].alive
    BY <1>4 DEF RawState
  <2>2. raw' = [raw EXCEPT ![c] = r] /\ UNCHANGED wrapper
    BY <1>8 DEF Statement
  <2> HIDE DEF r
  <2>3. \A d \in Raw : /\ raw'[d].lost = raw[d].lost /\ raw'[d].failed = raw[d].failed
                       /\ raw'[d].alive = raw[d].alive
    BY <1>1, <1>3, <2>1, <2>2
  <2>4. ~scenario.pooled => Steady(w)'
    BY <1>1, <1>3, <1>4, <1>5, <2>2, <2>3 DEF Steady
  <2>5. ~scenario.pooled /\ scenario.checks => Checked(t)'
    BY <1>5, <1>7, <2>2 DEF Checked, Statement
  <2> QED
    BY <1>2, <1>4, <1>6, <2>3, <2>4, <2>5, ReliableWork DEF Works
<1>9. CASE ~raw[c].alive
  <2> DEFINE r == [raw[c] EXCEPT !.failed = IF @ = 0 THEN epoch[w] + 1 ELSE @]
             f == [wrapper[w] EXCEPT !.errors_occurred = TRUE]
  <2>1. /\ r.lost = raw[c].lost /\ r.alive = raw[c].alive
        /\ r.failed = IF raw[c].failed = 0 THEN epoch[w] + 1 ELSE raw[c].failed
    BY <1>4 DEF RawState
  <2>2. /\ f.connection = c /\ f.health_check_done = wrapper[w].health_check_done
        /\ f.errors_occurred
    BY <1>3, <1>4 DEF Fields
  <2>3. raw' = [raw EXCEPT ![c] = r] /\ wrapper' = [wrapper EXCEPT ![w] = f]
    BY <1>9 DEF Statement
  <2> HIDE DEF r, f
  <2>4. raw'[c] = r /\ wrapper'[w] = f /\ \A d \in Raw \ {c} : raw'[d] = raw[d]
    BY <1>1, <1>3, <2>3
  <2>5. ~scenario.pooled => Steady(w)'
    BY <1>1, <1>3, <1>4, <1>5, <1>9, <2>1, <2>2, <2>4 DEF Steady
  <2>6. ~scenario.pooled /\ scenario.checks => Checked(t)'
    BY <1>5, <1>7, <2>2, <2>4 DEF Checked, Statement
  <2>7. scenario.pooled => r.failed \in {0, 1}
    BY <1>5, <2>1
  <2>8. scenario.pooled => \A d \in Raw : raw'[d].lost \in {0, raw[d].lost}
                                          /\ raw'[d].failed \in {0, 1, raw[d].failed}
    BY <2>1, <2>4, <2>7
  <2> QED
    BY <1>2, <1>4, <1>6, <2>5, <2>6, <2>8, ReliableWork DEF Works
<1> QED
  BY <1>8, <1>9

\* and a recycling forgets what was noted once it has acted upon it.
LEMMA RecycleReliable ==
  ASSUME Core, Reliable, UNCHANGED scenario, NEW t \in Task, Recycle(t) \/ RecycleChecked(t)
  PROVE  Reliable'
<1>1. /\ TypeOK /\ pc \in [Task -> Label] /\ raw \in [Raw -> RawState]
      /\ wrapper \in [Wrapper -> Fields] /\ None' = None
  BY TypeFacts, SameSets DEF Core, TaskTypes, PoolTypes, WrapperTypes
<1>2. Mine(t) = context[t] /\ context[t] \in Wrapper
  BY WorksOn, TypeFacts DEF Recycle, RecycleChecked, Active, Live, Mine, Core
<1> PICK w \in Wrapper : w = context[t]
  BY <1>2
<1> DEFINE c == wrapper[w].connection
<1>3. ~scenario.pooled /\ Steady(w)
  BY DEF Recycle, RecycleChecked, Reliable, PoolPoint
<1>4. c # None /\ c \in Raw /\ wrapper[w] \in Fields /\ raw[c] \in RawState
  BY <1>1, TypeFacts DEF Recycle, RecycleChecked, Core, Holding, AtPoint
<1>5. pc'[t] \in {"recycling", "body"}
  BY <1>1 DEF Recycle, RecycleChecked, Recycled, Goto
<1>6. PoolPoint(t)' /\ Checked(t)'
  BY <1>3, <1>5 DEF PoolPoint, Checked
<1>7. SUFFICES Steady(w)'
  BY <1>2, <1>3, <1>6, ReliableWork DEF Works
<1>8. ASSUME NEW f \in Fields, Recycled(t, w, f, TRUE)
      PROVE  Steady(w)'
  <2>1. [f EXCEPT !.connection = None].connection = None
    BY DEF Fields
  <2>2. wrapper'[w].connection = None
    BY <1>1, <1>8, <2>1 DEF Recycled
  <2> QED
    BY <1>1, <2>2 DEF Steady
<1>9. ASSUME NEW f \in Fields, f.connection = c, Recycled(t, w, f, FALSE), raw[c].failed = 0,
             raw[c].alive \/ ~f.health_check_done
      PROVE  Steady(w)'
  <2>1. [f EXCEPT !.connection = @] = f
    BY DEF Fields
  <2>2. wrapper'[w] = f /\ UNCHANGED raw
    BY <1>1, <1>9, <2>1 DEF Recycled
  <2> QED
    BY <1>1, <1>9, <2>2 DEF Steady
<1>10. CASE Recycle(t)
  <2> DEFINE f == [wrapper[w] EXCEPT !.health_check_done = FALSE]
             manual == raw[f.connection].pending
  <2>1. /\ f \in Fields /\ f.connection = c /\ f.errors_occurred = wrapper[w].errors_occurred
        /\ ~f.health_check_done /\ f.obsolete \in BOOLEAN
    BY <1>4 DEF Fields
  <2>2. manual \in BOOLEAN
    BY <1>4, <2>1 DEF RawState
  <2>3. IF ~manual /\ f.errors_occurred
          THEN wrapper' = [wrapper EXCEPT ![w] = f] /\ UNCHANGED <<raw, epoch>>
          ELSE Recycled(t, w, f, manual \/ f.obsolete)
    BY <1>10 DEF Recycle
  <2> HIDE DEF f
  <2>4. CASE ~manual /\ f.errors_occurred
    <3>1. wrapper'[w] = f /\ UNCHANGED <<raw, epoch>>
      BY <1>1, <2>3, <2>4
    <3> QED
      BY <1>1, <1>3, <1>4, <2>1, <3>1 DEF Steady
  <2>5. CASE ~(~manual /\ f.errors_occurred) /\ (manual \/ f.obsolete)
    <3>1. Recycled(t, w, f, TRUE)
      <4>1. (manual \/ f.obsolete) = TRUE
        BY <2>1, <2>2, <2>5
      <4> QED
        BY <2>3, <2>5, <4>1
    <3> QED
      BY <1>8, <2>1, <3>1
  <2>6. CASE ~manual /\ ~f.errors_occurred /\ ~f.obsolete
    <3>1. Recycled(t, w, f, FALSE)
      <4>1. (manual \/ f.obsolete) = FALSE
        BY <2>1, <2>2, <2>6
      <4> QED
        BY <2>3, <2>6, <4>1
    <3>2. raw[c].failed = 0
      BY <1>3, <1>4, <2>1, <2>6 DEF Steady
    <3> QED
      BY <1>9, <2>1, <3>1, <3>2
  <2> QED
    BY <2>4, <2>5, <2>6
<1>11. CASE RecycleChecked(t)
  <2> DEFINE f == [wrapper[w] EXCEPT !.errors_occurred = FALSE, !.health_check_done = TRUE]
  <2>1. f \in Fields /\ f.connection = c /\ wrapper[w].obsolete \in BOOLEAN
    BY <1>4 DEF Fields
  <2>2. IF raw[c].alive THEN Recycled(t, w, f, wrapper[w].obsolete)
                        ELSE Recycled(t, w, wrapper[w], TRUE)
    BY <1>11 DEF RecycleChecked
  <2> HIDE DEF f
  <2>3. CASE ~raw[c].alive
    BY <1>4, <1>8, <2>2, <2>3
  <2>4. CASE raw[c].alive /\ wrapper[w].obsolete
    <3>1. Recycled(t, w, f, TRUE)
      <4>1. wrapper[w].obsolete = TRUE
        BY <2>1, <2>4
      <4> QED
        BY <2>2, <2>4, <4>1
    <3> QED
      BY <1>8, <2>1, <3>1
  <2>5. CASE raw[c].alive /\ ~wrapper[w].obsolete
    <3>1. Recycled(t, w, f, FALSE)
      <4>1. wrapper[w].obsolete = FALSE
        BY <2>1, <2>5
      <4> QED
        BY <2>2, <2>5, <4>1
    <3>2. raw[c].failed = 0
      BY <1>3, <1>4, <2>5 DEF Steady
    <3> QED
      BY <1>9, <2>1, <2>5, <3>1, <3>2
  <2> QED
    BY <2>3, <2>4, <2>5
<1> QED
  BY <1>10, <1>11

\* What is known of the connections stays true.
LEMMA ReliableStep ==
  ASSUME Core, Reliable, [Next]_vars
  PROVE  Reliable'
<1>1. /\ TypeOK /\ TaskTypes /\ WrapperTypes /\ Ownership /\ pc \in [Task -> Label]
      /\ raw \in [Raw -> RawState] /\ wrapper \in [Wrapper -> Fields]
  BY TypeFacts DEF Core, TaskTypes, PoolTypes, WrapperTypes
<1>2. ASSUME UNCHANGED <<scenario, epoch, wrapper, raw>>,
             \A u \in Task : AtEase(u)' \/ (pc'[u] = pc[u] /\ context'[u] = context[u])
      PROVE  Reliable'
  BY <1>2, ReliableRest
<1>3. ASSUME NEW t \in Task, Leaves(t), UNCHANGED <<scenario, epoch, wrapper, raw>>
      PROVE  Reliable'
  <2>1. AtEase(t)' /\ \A u \in Task \ {t} : pc'[u] = pc[u] /\ context'[u] = context[u]
    BY <1>1, <1>3 DEF Leaves, Unwind, Goto, AtEase, TaskTypes
  <2> QED
    BY <1>2, <1>3, <2>1
<1>4. ASSUME NEW w \in Wrapper, UNCHANGED scenario, UNCHANGED epoch, Drop(w),
             \A c \in Raw : raw'[c].lost = raw[c].lost /\ raw'[c].failed = raw[c].failed,
             \A d \in Raw \ {wrapper[w].connection} : raw'[d].alive = raw[d].alive,
             wrapper[w].connection # None,
             \A u \in Task : \/ AtEase(u)'
                             \/ pc'[u] = pc[u] /\ context'[u] = context[u]
                             \/ pc[u] = "waiting" /\ pc'[u] = "granted"
      PROVE  Reliable'
  <2>1. \A x \in Wrapper : wrapper[x] \in Fields /\ wrapper[x].connection \in Raw \union {None}
    BY TypeFacts DEF Core
  <2>2. /\ wrapper'[w].connection = None
        /\ wrapper'[w].health_check_done = wrapper[w].health_check_done
        /\ \A x \in Wrapper \ {w} : wrapper'[x] = wrapper[x]
    BY <1>1, <1>4, <2>1 DEF Drop, Fields
  <2>3. ASSUME NEW x \in Wrapper, wrapper'[x].connection # None
        PROVE  /\ wrapper'[x].connection = wrapper[x].connection
               /\ wrapper'[x].errors_occurred = wrapper[x].errors_occurred
               /\ raw'[wrapper[x].connection].alive = raw[wrapper[x].connection].alive
    <3>1. x # w /\ wrapper'[x] = wrapper[x] /\ wrapper[x].connection \in Raw
      BY <2>1, <2>2, <2>3
    <3>2. wrapper[x].connection # wrapper[w].connection
      BY <1>4, <2>3, <3>1 DEF Core, Holding
    <3> QED
      BY <1>4, <3>1, <3>2
  <2> QED
    BY <1>4, <2>2, <2>3, ReliableRest
<1>5. ASSUME NEW t \in Task, Step(t), UNCHANGED scenario
      PROVE  Reliable'
  <2>1. CASE Works(t)
    BY <1>5, <2>1, ACursorReliable, HealthCheckedReliable, GetConnReliable, DialReliable,
       StatementReliable, RecycleReliable DEF Works
  <2>2. CASE PoolTimeout(t) \/ Gather(t) \/ Gathered(t) \/ Leave(t) \/ EveryClosed(t)
    <3>1. UNCHANGED <<wrapper, raw, epoch>>
      BY <2>2, RestTouches
    <3>2. CASE Leaves(t)
      BY <1>3, <1>5, <3>1, <3>2
    <3>3. CASE Gather(t)
      <4>1. \A u \in Task : AtEase(u)' \/ (pc'[u] = pc[u] /\ context'[u] = context[u])
        BY <1>1, <3>3 DEF Gather, AtEase
      <4> QED
        BY <1>2, <1>5, <3>1, <4>1
    <3>4. CASE UNCHANGED context /\ (Goto(t, "body") \/ Goto(t, "done"))
      <4>1. AtEase(t)' /\ \A u \in Task \ {t} : pc'[u] = pc[u]
        BY <1>1, <3>4 DEF Goto, AtEase, TaskTypes
      <4> QED
        BY <1>2, <1>5, <3>1, <3>4, <4>1
    <3> QED
      BY <2>2, <3>2, <3>3, <3>4
      DEF PoolTimeout, LeaveQueue, Gathered, Leave, EveryClosed, Leaves, Live
  <2> QED
    BY <1>5, <2>1, <2>2 DEF Step, Works
<1>6. ASSUME NEW t \in Task, Cancel(t), UNCHANGED scenario
      PROVE  Reliable'
  <2>1. CASE Leaves(t)
    <3>1. UNCHANGED <<wrapper, raw, epoch>>
      BY <1>6, <2>1 DEF Cancel, CancelClosing, LeaveQueue, pool, Leaves, Live
    <3> QED
      BY <1>3, <1>6, <2>1, <3>1
  <2>2. CASE CancelClosing(t)
    <3> DEFINE w == Awaited(t)
    <3>1. UNCHANGED <<context, raw, epoch>> /\ pc[t] = "closing" /\ Goto(t, "done")
      BY <2>2 DEF CancelClosing, pool
    <3>2. AtEase(t)' /\ \A u \in Task \ {t} : pc'[u] = pc[u]
      BY <1>1, <3>1 DEF Goto, AtEase, TaskTypes
    <3>3. CASE UNCHANGED wrapper
      BY <1>2, <1>6, <3>1, <3>2, <3>3
    <3>4. CASE Drop(w) /\ closing[w] = "rollback"
      <4>1. w \in Wrapper
        BY <1>1, <3>1, ClosingExclusive
      <4>2. wrapper[w].connection # None
        BY <3>4, <4>1 DEF Core, Holding
      <4> QED
        BY <1>4, <1>6, <3>1, <3>2, <3>4, <4>1, <4>2
    <3> QED
      BY <2>2, <3>3, <3>4 DEF CancelClosing
  <2> QED
    BY <1>6, <2>1, <2>2, CancelMoves
<1>7. ASSUME NEW w \in Wrapper, Closer(w), UNCHANGED scenario
      PROVE  Reliable'
  <2> DEFINE c == wrapper[w].connection
  <2>1. UNCHANGED epoch /\ UNCHANGED context /\ (closing[w] = "rollback" => c # None)
    BY <1>7 DEF Closer, AClose, ARolledBack, Core, Holding
  <2>2. c \in Raw \union {None}
    BY TypeFacts DEF Core
  <2>3. CASE UNCHANGED <<pc, cursor, wrapper, pool>>
    BY <1>2, <1>7, <2>1, <2>3 DEF pool
  <2>4. CASE Drop(w) /\ c # None /\ Closed(c) /\ UNCHANGED pc
    <3>1. \A d \in Raw \ {c} : raw'[d] = raw[d]
      BY <2>2, <2>4, ClosedFacts, TypeFacts DEF Core
    <3>2. \A d \in Raw : raw'[d].lost = raw[d].lost /\ raw'[d].failed = raw[d].failed
      BY <2>2, <2>4, ClosedKnown
    <3> QED
      BY <1>4, <1>7, <2>1, <2>4, <3>1, <3>2
  <2>5. CASE Drop(w) /\ c # None /\ GiveBack(c)
    <3>1. /\ \A d \in Raw \ {c} : raw'[d] = raw[d]
          /\ raw'[c] = [raw[c] EXCEPT !.out = raw'[c].out, !.pending = FALSE]
      BY <2>2, <2>5, GiveBackFacts
    <3>2. raw[c] \in RawState
      BY <1>1, <2>2, <2>5
    <3>3. raw'[c].lost = raw[c].lost /\ raw'[c].failed = raw[c].failed
      BY <3>1, <3>2 DEF RawState
    <3>4. \A d \in Raw : raw'[d].lost = raw[d].lost /\ raw'[d].failed = raw[d].failed
      BY <3>1, <3>3
    <3>5. \A u \in Task : pc'[u] = pc[u] \/ (pc[u] = "waiting" /\ pc'[u] = "granted")
      BY <1>1, <2>2, <2>5, GiveBackFacts DEF Goto
    <3> QED
      BY <1>4, <1>7, <2>1, <2>5, <3>1, <3>4, <3>5
  <2> QED
    BY <1>7, <2>1, <2>3, <2>4, <2>5 DEF Closer, AClose, ARolledBack
<1>8. ASSUME NEW w \in Wrapper, Age(w), UNCHANGED scenario
      PROVE  Reliable'
  <2>1. \A x \in Wrapper : /\ wrapper'[x].connection = wrapper[x].connection
                           /\ wrapper'[x].health_check_done = wrapper[x].health_check_done
                           /\ wrapper'[x].errors_occurred = wrapper[x].errors_occurred
    BY <1>1, <1>8 DEF Age, Fields
  <2>2. UNCHANGED <<pc, context, raw, epoch>>
    BY <1>8 DEF Age, tasks, pool
  <2> QED
    BY <1>8, <2>1, <2>2, ReliableRest
<1>9. ASSUME NEW c \in Raw, Lose(c), UNCHANGED scenario
      PROVE  Reliable'
  <2> DEFINE r == [raw[c] EXCEPT !.alive = FALSE, !.lost = Epoch(raw[c].out)]
  <2>1. raw[c] \in RawState /\ raw' = [raw EXCEPT ![c] = r]
    BY <1>1, <1>9 DEF Lose, RawState
  <2>2. ~r.alive /\ r.lost = Epoch(raw[c].out) /\ r.failed = raw[c].failed
    BY <2>1 DEF RawState
  <2> HIDE DEF r
  <2>3. raw'[c] = r /\ \A d \in Raw \ {c} : raw'[d] = raw[d]
    BY <1>1, <2>1
  <2>4. /\ UNCHANGED <<pc, context, wrapper, epoch>>
        /\ Wrapper' = Wrapper /\ Raw' = Raw /\ Task' = Task /\ None' = None
    BY <1>9, SameProgram, SameSets DEF Lose, tasks
  <2>5. \A u \in Task : PoolPoint(u)' /\ (~scenario.pooled /\ scenario.checks => Checked(u)')
    BY <1>9, <2>4 DEF Reliable, PoolPoint, Checked
  <2>6. ASSUME scenario.pooled
        PROVE  /\ \A w \in Wrapper : epoch'[w] = 0
               /\ \A d \in Raw : raw'[d].lost = 0 /\ raw'[d].failed \in {0, 1}
    <3>1. Epoch(raw[c].out) = 0
      BY <1>1, <2>6 DEF RawState, Epoch, Reliable
    <3> QED
      BY <2>2, <2>3, <2>4, <2>6, <3>1 DEF Reliable
  <2>7. ASSUME ~scenario.pooled, NEW w \in Wrapper
        PROVE  Steady(w)'
    <3>1. Steady(w)
      BY <2>7 DEF Reliable
    <3>2. CASE wrapper[w].connection # c
      <4>1. wrapper[w].connection # None => raw'[wrapper[w].connection] = raw[wrapper[w].connection]
        BY <2>3, <3>2, TypeFacts DEF Core
      <4> QED
        BY <1>9, <2>4, <3>1, <4>1 DEF Steady
    <3>3. CASE wrapper[w].connection = c
      <4>1. raw[c].out = w /\ w # None
        BY <3>3, TypeFacts DEF Core, Holding
      <4>2. r.lost = epoch[w]
        BY <2>2, <4>1 DEF Epoch
      <4> QED
        BY <1>9, <2>2, <2>3, <2>4, <3>1, <3>3, <4>2 DEF Steady
    <3> QED
      BY <3>2, <3>3
  <2> QED
    BY <1>9, <2>4, <2>5, <2>6, <2>7 DEF Reliable
<1>10. CASE UNCHANGED vars
  BY <1>2, <1>10 DEF vars, tasks, pool
<1> QED
  BY <1>5, <1>6, <1>7, <1>8, <1>9, <1>10 DEF Next

-----------------------------------------------------------------------------
(* Where the connections are.                                              *)

\* A task that is done stays as it is.
LEMMA DoneStays ==
  ASSUME Core, [Next]_vars, NEW u \in Task, pc[u] = "done"
  PROVE  pc'[u] = "done" /\ outcome'[u] = outcome[u] /\ kept'[u] = kept[u]
<1>1. TypeOK /\ TaskTypes /\ Ownership
  BY TypeFacts DEF Core
<1>2. ASSUME NEW t \in Task, Leaves(t)
      PROVE  pc'[u] = "done" /\ outcome'[u] = outcome[u] /\ kept'[u] = kept[u]
  BY <1>1, <1>2 DEF Leaves, Live, Unwind, Goto, TaskTypes
<1>3. ASSUME NEW t \in Task, Step(t), UNCHANGED scenario
      PROVE  pc'[u] = "done" /\ outcome'[u] = outcome[u] /\ kept'[u] = kept[u]
  <2>1. CASE Works(t)
    <3>1. Active(t) /\ \A x \in Task \ {t} : pc'[x] = pc[x]
      BY <2>1, WorkTouches
    <3> QED
      BY <1>2, <1>3, <2>1, <3>1, WorkGoes DEF Active, Live
  <2>2. CASE PoolTimeout(t) \/ Gathered(t) \/ Leave(t) \/ EveryClosed(t)
    BY <1>1, <1>2, <2>2 DEF PoolTimeout, LeaveQueue, Gathered, Leave, EveryClosed, Leaves, Live,
                            Goto, TaskTypes
  <2>3. CASE Gather(t)
    BY <1>1, <2>3 DEF Gather, TaskTypes
  <2> QED
    BY <1>3, <2>1, <2>2, <2>3 DEF Step, Works
<1>4. ASSUME NEW t \in Task, Cancel(t)
      PROVE  pc'[u] = "done" /\ outcome'[u] = outcome[u] /\ kept'[u] = kept[u]
  BY <1>1, <1>2, <1>4, CancelMoves DEF CancelClosing, Goto, TaskTypes
<1>5. ASSUME NEW w \in Wrapper, Closer(w)
      PROVE  pc'[u] = "done" /\ outcome'[u] = outcome[u] /\ kept'[u] = kept[u]
  BY <1>1, <1>5, CloserMoves DEF Closer, AClose, ARolledBack, Calm, Phase
<1>6. CASE UNCHANGED tasks
  BY <1>6 DEF tasks
<1> QED
  BY <1>3, <1>4, <1>5, <1>6 DEF Next, Age, Lose, vars

\* What a cancelled task left behind stays behind.
LEMMA AbandonedStays ==
  ASSUME Core, [Next]_vars, NEW w, Abandoned(w)
  PROVE  Abandoned(w)'
<1>1. PICK t \in Task :
        Kind(t) # "request" /\ pc[t] = "done" /\ outcome[t] = "abandoned" /\ Awaited(t) = w
  BY DEF Abandoned
<1>2. pc'[t] = "done" /\ outcome'[t] = outcome[t] /\ kept'[t] = kept[t]
  BY <1>1, DoneStays
<1>3. UNCHANGED scenario
  BY DEF Next, vars
<1>4. Task' = Task /\ Kind(t)' = Kind(t) /\ Independent(t)' = Independent(t) /\ None' = None
  BY <1>3, SameProgram, SameSets
<1>5. Kind(t) \in {"plain", "independent", "temporary"}
  BY <1>1, TaskFacts, TypeFacts DEF Core
<1>6. Awaited(t)' = Awaited(t)
  BY <1>2, <1>4, <1>5 DEF Awaited, ClosedOnExit
<1> QED
  BY <1>1, <1>2, <1>4, <1>6 DEF Abandoned

\* and what it left open stays open.
LEMMA LeftOpenStays ==
  ASSUME Core, [Next]_vars, NEW w, LeftOpen(w)
  PROVE  LeftOpen(w)'
<1>1. PICK t \in Task :
        Kind(t) = "independent" /\ pc[t] = "done" /\ outcome[t] = "abandoned" /\ w = Independent(t)
  BY DEF LeftOpen
<1>2. pc'[t] = "done" /\ outcome'[t] = outcome[t]
  BY <1>1, DoneStays
<1>3. UNCHANGED scenario
  BY DEF Next, vars
<1> QED
  BY <1>1, <1>2, <1>3, SameProgram DEF LeftOpen

\* A task that keeps working keeps its wrapper in use.
LEMMA StaysInUse ==
  ASSUME UNCHANGED scenario, NEW w \in Wrapper, None \notin Wrapper, InUse(w),
         \A u \in Task : Live(u) /\ context[u] = w => Live(u)' /\ context'[u] = w
  PROVE  InUse(w)'
<1>1. PICK u \in Task : w \in Wrappers(u) /\ Live(u) /\ context[u] = w
  BY DEF InUse
<1>2. Task' = Task /\ Wrappers(u)' = Wrappers(u)
  BY SameProgram
<1> QED
  BY <1>1, <1>2 DEF InUse

\* The wrapper that a task works on is in use by the task that created it.
LEMMA MineInUse ==
  ASSUME Core, NEW t \in Task, Active(t), context[t] # None
  PROVE  InUse(context[t])
<1>1. scenario \in Scenarios /\ context[t] \in Wrapper /\ TypeOK /\ Ownership
  BY TypeFacts DEF Core
<1>2. PICK u \in Task : context[t] \in Wrappers(u)
  BY <1>1, WrapperFacts
<1>3. Held(t) = context[t]
  BY DEF Held, Active, Live
<1>4. Held(u) = context[t]
  BY <1>1, <1>2, <1>3 DEF Ownership, HeldByCreator
<1>5. Mine(t) = context[t]
  BY DEF Mine
<1>6. pc[u] # "closing"
  <2>1. pc[u] = "closing" => Awaited(u) # context[t]
    BY <1>5, Exclusive DEF Core
  <2> QED
    BY <1>4, <2>1 DEF Held
<1>7. Live(u) /\ context[u] = context[t]
  BY <1>4, <1>6 DEF Held
<1> QED
  BY <1>2, <1>7 DEF InUse

\* A step of acursor() loses no connection.
LEMMA AccountedWork ==
  ASSUME Core, Accounted, [Next]_vars, UNCHANGED scenario, NEW t \in Task, Works(t), ~Leaves(t)
  PROVE  Accounted'
<1>1. Wrapper' = Wrapper /\ Raw' = Raw /\ Task' = Task /\ None' = None
  BY SameProgram, SameSets
<1>2. /\ TypeOK /\ Ownership /\ scenario \in Scenarios /\ None \notin Wrapper
      /\ \A x \in Wrapper : wrapper[x].connection \in Raw \union {None}
      /\ \A c \in Raw : raw[c].out \in Wrapper \union {None}
  BY TypeFacts DEF Core, RawState
<1>3. /\ Active(t) /\ Touches(Mine(t))
      /\ Keeps(Mine(t)) \/ Gets(Mine(t)) \/ GivesUp(Mine(t))
      /\ \A u \in Task \ {t} : pc'[u] = pc[u] /\ context'[u] = context[u] /\ cursor'[u] = cursor[u]
  BY WorkTouches
<1>4. /\ Mine(t) \in Wrapper /\ closing[Mine(t)] = "no"
      /\ \A u \in Task : pc[u] = "closing" => Awaited(u) # Mine(t)
  BY <1>3, Exclusive DEF Core
<1> PICK w \in Wrapper : w = Mine(t)
  BY <1>4
<1>5. /\ UNCHANGED <<outcome, kept, closing>> /\ \A u \in Task : Phase(u)' = Phase(u)
      /\ context' = [context EXCEPT ![t] = w]
  <2>1. (Calm \/ LooksUp(t)) /\ UNCHANGED closing
    BY <1>2, WorkMoves
  <2>2. UNCHANGED <<outcome, kept>> /\ context' = [context EXCEPT ![t] = w]
    BY WorkGoes
  <2> QED
    BY <2>1, <2>2 DEF Calm, LooksUp
<1>6. \A u \in Task :
        /\ Live(u)' <=> Live(u)
        /\ \A p \in {"unborn", "gathering", "closing", "done"} : pc'[u] = p <=> pc[u] = p
        /\ context[u] # None => context'[u] = context[u]
  <2>1. \A u \in Task : \A p \in {"unborn", "gathering", "closing", "done"} : pc'[u] = p <=> pc[u] = p
    BY <1>5 DEF Phase
  <2>2. \A u \in Task : context[u] # None => context'[u] = context[u]
    BY <1>2, <1>5, TypeFacts DEF Mine, TaskTypes
  <2> QED
    BY <2>1, <2>2 DEF Live
<1>7. \A x \in Wrapper : InUse(x) => InUse(x)'
  BY <1>2, <1>6, StaysInUse
<1>8. \A x \in Wrapper \ {w} : wrapper'[x] = wrapper[x]
  BY <1>3 DEF Touches
<1>9. \A x : (Abandoned(x) => Abandoned(x)') /\ (LeftOpen(x) => LeftOpen(x)')
  BY AbandonedStays, LeftOpenStays
<1>10. Gets(w) => pc[t] # "body" /\ context[t] = w
  <2>1. pc[t] = "body" => ACursor(t) \/ Recycle(t)
    BY DEF Works, HealthChecked, GetConn, Granted, Dial, Configured, Statement, RecycleChecked
  <2>2. ACursor(t) => ~Gets(w)
    BY ACursorTouches DEF Keeps, Gets
  <2>3. Recycle(t) => ~Gets(w)
    BY DEF Recycle, Gets, Mine
  <2>4. pc[t] # "body" => context[t] = w
    BY <1>3, WorksOn
  <2> QED
    BY <2>1, <2>2, <2>3, <2>4
<1>11. Gets(w) => InUse(w)
  BY <1>2, <1>3, <1>10, MineInUse
<1>12. ASSUME scenario.pooled, NEW c \in Raw, raw'[c].out # None
       PROVE  \/ wrapper'[raw'[c].out].connection = c
              \/ OnItsWay(c)' \/ Abandoned(raw[c].out)'
  <2>1. CASE Gets(w) /\ c = wrapper'[w].connection
    BY <2>1 DEF Gets
  <2>2. CASE ~(Gets(w) /\ c = wrapper'[w].connection)
    <3>1. raw'[c].out = raw[c].out
      BY <1>3, <1>12, <2>2 DEF Keeps, Gets, GivesUp
    <3>2. CASE wrapper[raw[c].out].connection = c
      <4>1. raw[c].out \in Wrapper
        BY <1>2, <1>12, <3>1
      <4>2. CASE raw[c].out # w
        BY <1>8, <3>1, <3>2, <4>1, <4>2
      <4>3. CASE raw[c].out = w
        <5>1. wrapper[w].connection = c /\ c # None
          BY <3>2, <4>3, TypeFacts DEF Core
        <5> QED
          BY <1>3, <1>12, <3>1, <4>3, <5>1 DEF Keeps, Gets, GivesUp
      <4> QED
        BY <4>2, <4>3
    <3>3. CASE OnItsWay(c)
      <4>1. PICK u \in Task : pc[u] = "granted" /\ cursor[u] = c
        BY <3>3 DEF OnItsWay
      <4>2. u # t
        <5>1. SUFFICES ASSUME u = t PROVE FALSE
          OBVIOUS
        <5>2. Granted(t)
          BY <4>1, <5>1 DEF Works, ACursor, HealthChecked, GetConn, Dial, Configured, Statement,
                            Recycle, RecycleChecked
        <5>3. Gets(w) /\ context[t] = w
          BY <1>10, <5>2, GrantedTouches
        <5>4. wrapper \in [Wrapper -> Fields] /\ wrapper' = [wrapper EXCEPT ![w].connection = c]
          BY <4>1, <5>1, <5>2, <5>3, TypeFacts DEF Granted, Take, Core, WrapperTypes
        <5>5. wrapper'[w].connection = c
          BY <5>4 DEF Fields
        <5> QED
          BY <2>2, <5>3, <5>5
      <4> QED
        BY <1>1, <1>3, <4>1, <4>2 DEF OnItsWay
    <3>4. CASE Abandoned(raw[c].out)
      <4>1. PICK x : x = raw[c].out
        OBVIOUS
      <4>2. x = raw'[c].out /\ Abandoned(x)'
        BY <1>9, <3>1, <3>4, <4>1
      <4> QED
        BY <4>2 DEF Abandoned
    <3> QED
      BY <1>12, <3>1, <3>2, <3>3, <3>4 DEF Accounted
  <2> QED
    BY <2>1, <2>2
<1>13. ASSUME NEW x \in Wrapper, wrapper'[x].connection # None
       PROVE  InUse(x)' \/ closing'[x] # "no" \/ LeftOpen(x)'
  <2>1. CASE wrapper[x].connection # None
    BY <1>5, <1>7, <1>9, <2>1 DEF Accounted
  <2>2. CASE wrapper[x].connection = None
    <3>1. x = w /\ Gets(w)
      BY <1>3, <1>8, <1>13, <2>2 DEF Keeps, Gets, GivesUp
    <3> QED
      BY <1>7, <1>11, <3>1
  <2> QED
    BY <2>1, <2>2
<1>14. ASSUME NEW u \in Task, pc'[u] = "closing", closing'[Awaited(u)'] = "no"
       PROVE  wrapper'[Awaited(u)'].connection = None
  <2>1. pc[u] = "closing" /\ u # t
    BY <1>3, <1>6, <1>14 DEF Active, Live
  <2>2. Held(u)' = Held(u)
    BY <1>3, <1>5, <2>1, SameTask
  <2>3. Awaited(u)' = Awaited(u)
    BY <1>14, <2>1, <2>2 DEF Held
  <2>4. Awaited(u) \in Wrapper \ {w}
    BY <1>2, <1>4, <2>1, ClosingExclusive
  <2>5. wrapper[Awaited(u)].connection = None
    BY <1>5, <1>14, <2>1, <2>3 DEF Accounted
  <2> QED
    BY <1>8, <2>3, <2>4, <2>5
<1>15. ASSUME NEW u \in Task
       PROVE  Lent(u)'
  <2>1. Kind(u)' = Kind(u) /\ Wrappers(u)' = Wrappers(u)
    BY SameProgram
  <2>2. Lent(u) /\ ByKind(u)
    BY <1>2 DEF Accounted, Ownership
  <2>3. Kind(u) \in {"plain", "temporary"} /\ Live(u) => context[u] # None
    BY <2>2 DEF Lent, ByKind
  <2> QED
    BY <1>1, <1>5, <1>6, <2>1, <2>2, <2>3 DEF Lent
<1>16. ASSUME NEW u \in Task, pc'[u] = "unborn"
       PROVE  wrapper'[Own(u)'].connection = None
  <2>1. pc[u] = "unborn" /\ Own(u)' = Own(u) /\ Own(u) \in Wrappers(u) /\ Own(u) \in Wrapper
    BY <1>2, <1>6, <1>16, SameProgram, WrapperFacts DEF Wrappers
  <2>2. wrapper[Own(u)].connection = None
    BY <2>1 DEF Accounted
  <2>3. CASE Own(u) # w
    BY <1>8, <2>1, <2>2, <2>3
  <2>4. CASE Own(u) = w
    <3>1. ~Gets(w)
      <4>1. SUFFICES ASSUME Gets(w) PROVE FALSE
        OBVIOUS
      <4>2. Held(t) = w
        BY <1>3, <1>10, <4>1 DEF Held, Active, Live
      <4>3. Held(u) = w
        BY <1>2, <2>1, <2>4, <4>2 DEF Ownership, HeldByCreator
      <4>4. Held(u) = None
        BY <2>1 DEF Held, Live
      <4> QED
        BY <1>2, <4>3, <4>4
    <3> QED
      BY <1>3, <2>1, <2>2, <2>4, <3>1 DEF Keeps, GivesUp
  <2> QED
    BY <2>3, <2>4
<1> QED
  BY <1>1, <1>12, <1>13, <1>14, <1>15, <1>16 DEF Accounted

\* What a task will have closed rests on whether it lives.
LEMMA LentSame ==
  ASSUME UNCHANGED scenario, NEW u \in Task, Lent(u),
         Live(u)' => Live(u) /\ context'[u] = context[u] /\ kept'[u] = kept[u]
  PROVE  Lent(u)'
<1>1. Kind(u)' = Kind(u) /\ Wrappers(u)' = Wrappers(u) /\ None' = None
  BY SameProgram, SameSets
<1> QED
  BY <1>1 DEF Lent

\* Steps outside acursor() that leave the connections where they are,
LEMMA AccountedRest ==
  ASSUME Core, Accounted, UNCHANGED scenario, [Next]_vars,
         \A x \in Wrapper : wrapper'[x].connection = wrapper[x].connection,
         \A c \in Raw : raw'[c].out = raw[c].out,
         \A u \in Task : pc[u] = "granted" => pc'[u] = "granted" /\ cursor'[u] = cursor[u],
         \A x \in Wrapper : InUse(x) => InUse(x)' \/ closing'[x] # "no",
         \A x \in Wrapper : closing[x] # "no" =>
           closing'[x] # "no" \/ LeftOpen(x)' \/ wrapper[x].connection = None,
         \A u \in Task : pc'[u] = "closing" /\ closing'[Awaited(u)'] = "no" =>
           Awaited(u)' \in Wrapper /\ wrapper[Awaited(u)'].connection = None,
         \A u \in Task : Lent(u)',
         \A u \in Task : pc'[u] = "unborn" => pc[u] = "unborn"
  PROVE  Accounted'
<1>1. Wrapper' = Wrapper /\ Raw' = Raw /\ Task' = Task /\ None' = None
  BY SameProgram, SameSets
<1>2. /\ scenario \in Scenarios /\ None \notin Wrapper
      /\ \A c \in Raw : raw[c].out \in Wrapper \union {None}
  BY TypeFacts DEF Core, RawState
<1>3. \A x : (Abandoned(x) => Abandoned(x)') /\ (LeftOpen(x) => LeftOpen(x)')
  BY AbandonedStays, LeftOpenStays
<1>4. ASSUME scenario.pooled, NEW c \in Raw, raw'[c].out # None
      PROVE  wrapper'[raw'[c].out].connection = c \/ OnItsWay(c)' \/ Abandoned(raw[c].out)'
  <2> PICK x \in Wrapper : x = raw[c].out
    BY <1>2, <1>4
  <2>1. x = raw'[c].out /\ x = raw[c].out
    OBVIOUS
  <2>2. wrapper[x].connection = c \/ OnItsWay(c) \/ Abandoned(x)
    BY <1>2, <1>4 DEF Accounted
  <2>3. OnItsWay(c) => OnItsWay(c)'
    BY <1>1 DEF OnItsWay
  <2>4. Abandoned(x)' => Abandoned(raw[c].out)'
    BY <2>1 DEF Abandoned
  <2> QED
    BY <1>3, <2>1, <2>2, <2>3, <2>4
<1>5. ASSUME NEW x \in Wrapper, wrapper'[x].connection # None
      PROVE  InUse(x)' \/ closing'[x] # "no" \/ LeftOpen(x)'
  BY <1>3, <1>5 DEF Accounted
<1>6. \A u \in Task : pc'[u] = "closing" /\ closing'[Awaited(u)'] = "no" =>
        wrapper'[Awaited(u)'].connection = None
  OBVIOUS
<1>7. ASSUME NEW u \in Task, pc'[u] = "unborn"
      PROVE  wrapper'[Own(u)'].connection = None
  <2>1. pc[u] = "unborn" /\ Own(u)' = Own(u) /\ Own(u) \in Wrapper
    BY <1>2, <1>7, SameProgram, WrapperFacts DEF Wrappers
  <2> QED
    BY <2>1 DEF Accounted
<1> QED
  BY <1>1, <1>4, <1>5, <1>6, <1>7 DEF Accounted

\* and those that take its connection from a wrapper that is closed.
LEMMA AccountedDropped ==
  ASSUME Core, Accounted, UNCHANGED scenario, [Next]_vars, NEW w \in Wrapper, Drop(w),
         NEW o \in Raw, o = wrapper[w].connection, \A d \in Raw \ {o} : raw'[d] = raw[d],
         scenario.pooled /\ raw'[o].out # None =>
           OnItsWay(o)' \/ (raw'[o].out = w /\ Abandoned(w)'),
         \A u \in Task : pc[u] = "granted" => pc'[u] = "granted" /\ cursor'[u] = cursor[u],
         \A x \in Wrapper : InUse(x) => InUse(x)',
         \A x \in Wrapper \ {w} : closing'[x] = closing[x],
         \A u \in Task : pc'[u] = "closing" => pc[u] = "closing" /\ Awaited(u)' = Awaited(u),
         \A u \in Task : Lent(u)',
         \A u \in Task : pc'[u] = "unborn" => pc[u] = "unborn"
  PROVE  Accounted'
<1>1. Wrapper' = Wrapper /\ Raw' = Raw /\ Task' = Task /\ None' = None
  BY SameProgram, SameSets
<1>2. /\ TypeOK /\ Ownership /\ scenario \in Scenarios /\ None \notin Wrapper
      /\ \A c \in Raw : raw[c].out \in Wrapper \union {None}
      /\ wrapper \in [Wrapper -> Fields]
  BY TypeFacts DEF Core, RawState, WrapperTypes
<1>3. \A x : (Abandoned(x) => Abandoned(x)') /\ (LeftOpen(x) => LeftOpen(x)')
  BY AbandonedStays, LeftOpenStays
<1>4. wrapper'[w].connection = None /\ \A x \in Wrapper \ {w} : wrapper'[x] = wrapper[x]
  BY <1>2 DEF Drop, Fields
<1>5. ASSUME scenario.pooled, NEW c \in Raw, raw'[c].out # None
      PROVE  wrapper'[raw'[c].out].connection = c \/ OnItsWay(c)' \/ Abandoned(raw[c].out)'
  <2>1. CASE c = o
    <3>1. raw'[c].out = w /\ Abandoned(w)' => Abandoned(raw[c].out)'
      BY DEF Abandoned
    <3> QED
      BY <1>5, <2>1, <3>1
  <2>2. CASE c # o
    <3>1. raw'[c] = raw[c]
      BY <2>2
    <3> PICK x \in Wrapper : x = raw[c].out
      BY <1>2, <1>5, <3>1
    <3>2. x = raw'[c].out /\ x = raw[c].out
      BY <3>1
    <3>3. wrapper[x].connection = c \/ OnItsWay(c) \/ Abandoned(x)
      BY <1>2, <1>5, <3>2 DEF Accounted
    <3>4. wrapper[x].connection = c => wrapper'[x].connection = c
      BY <1>4, <2>2
    <3>5. OnItsWay(c) => OnItsWay(c)'
      BY <1>1 DEF OnItsWay
    <3>6. Abandoned(x)' => Abandoned(raw[c].out)'
      BY <3>2 DEF Abandoned
    <3> QED
      BY <1>3, <3>2, <3>3, <3>4, <3>5, <3>6
  <2> QED
    BY <2>1, <2>2
<1>6. ASSUME NEW x \in Wrapper, wrapper'[x].connection # None
      PROVE  InUse(x)' \/ closing'[x] # "no" \/ LeftOpen(x)'
  BY <1>3, <1>4, <1>6 DEF Accounted
<1>7. ASSUME NEW u \in Task, pc'[u] = "closing", closing'[Awaited(u)'] = "no"
      PROVE  wrapper'[Awaited(u)'].connection = None
  <2>1. pc[u] = "closing" /\ Awaited(u)' = Awaited(u) /\ Awaited(u) \in Wrapper
    BY <1>2, <1>7, ClosingExclusive
  <2>2. Awaited(u) # w => wrapper[Awaited(u)].connection = None
    BY <1>7, <2>1 DEF Accounted
  <2> QED
    BY <1>4, <2>1, <2>2
<1>8. ASSUME NEW u \in Task, pc'[u] = "unborn"
      PROVE  wrapper'[Own(u)'].connection = None
  <2>1. pc[u] = "unborn" /\ Own(u)' = Own(u) /\ Own(u) \in Wrapper
    BY <1>2, <1>8, SameProgram, WrapperFacts DEF Wrappers
  <2> QED
    BY <1>4, <2>1 DEF Accounted
<1> QED
  BY <1>1, <1>5, <1>6, <1>7, <1>8 DEF Accounted

\* A task that leaves its code has the wrapper it created closed.
LEMMA AccountedLeaves ==
  ASSUME Core, Accounted, UNCHANGED scenario, [Next]_vars, NEW t \in Task, Leaves(t),
         pc[t] # "granted",
         \A x \in Wrapper : wrapper'[x].connection = wrapper[x].connection,
         \A c \in Raw : raw'[c].out = raw[c].out
  PROVE  Accounted'
<1>1. /\ TypeOK /\ Ownership /\ scenario \in Scenarios /\ None \notin Wrapper
      /\ TaskTypes /\ closing \in [Wrapper -> {"no", "scheduled", "rollback"}]
  BY TypeFacts DEF Core, WrapperTypes
<1>2. /\ Releases(t) /\ Live(t)
      /\ pc'[t] = IF ClosedOnExit(t) = None THEN "done" ELSE "closing"
      /\ \A u \in Task \ {t} : pc'[u] = pc[u]
      /\ ClosedOnExit(t) # None => Awaited(t)' = ClosedOnExit(t)
  BY <1>1, UnwindReleases DEF Leaves
<1>3. \A u \in Task \ {t} : context'[u] = context[u] /\ kept'[u] = kept[u] /\ cursor'[u] = cursor[u]
  BY <1>1, <1>2 DEF Releases, Leaves, Unwind, TaskTypes
<1>4. closing' = IF ClosedOnExit(t) = None THEN closing
                 ELSE [closing EXCEPT ![ClosedOnExit(t)] = "scheduled"]
  BY DEF Leaves, Unwind
<1>5. \A x \in Wrapper : closing[x] # "no" => closing'[x] # "no"
  BY <1>1, <1>4
<1>6. ASSUME NEW x \in Wrapper, InUse(x)
      PROVE  InUse(x)' \/ closing'[x] # "no"
  <2>1. PICK u \in Task : x \in Wrappers(u) /\ Live(u) /\ context[u] = x
    BY <1>6 DEF InUse
  <2>2. CASE u # t
    <3>1. Live(u)' /\ context'[u] = x
      BY <1>2, <1>3, <2>1, <2>2 DEF Live
    <3>2. Task' = Task /\ Wrappers(u)' = Wrappers(u)
      BY SameProgram
    <3> QED
      BY <2>1, <3>1, <3>2 DEF InUse
  <2>3. CASE u = t
    <3>1. ByKind(t) /\ Lent(t) /\ x # None
          /\ Kind(t) \in {"request", "plain", "independent", "temporary"}
      BY <1>1, TaskFacts DEF Ownership, Accounted
    <3>2. ClosedOnExit(t) = x
      BY <2>1, <2>3, <3>1 DEF ByKind, Lent, ClosedOnExit
    <3> QED
      BY <1>1, <1>4, <3>1, <3>2
  <2> QED
    BY <2>2, <2>3
<1>7. ASSUME NEW u \in Task, pc'[u] = "closing", closing'[Awaited(u)'] = "no"
      PROVE  Awaited(u)' \in Wrapper /\ wrapper[Awaited(u)'].connection = None
  <2>1. ClosedOnExit(t) \in Wrapper \union {None}
    <3>1. Kind(t) \in {"request", "plain", "independent", "temporary"} /\ Independent(t) \in Wrapper
      BY <1>1, TaskFacts, WrapperFacts DEF Wrappers
    <3> QED
      BY <1>1, <3>1 DEF ClosedOnExit, TaskTypes
  <2>2. u # t
    <3>1. SUFFICES ASSUME u = t PROVE FALSE
      OBVIOUS
    <3>2. Awaited(t)' = ClosedOnExit(t) /\ ClosedOnExit(t) \in Wrapper
      BY <1>2, <1>7, <2>1, <3>1
    <3>3. closing'[ClosedOnExit(t)] = "scheduled"
      BY <1>1, <1>4, <3>2
    <3> QED
      BY <1>7, <3>1, <3>2, <3>3
  <2>3. pc[u] = "closing" /\ Held(u)' = Held(u)
    BY <1>2, <1>3, <1>7, <2>2, SameTask DEF Releases
  <2>4. Awaited(u)' = Awaited(u) /\ Awaited(u) \in Wrapper
    BY <1>1, <1>7, <2>3, ClosingExclusive DEF Held
  <2>5. closing[Awaited(u)] = "no"
    BY <1>5, <1>7, <2>4
  <2> QED
    BY <2>3, <2>4, <2>5 DEF Accounted
<1>8. ASSUME NEW u \in Task
      PROVE  Lent(u)'
  <2>1. Live(u)' => Live(u) /\ context'[u] = context[u] /\ kept'[u] = kept[u]
    BY <1>2, <1>3 DEF Live
  <2>2. Lent(u)
    BY DEF Accounted
  <2> QED
    BY <2>1, <2>2, LentSame
<1>9. \A u \in Task : pc'[u] = "unborn" => pc[u] = "unborn"
  BY <1>2
<1>10. \A u \in Task : pc[u] = "granted" => pc'[u] = "granted" /\ cursor'[u] = cursor[u]
  BY <1>2, <1>3
<1> QED
  BY <1>5, <1>6, <1>7, <1>8, <1>9, <1>10, AccountedRest

\* A task that goes on, or is done once its wrapper is closed.
LEMMA AccountedBack ==
  ASSUME Core, Accounted, UNCHANGED <<scenario, context, kept, closing, cursor, wrapper, raw>>,
         [Next]_vars, NEW t \in Task,
         \/ pc[t] = "gathering" /\ Goto(t, "body")
         \/ pc[t] = "closing" /\ Goto(t, "done")
  PROVE  Accounted'
<1>1. TypeOK /\ Ownership /\ pc \in [Task -> Label] /\ None \notin Wrapper
  BY TypeFacts DEF Core, TaskTypes
<1>2. /\ \A u \in Task \ {t} : pc'[u] = pc[u]
      /\ \/ pc[t] = "gathering" /\ pc'[t] = "body"
         \/ pc[t] = "closing" /\ pc'[t] = "done"
  BY <1>1 DEF Goto
<1>3. \A u \in Task : Live(u)' <=> Live(u)
  BY <1>2 DEF Live
<1>4. \A x \in Wrapper : InUse(x) => InUse(x)'
  BY <1>1, <1>3, StaysInUse
<1>5. \A u \in Task : Lent(u)'
  BY <1>3, LentSame DEF Accounted
<1>6. ASSUME NEW u \in Task, pc'[u] = "closing", closing'[Awaited(u)'] = "no"
      PROVE  Awaited(u)' \in Wrapper /\ wrapper[Awaited(u)'].connection = None
  <2>1. pc[u] = "closing" /\ u # t /\ Phase(u)' = Phase(u)
    BY <1>2, <1>6 DEF Phase
  <2>2. Held(u)' = Held(u)
    BY <2>1, SameTask
  <2>3. Awaited(u)' = Awaited(u) /\ Awaited(u) \in Wrapper
    BY <1>1, <1>6, <2>1, <2>2, ClosingExclusive DEF Held
  <2> QED
    BY <1>6, <2>1, <2>3 DEF Accounted
<1>7. \A u \in Task : pc[u] = "granted" => pc'[u] = "granted"
  BY <1>2
<1>8. \A u \in Task : pc'[u] = "unborn" => pc[u] = "unborn"
  BY <1>2
<1> QED
  BY <1>4, <1>5, <1>6, <1>7, <1>8, AccountedRest

\* A task that is started with a wrapper of its own finds it without a connection.
LEMMA AccountedGather ==
  ASSUME LooksUpFirst, Core, Accounted, UNCHANGED scenario, [Next]_vars, NEW t \in Task, Gather(t)
  PROVE  Accounted'
<1> DEFINE born == {u \in Children(t) : pc[u] = "unborn"}
<1>1. TypeOK /\ Ownership /\ pc \in [Task -> Label] /\ None \notin Wrapper /\ scenario \in Scenarios
  BY TypeFacts DEF Core, TaskTypes
<1>2. UNCHANGED <<wrapper, closing, raw, cursor>> /\ (scenario.first => context[t] # None)
  BY DEF Gather, pool
<1>3. /\ \A x \in Task \ born : /\ context'[x] = context[x] /\ kept'[x] = kept[x]
                                /\ Held(x)' = Held(x)
      /\ \A x \in Task \ (born \union {t}) : pc'[x] = pc[x]
      /\ pc[t] = "body" /\ pc'[t] = "gathering" /\ t \notin born
      /\ \A x \in born : pc[x] = "unborn" /\ pc'[x] = "body" /\ x \in Task /\ t < x /\ Parent(x) = t
  BY <1>1, GatherFacts
<1>4. \A x \in born : /\ context'[x] = Start(x, context[t]).context
                      /\ kept'[x] = Start(x, context[t]).kept
  BY <1>3 DEF Gather
<1>5. \A u \in Task \ born : Live(u)' <=> Live(u)
  BY <1>3 DEF Live
<1>6. \A x \in Wrapper : InUse(x) => InUse(x)'
  <2>1. \A u \in Task : Live(u) => Live(u)' /\ context'[u] = context[u]
    BY <1>3, <1>5 DEF Live
  <2> QED
    BY <1>1, <2>1, StaysInUse
<1>7. ASSUME NEW u \in born
      PROVE  Lent(u)'
  <2>1. /\ u \in Task /\ t < u /\ t \in Nat /\ u \in Nat /\ Own(u) \in Wrappers(u)
        /\ Kind(u) # "request" /\ Own(u) # None
    BY <1>1, <1>3, TaskFacts, WrapperFacts DEF Wrappers, None
  <2>2. context[t] \notin Wrappers(u)
    <3>1. {context[t], kept[t]} \intersect Wrappers(u) # {} => u <= t
      BY <1>1, <2>1 DEF Ownership, NeverOlder
    <3> QED
      BY <2>1, <3>1
  <2>3. wrapper[Own(u)].connection = None
    BY <1>3, <2>1 DEF Accounted
  <2>4. Kind(u) = "plain" => context'[u] = context[t] /\ context[t] # None
    <3>1. Kind(u) = "plain" => scenario.first
      <4>1. DOMAIN scenario.parents = Task
        BY <1>1, ScenarioAssumption, LenProperties DEF Task, Tasks
      <4> QED
        BY <1>1, <2>1, <4>1 DEF LooksUpFirst, Kind
    <3> QED
      BY <1>1, <1>2, <1>4, <2>1, <3>1, StartFacts
  <2>5. ASSUME Kind(u) = "temporary", context'[u] \in Wrappers(u)
        PROVE  kept'[u] = context'[u]
    <3>1. context'[u] = Own(u)
      BY <1>1, <1>4, <2>1, <2>2, <2>5, StartFacts
    <3> QED
      BY <1>1, <1>4, <2>1, <2>3, <2>5, <3>1, StartFacts
  <2>6. Kind(u)' = Kind(u) /\ Wrappers(u)' = Wrappers(u) /\ None' = None
    BY SameProgram, SameSets
  <2> QED
    BY <2>2, <2>4, <2>5, <2>6 DEF Lent
<1>8. ASSUME NEW u \in Task
      PROVE  Lent(u)'
  <2>1. CASE u \notin born
    BY <1>3, <1>5, <2>1, LentSame DEF Accounted
  <2> QED
    BY <1>7, <2>1
<1>9. ASSUME NEW u \in Task, pc'[u] = "closing", closing'[Awaited(u)'] = "no"
      PROVE  Awaited(u)' \in Wrapper /\ wrapper[Awaited(u)'].connection = None
  <2>1. pc[u] = "closing" /\ Held(u)' = Held(u)
    BY <1>3, <1>9
  <2>2. Awaited(u)' = Awaited(u) /\ Awaited(u) \in Wrapper
    BY <1>1, <1>9, <2>1, ClosingExclusive DEF Held
  <2> QED
    BY <1>2, <1>9, <2>1, <2>2 DEF Accounted
<1>10. \A u \in Task : (pc[u] = "granted" => pc'[u] = "granted") /\ (pc'[u] = "unborn" => pc[u] = "unborn")
  BY <1>3
<1> QED
  BY <1>2, <1>6, <1>8, <1>9, <1>10, AccountedRest

\* The tasks of a step that closes a wrapper, or does nothing.
LEMMA CalmTasks ==
  ASSUME Core, Accounted, UNCHANGED scenario, Calm
  PROVE  /\ \A x \in Wrapper : InUse(x) => InUse(x)'
         /\ \A u \in Task : Lent(u)' /\ (pc'[u] = "unborn" => pc[u] = "unborn")
         /\ \A u \in Task : pc'[u] = "closing" =>
              pc[u] = "closing" /\ Awaited(u)' = Awaited(u) /\ Awaited(u) \in Wrapper
<1>1. /\ TypeOK /\ Ownership /\ None \notin Wrapper
  BY TypeFacts DEF Core
<1>2. \A u \in Task :
        /\ Live(u)' <=> Live(u)
        /\ \A p \in {"unborn", "gathering", "closing", "done"} : pc'[u] = p <=> pc[u] = p
        /\ Held(u)' = Held(u) /\ context'[u] = context[u] /\ kept'[u] = kept[u]
  BY SameTask DEF Calm
<1>3. \A x \in Wrapper : InUse(x) => InUse(x)'
  BY <1>1, <1>2, StaysInUse
<1>4. \A u \in Task : Lent(u)'
  BY <1>2, LentSame DEF Accounted
<1>5. \A u \in Task : pc'[u] = "closing" =>
        pc[u] = "closing" /\ Awaited(u)' = Awaited(u) /\ Awaited(u) \in Wrapper
  BY <1>1, <1>2, ClosingExclusive DEF Held
<1> QED
  BY <1>2, <1>3, <1>4, <1>5

\* A connection is left out when a cancelled task closed it, but by nobody else.
LEMMA AccountedCancel ==
  ASSUME Core, Accounted, UNCHANGED scenario, [Next]_vars, NEW t \in Task, CancelClosing(t)
  PROVE  Accounted'
<1> PICK w : w = Awaited(t)
  OBVIOUS
<1>1. /\ TypeOK /\ Ownership /\ pc \in [Task -> Label] /\ None \notin Wrapper
      /\ closing \in [Wrapper -> {"no", "scheduled", "rollback"}] /\ TaskTypes
  BY TypeFacts DEF Core, TaskTypes, WrapperTypes
<1>2. UNCHANGED <<context, kept, cursor, raw>> /\ pc[t] = "closing" /\ Goto(t, "done")
      /\ outcome' = [outcome EXCEPT ![t] = CancelledAs(t)]
      /\ (Kind(t) = "temporary" => closing[w] = "rollback")
  BY DEF CancelClosing, pool
<1>3. pc'[t] = "done" /\ (\A u \in Task \ {t} : pc'[u] = pc[u]) /\ outcome'[t] = CancelledAs(t)
  BY <1>1, <1>2 DEF Goto, TaskTypes
<1>4. w \in Wrapper /\ \A u \in Task : pc[u] = "closing" /\ Awaited(u) = w => u = t
  BY <1>1, <1>2, ClosingExclusive
<1>5. CASE UNCHANGED <<wrapper, closing>>
  BY <1>2, <1>5, AccountedBack
<1>6. CASE /\ Kind(t) # "request" /\ closing[w] # "no" /\ closing' = [closing EXCEPT ![w] = "no"]
           /\ IF closing[w] = "rollback" THEN Drop(w) ELSE UNCHANGED wrapper
  <2>1. \A u \in Task : Live(u)' <=> Live(u)
    BY <1>2, <1>3 DEF Live
  <2>2. \A x \in Wrapper : InUse(x) => InUse(x)'
    BY <1>1, <1>2, <2>1, StaysInUse
  <2>3. \A u \in Task : Lent(u)'
    BY <1>2, <2>1, LentSame DEF Accounted
  <2>4. ASSUME NEW u \in Task, pc'[u] = "closing"
        PROVE  /\ pc[u] = "closing" /\ Awaited(u)' = Awaited(u)
               /\ Awaited(u) \in Wrapper /\ Awaited(u) # w
    <3>1. u # t /\ pc[u] = "closing" /\ Phase(u)' = Phase(u)
      BY <1>3, <2>4 DEF Phase
    <3>2. Held(u)' = Held(u)
      BY <1>2, <3>1, SameTask
    <3> QED
      BY <1>1, <1>4, <2>4, <3>1, <3>2, ClosingExclusive DEF Held
  <2>5. Abandoned(w)' /\ (closing[w] # "rollback" => LeftOpen(w)')
    <3>1. Task' = Task /\ Kind(t)' = Kind(t) /\ Independent(t)' = Independent(t) /\ None' = None
      BY SameProgram, SameSets
    <3>2. Awaited(t)' = w
      BY <1>2, <1>6, <3>1 DEF Awaited, ClosedOnExit
    <3>3. outcome'[t] = "abandoned"
      BY <1>3, <1>6 DEF CancelledAs
    <3>4. closing[w] # "rollback" => Kind(t) = "independent" /\ w = Independent(t)
      <4>1. Kind(t) \in {"request", "plain", "independent", "temporary"}
        BY <1>1, TypeFacts, TaskFacts
      <4>2. Kind(t) = "plain" => Awaited(t) = None
        BY DEF Awaited, ClosedOnExit
      <4> QED
        BY <1>1, <1>2, <1>4, <1>6, <4>1, <4>2 DEF Awaited
    <3> QED
      BY <1>3, <1>6, <3>1, <3>2, <3>3, <3>4 DEF Abandoned, LeftOpen
  <2>6. \A x \in Wrapper \ {w} : closing'[x] = closing[x]
    BY <1>1, <1>6
  <2>7. \A u \in Task : pc[u] = "granted" => pc'[u] = "granted" /\ cursor'[u] = cursor[u]
    BY <1>2, <1>3
  <2>8. \A u \in Task : pc'[u] = "unborn" => pc[u] = "unborn"
    BY <1>3
  <2>9. CASE Drop(w) /\ closing[w] = "rollback"
    <3>1. wrapper[w].connection # None
      BY <1>4, <2>9 DEF Core, Holding
    <3> PICK o \in Raw : o = wrapper[w].connection
      BY <1>4, <3>1, TypeFacts DEF Core
    <3>2. raw'[o].out = w
      BY <1>2, <1>4, <3>1 DEF Core, Holding
    <3> QED
      BY <1>2, <1>4, <2>2, <2>3, <2>4, <2>5, <2>6, <2>7, <2>8, <2>9, <3>2, AccountedDropped
  <2>10. CASE UNCHANGED wrapper /\ closing[w] # "rollback"
    <3>1. \A x \in Wrapper : closing[x] # "no" => closing'[x] # "no" \/ LeftOpen(x)'
      BY <2>5, <2>6, <2>10
    <3>2. \A u \in Task : pc'[u] = "closing" /\ closing'[Awaited(u)'] = "no" =>
            Awaited(u)' \in Wrapper /\ wrapper[Awaited(u)'].connection = None
      BY <2>4, <2>6 DEF Accounted
    <3> QED
      BY <1>2, <2>2, <2>3, <2>7, <2>8, <2>10, <3>1, <3>2, AccountedRest
  <2> QED
    BY <1>6, <2>9, <2>10
<1>7. CASE Kind(t) # "request" /\ closing[w] = "no" /\ closing' = [closing EXCEPT ![w] = "no"]
           /\ IF closing[w] = "rollback" THEN Drop(w) ELSE UNCHANGED wrapper
  <2>1. UNCHANGED <<wrapper, closing>>
    BY <1>1, <1>4, <1>7
  <2> QED
    BY <1>5, <2>1
<1> QED
  BY <1>5, <1>6, <1>7 DEF CancelClosing

\* A wrapper that is closed gives its connection back.
LEMMA AccountedCloser ==
  ASSUME Core, Accounted, UNCHANGED scenario, [Next]_vars, NEW w \in Wrapper, Closer(w)
  PROVE  Accounted'
<1>1. /\ TypeOK /\ Ownership /\ pc \in [Task -> Label] /\ None \notin Wrapper /\ None \notin Raw
      /\ closing \in [Wrapper -> {"no", "scheduled", "rollback"}]
      /\ cursor \in [Task -> Raw \union {None}]
  BY TypeFacts DEF Core, TaskTypes, WrapperTypes
<1>2. Calm
  BY <1>1, CloserMoves
<1>3. /\ \A x \in Wrapper : InUse(x) => InUse(x)'
      /\ \A u \in Task : Lent(u)' /\ (pc'[u] = "unborn" => pc[u] = "unborn")
      /\ \A u \in Task : pc'[u] = "closing" =>
           pc[u] = "closing" /\ Awaited(u)' = Awaited(u) /\ Awaited(u) \in Wrapper
  BY <1>2, CalmTasks
<1>4. \A x \in Wrapper \ {w} : closing'[x] = closing[x]
  BY <1>1 DEF Closer, AClose, ARolledBack
<1>5. closing[w] = "rollback" => wrapper[w].connection # None
  BY DEF Core, Holding
<1>6. CASE UNCHANGED <<pc, cursor, wrapper, pool>> /\ (wrapper[w].connection = None \/ closing'[w] # "no")
  <2>1. \A x \in Wrapper : closing[x] # "no" => closing'[x] # "no" \/ wrapper[x].connection = None
    BY <1>4, <1>6
  <2>2. closing[w] # "no"
    BY DEF Closer, AClose, ARolledBack
  <2>3. \A u \in Task : pc'[u] = "closing" /\ closing'[Awaited(u)'] = "no" =>
          Awaited(u)' \in Wrapper /\ wrapper[Awaited(u)'].connection = None
    BY <1>3, <1>4, <1>6 DEF Accounted
  <2>4. UNCHANGED raw
    BY <1>6 DEF pool
  <2> QED
    BY <1>3, <1>6, <2>1, <2>3, <2>4, AccountedRest
<1>7. CASE Drop(w) /\ wrapper[w].connection # None
           /\ (GiveBack(wrapper[w].connection)
                \/ (Closed(wrapper[w].connection) /\ UNCHANGED <<pc, cursor>>))
  <2> PICK o \in Raw : o = wrapper[w].connection
    BY <1>7, TypeFacts DEF Core
  <2>1. CASE Closed(o) /\ UNCHANGED <<pc, cursor>>
    <3>1. raw'[o].out = None /\ \A d \in Raw \ {o} : raw'[d] = raw[d]
      BY <2>1, ClosedFacts, TypeFacts DEF Core
    <3> QED
      BY <1>3, <1>4, <1>7, <2>1, <3>1, AccountedDropped
  <2>2. CASE GiveBack(o)
    <3>1. \A d \in Raw \ {o} : raw'[d] = raw[d]
      BY <2>2, GiveBackFacts
    <3>2. raw'[o].out # None => OnItsWay(o)'
      <4>1. SUFFICES ASSUME raw'[o].out # None PROVE OnItsWay(o)'
        OBVIOUS
      <4>2. /\ Head(waiting) \in Task /\ Goto(Head(waiting), "granted")
            /\ cursor' = [cursor EXCEPT ![Head(waiting)] = o]
        BY <2>2, <4>1, GiveBackFacts
      <4> PICK g \in Task : g = Head(waiting)
        BY <4>2
      <4>3. pc'[g] = "granted" /\ cursor'[g] = o /\ Task' = Task
        BY <1>1, <4>2, SameProgram DEF Goto
      <4> QED
        BY <4>3 DEF OnItsWay
    <3>3. \A u \in Task : pc[u] = "granted" => pc'[u] = "granted" /\ cursor'[u] = cursor[u]
      BY <1>1, <2>2, GiveBackFacts DEF Goto
    <3> QED
      BY <1>3, <1>4, <1>7, <3>1, <3>2, <3>3, AccountedDropped
  <2> QED
    BY <1>7, <2>1, <2>2
<1>8. CASE AClose(w)
  <2>1. CASE wrapper[w].connection = None \/ closing'[w] = "rollback"
    BY <1>6, <1>8, <2>1 DEF AClose
  <2>2. CASE ~(wrapper[w].connection = None \/ closing'[w] = "rollback")
    BY <1>7, <1>8, <2>2 DEF AClose
  <2> QED
    BY <2>1, <2>2
<1>9. CASE ARolledBack(w)
  BY <1>5, <1>7, <1>9 DEF ARolledBack
<1> QED
  BY <1>8, <1>9 DEF Closer

\* Every step accounts for the connections.
LEMMA AccountedStep ==
  ASSUME LooksUpFirst, Core, Accounted, [Next]_vars
  PROVE  Accounted'
<1>1. /\ TypeOK /\ Ownership /\ pc \in [Task -> Label] /\ None \notin Wrapper
      /\ wrapper \in [Wrapper -> Fields] /\ raw \in [Raw -> RawState]
  BY TypeFacts DEF Core, TaskTypes, WrapperTypes, PoolTypes
<1>2. ASSUME UNCHANGED <<scenario, tasks, closing>>,
             \A x \in Wrapper : wrapper'[x].connection = wrapper[x].connection,
             \A c \in Raw : raw'[c].out = raw[c].out
      PROVE  Accounted'
  <2>1. Calm
    BY <1>2 DEF Calm, tasks, Phase
  <2>2. /\ \A x \in Wrapper : InUse(x) => InUse(x)'
        /\ \A u \in Task : Lent(u)' /\ (pc'[u] = "unborn" => pc[u] = "unborn")
        /\ \A u \in Task : pc'[u] = "closing" =>
             pc[u] = "closing" /\ Awaited(u)' = Awaited(u) /\ Awaited(u) \in Wrapper
    BY <1>2, <2>1, CalmTasks
  <2>3. \A u \in Task : pc'[u] = "closing" /\ closing'[Awaited(u)'] = "no" =>
          Awaited(u)' \in Wrapper /\ wrapper[Awaited(u)'].connection = None
    BY <1>2, <2>2 DEF Accounted
  <2> QED
    BY <1>2, <2>2, <2>3, AccountedRest DEF tasks
<1>3. ASSUME NEW t \in Task, Step(t), UNCHANGED scenario
      PROVE  Accounted'
  <2>1. CASE Works(t) /\ ~Leaves(t)
    BY <1>3, <2>1, AccountedWork
  <2>2. CASE Works(t) /\ Leaves(t)
    <3>1. pc'[t] \in {"closing", "done"}
      BY <1>1, <2>2 DEF Leaves, Unwind, Goto
    <3>2. Dial(t) \/ Configured(t) \/ Statement(t)
      BY <1>1, <2>2, <3>1
      DEF Works, ACursor, HealthChecked, GetConn, Granted, Recycle, RecycleChecked, Ensure, Take,
          Recycled, Goto
    <3>3. pc[t] # "granted"
      BY <3>2 DEF Dial, Configured, Statement
    <3>4. CASE Dial(t)
      <4>1. UNCHANGED <<wrapper, raw>>
        BY <1>1, <3>1, <3>4 DEF Dial, Goto
      <4> QED
        BY <1>3, <2>2, <3>3, <4>1, AccountedLeaves
    <3>5. CASE Configured(t) \/ Statement(t)
      <4>1. Keeps(Mine(t)) /\ Touches(Mine(t))
        BY <3>5, ConfiguredTouches, StatementTouches
      <4>2. \A x \in Wrapper : wrapper'[x].connection = wrapper[x].connection
        BY <4>1 DEF Keeps, Touches
      <4>3. \A c \in Raw : raw'[c].out = raw[c].out
        BY <4>1 DEF Keeps
      <4> QED
        BY <1>3, <2>2, <3>3, <4>2, <4>3, AccountedLeaves
    <3> QED
      BY <3>2, <3>4, <3>5
  <2>3. CASE PoolTimeout(t) \/ Gathered(t) \/ Leave(t) \/ EveryClosed(t)
    <3>1. UNCHANGED <<wrapper, raw>> /\ pc[t] # "granted"
      BY <2>3, RestTouches DEF PoolTimeout, LeaveQueue, Gathered, Leave, EveryClosed
    <3>2. CASE Leaves(t)
      BY <1>3, <3>1, <3>2, AccountedLeaves
    <3>3. CASE /\ UNCHANGED <<context, kept, closing, cursor>>
               /\ \/ pc[t] = "gathering" /\ Goto(t, "body")
                  \/ pc[t] = "closing" /\ Goto(t, "done")
      BY <1>3, <3>1, <3>3, AccountedBack
    <3> QED
      BY <2>3, <3>2, <3>3
      DEF PoolTimeout, LeaveQueue, Gathered, Leave, EveryClosed, Leaves, Live
  <2>4. CASE Gather(t)
    BY <1>3, <2>4, AccountedGather
  <2> QED
    BY <1>3, <2>1, <2>2, <2>3, <2>4 DEF Step, Works
<1>4. ASSUME NEW t \in Task, Cancel(t), UNCHANGED scenario
      PROVE  Accounted'
  <2>1. CASE CancelClosing(t)
    BY <1>4, <2>1, AccountedCancel
  <2>2. CASE ~CancelClosing(t)
    <3>1. UNCHANGED <<wrapper, raw>> /\ pc[t] # "granted"
      BY <1>4, <2>2 DEF Cancel, LeaveQueue, pool
    <3>2. Leaves(t)
      BY <1>4, <2>2, CancelMoves
    <3> QED
      BY <1>4, <3>1, <3>2, AccountedLeaves
  <2> QED
    BY <2>1, <2>2
<1>5. ASSUME NEW w \in Wrapper, Age(w), UNCHANGED scenario
      PROVE  Accounted'
  <2>1. \A x \in Wrapper : wrapper'[x].connection = wrapper[x].connection
    BY <1>1, <1>5 DEF Age, Fields
  <2> QED
    BY <1>2, <1>5, <2>1 DEF Age, pool
<1>6. ASSUME NEW c \in Raw, Lose(c), UNCHANGED scenario
      PROVE  Accounted'
  <2> DEFINE r == [raw[c] EXCEPT !.alive = FALSE, !.lost = Epoch(raw[c].out)]
  <2>1. raw' = [raw EXCEPT ![c] = r] /\ r.out = raw[c].out
    BY <1>1, <1>6 DEF Lose, RawState
  <2> HIDE DEF r
  <2>2. \A d \in Raw : raw'[d].out = raw[d].out
    BY <1>1, <2>1
  <2> QED
    BY <1>2, <1>6, <2>2 DEF Lose
<1>7. CASE UNCHANGED vars
  BY <1>2, <1>7 DEF vars, pool
<1> QED
  BY <1>3, <1>4, <1>5, <1>6, <1>7, AccountedCloser DEF Next

-----------------------------------------------------------------------------
(* The theorems.                                                           *)

\* Nobody uses a wrapper behind the back of the task it belongs to, and each
\* variable keeps its kind: the invariant that the theorems below rest on.
THEOREM WrappersHaveOneUser ==
  ASSUME OneUserEach
  PROVE  Spec => []Core
<1>1. Init => Core
  BY CoreInit
<1>2. Core /\ [Next]_vars => Core'
  BY CoreStep
<1> QED
  BY <1>1, <1>2, PTL DEF Spec

\* Every variable keeps its kind, an idle connection is nobody's, and the tasks
\* that wait for one are those in the queue of the pool, once each.
THEOREM TypeCorrect ==
  ASSUME OneUserEach
  PROVE  Spec => []TypeOK
<1>1. Core => TypeOK
  BY DEF Core
<1> QED
  BY <1>1, WrappersHaveOneUser, PTL

\* A statement runs on the connection of its task's wrapper, which no other
\* wrapper holds and the pool does not lend.
THEOREM NoStatementStrays ==
  ASSUME OneUserEach
  PROVE  Spec => []StatementsStayHome
<1>1. ASSUME Core, NEW t \in Task, pc[t] = "statement"
      PROVE  /\ {w \in Wrapper : wrapper[w].connection = cursor[t]} = {context[t]}
             /\ cursor[t] \notin idle
  <2>1. AtPoint(t) /\ context[t] \in Wrapper
    BY <1>1, WorksOn DEF Core, Holding, Active, Live
  <2>2. cursor[t] # None /\ wrapper[context[t]].connection = cursor[t]
    BY <1>1, <2>1 DEF AtPoint
  <2>3. \A w \in Wrapper : wrapper[w].connection = cursor[t] => raw[cursor[t]].out = w
    BY <1>1, <2>2 DEF Core, Holding
  <2>4. raw[cursor[t]].out # None
    BY <1>1, <2>1, <2>2, <2>3, TypeFacts DEF Core
  <2>5. cursor[t] \notin idle
    BY <1>1, <2>4, TypeFacts DEF Core, PoolTypes
  <2> QED
    BY <2>1, <2>2, <2>3, <2>5
<1>2. Core => StatementsStayHome
  BY <1>1 DEF StatementsStayHome
<1> QED
  BY <1>2, WrappersHaveOneUser, PTL

\* A statement that is sent on a broken connection is the first to find out:
\* no check has seen it broken, and none before it has failed since the program
\* last recycled the connection.
THEOREM NoStatementOnABrokenConnection ==
  ASSUME OneUserEach
  PROVE  Spec => []RecycledConnectionWorks
<1>1. Init => Reliable
  <2>1. ASSUME Init
        PROVE  Reliable
    <3>1. /\ \A t \in Task : pc[t] \in {"body", "unborn"}
          /\ \A w \in Wrapper : wrapper[w].connection = None /\ epoch[w] = 0
          /\ \A c \in Raw : raw[c].lost = 0 /\ raw[c].failed = 0
      BY <2>1 DEF Init, Fresh, Unopened
    <3> QED
      BY <3>1 DEF Reliable, PoolPoint, Steady, Checked
  <2> QED
    BY <2>1
<1>2. Core /\ Reliable /\ [Next]_vars => Reliable'
  BY ReliableStep
<1>3. ASSUME Core, Reliable, NEW t \in Task, pc[t] = "statement", ~raw[cursor[t]].alive
      PROVE  /\ scenario.checks => raw[cursor[t]].lost = epoch[context[t]]
             /\ raw[cursor[t]].failed \in {0, epoch[context[t]] + 1}
  <2>1. AtPoint(t) /\ context[t] \in Wrapper
    BY <1>3, WorksOn DEF Core, Holding, Active, Live
  <2>2. /\ cursor[t] # None /\ cursor[t] \in Raw
        /\ wrapper[context[t]].connection = cursor[t]
    BY <1>3, <2>1, TypeFacts DEF AtPoint, Core
  <2>3. CASE scenario.pooled
    BY <1>3, <2>1, <2>2, <2>3 DEF Reliable
  <2>4. CASE ~scenario.pooled
    <3>1. Steady(context[t]) /\ (scenario.checks => Checked(t))
      BY <1>3, <2>1, <2>4 DEF Reliable
    <3> QED
      BY <1>3, <2>2, <3>1 DEF Steady, Checked
  <2> QED
    BY <2>3, <2>4
<1>4. Core /\ Reliable => RecycledConnectionWorks
  BY <1>3 DEF RecycledConnectionWorks
<1> QED
  BY <1>1, <1>2, <1>4, WrappersHaveOneUser, PTL DEF Spec

\* When everything has ended, a connection that is still out was being closed for
\* a task when a cancellation cut that short (an earlier one leads to the closing),
\* or is one that nobody refers to.
THEOREM EveryConnectionComesBack ==
  ASSUME OneUserEach, LooksUpFirst
  PROVE  Spec => []ConnectionsComeBack
<1>1. Init => Accounted
  <2>1. ASSUME Init
        PROVE  Accounted
    <3>1. /\ \A t \in Task : pc[t] \in {"body", "unborn"} /\ (pc[t] = "body" => Kind(t) = "request")
          /\ \A w \in Wrapper : wrapper[w].connection = None
          /\ \A c \in Raw : raw[c].out = None
      BY <2>1 DEF Init, Fresh, Unopened
    <3>2. \A t \in Task : Own(t) \in Wrapper
      BY <2>1, WrapperFacts DEF Init, Wrappers
    <3> QED
      BY <3>1, <3>2 DEF Accounted, Lent, Live
  <2> QED
    BY <2>1
<1>2. Core /\ Accounted /\ [Next]_vars => Accounted'
  BY AccountedStep
<1>3. ASSUME Core, Accounted, Quiet, NEW c \in Raw, raw[c].out # None
      PROVE  \/ \E t \in Task :
                  /\ outcome[t] = "abandoned" /\ raw[c].out = Awaited(t)
                  /\ \A w \in Wrapper : wrapper[w].connection = c => w = Independent(t)
             \/ ~scenario.pooled /\ \A w \in Wrapper : wrapper[w].connection # c
  <2>1. raw[c].out \in Wrapper
    BY <1>3, TypeFacts DEF Core, RawState
  <2>2. /\ \A t \in Task : ~Live(t) /\ pc[t] # "granted"
        /\ \A w \in Wrapper : closing[w] = "no"
    BY <1>3 DEF Quiet, Live
  <2>3. ~OnItsWay(c) /\ \A w \in Wrapper : ~InUse(w)
    BY <2>2 DEF OnItsWay, InUse
  <2>4. CASE \E w \in Wrapper : wrapper[w].connection = c
    <3>1. \A w \in Wrapper : wrapper[w].connection = c => raw[c].out = w /\ c # None
      BY <1>3, TypeFacts DEF Core, Holding
    <3>2. PICK w \in Wrapper : wrapper[w].connection = c
      BY <2>4
    <3>3. LeftOpen(w) /\ raw[c].out = w
      BY <1>3, <2>2, <2>3, <3>1, <3>2 DEF Accounted
    <3>4. PICK t \in Task :
            Kind(t) = "independent" /\ outcome[t] = "abandoned" /\ w = Independent(t)
      BY <3>3 DEF LeftOpen
    <3> QED
      BY <3>1, <3>3, <3>4 DEF Awaited
  <2>5. CASE scenario.pooled /\ \A w \in Wrapper : wrapper[w].connection # c
    <3>1. Abandoned(raw[c].out)
      BY <1>3, <2>1, <2>3, <2>5 DEF Accounted
    <3> QED
      BY <2>5, <3>1 DEF Abandoned
  <2> QED
    BY <2>4, <2>5
<1>4. Core /\ Accounted => ConnectionsComeBack
  BY <1>3 DEF ConnectionsComeBack
<1> QED
  BY <1>1, <1>2, <1>4, WrappersHaveOneUser, PTL DEF Spec

=============================================================================
