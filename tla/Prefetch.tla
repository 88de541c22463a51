------------------------------- MODULE Prefetch -------------------------------
(***************************************************************************)
(* The evaluation of a queryset with prefetch_related(): _afetch_all() and *)
(* prefetch_related_objects(), which walks the tree of lookups with a      *)
(* coroutine for every group of lookups that begin alike, gathered at      *)
(* every level.  Tasks evaluate one queryset, at once or one after another *)
(* failed.                                                                 *)
(*                                                                         *)
(* All instances that a query returned are treated alike, so a list of     *)
(* them is one object, numbered by the query; 0 is an empty list.          *)
(***************************************************************************)
EXTENDS Naturals, Sequences, FiniteSets, SequencesExt, FiniteSetsExt, TLC

CONSTANTS
  Task,
  Attr,       \* the relations
  Kind,       \* "forward" and "reverse" foreign keys, "many" to many
  Empty,      \* those without related objects
  Auto,       \* the lookups that the default manager of a many to many relation
              \* prefetches, sequences
  Asked,      \* those that the queryset of a Prefetch prefetches, sequences
  Requests,   \* the lookups the queryset may have, sequences of lookups, each
              \*   [path: the attributes on its way, a relation or a to_attr,
              \*    to: where the last is stored,
              \*    query: "default" or the queryset of a Prefetch]
  Failures    \* how many queries fail or tasks are cancelled, at most

Lookup == [path : Seq(STRING) \ {<<>>}, to : STRING, query : {"default"} \union DOMAIN Asked]

ASSUME RequestsAssumption ==
  /\ Kind \in [Attr -> {"forward", "reverse", "many"}] /\ Empty \subseteq Attr /\ Failures \in Nat
  /\ Auto \in [{a \in Attr : Kind[a] = "many"} -> Seq(Lookup)]
  /\ Asked \in [DOMAIN Asked -> Seq(Lookup)] /\ Requests \subseteq Seq(Lookup)

VARIABLES
  request,       \* the lookups of the run, never change
  result_cache, prefetch_done, \* the queryset's attributes; NoResult before a query
  made,          \* the number of queries answered
  cache,         \* what instances have prefetched, by <<object, attribute>>
  calls,         \* the calls of prefetch_related_objects(), in order
  coroutines,    \* the calls of _process_level() that are not done
  task,          \* what each task is doing
  got,           \* the instances each task was given
  overlapped,    \* two evaluations were under way at once
  failed         \* the number of failures so far

queryset == <<result_cache, prefetch_done>>
program == <<task, got, overlapped, failed>>
vars == <<request, queryset, made, cache, calls, coroutines, program>>

NoResult == 0

Init ==
  /\ request \in Requests
  /\ result_cache = NoResult /\ prefetch_done = FALSE
  /\ made = 0 /\ cache = <<>> /\ calls = <<>> /\ coroutines = {}
  /\ task = [t \in Task |-> "idle"] /\ got = [t \in Task |-> NoResult]
  /\ overlapped = FALSE /\ failed = 0

-----------------------------------------------------------------------------
(* Lookups, as Prefetch objects answer about them.                         *)

PrefetchTo(lookup) == Front(lookup.path) \o <<lookup.to>>
CurrentPrefetchTo(lookup, level) == SubSeq(PrefetchTo(lookup), 1, level)
Leaf(lookup, level) == level = Len(lookup.path)
Queryset(lookup, level) == IF Leaf(lookup, level) THEN lookup.query ELSE "default"
AddPrefix(lookup, prefix) == [lookup EXCEPT !.path = prefix \o @]

\* What the queryset of a level prefetches itself.  The one of a foreign key is not
\* made by the default manager, whose lookups it would have.
Further(lookup, level) ==
  LET a == lookup.path[level]
      query == Queryset(lookup, level)
  IN
  IF query # "default" THEN Asked[query] ELSE IF Kind[a] = "many" THEN Auto[a] ELSE <<>>

\* The lookup that stands for its group.  Lookups were reversed: it is the one
\* that was given last.
Representative(lookups) == Head(lookups)

\* Lookups are grouped by their attribute at a level, which decides everything
\* about that level: the rest of a group is not looked at.
Groups(call, obj, level, lookups) ==
  {[call |-> call, obj |-> obj, level |-> level, at |-> "start", child |-> 0, awaits |-> 0,
    lookups |-> SelectSeq(lookups, LAMBDA l : l.path[level] = a)] :
     a \in {lookups[i].path[level] : i \in DOMAIN lookups}}

Deeper(c, obj) ==
  LET deeper == SelectSeq(c.lookups, LAMBDA l : Len(l.path) > c.level) IN
  IF obj = 0 THEN {} ELSE Groups(c.call, obj, c.level + 1, deeper)

Through(c) == Representative(c.lookups).path[c.level]
ToPath(c) == CurrentPrefetchTo(Representative(c.lookups), c.level)
To(c) == Last(ToPath(c))

\* Mutant of IsFetched: every level is queried.
IsFetchedNever(c) == FALSE

IsFetched(c) == <<c.obj, To(c)>> \in DOMAIN cache

\* Not a relation, but what was stored under a to_attr: nothing prefetches it.
Named(c) == Through(c) \notin Attr

Done(c) == calls[c.call].done

Replace(c, new) == coroutines' = (coroutines \ {c}) \union new

-----------------------------------------------------------------------------
(* Evaluating the queryset.                                                *)

Busy == {t \in Task : task[t] \in {"fetching", "prefetching"}}

\* A call of prefetch_related_objects() on behalf of a task: its own, or one nested
\* in it, by the coroutine that evaluates a foreign key's queryset.
NewCall(t, nested, obj, lookups) ==
  [task |-> t, nested |-> nested, obj |-> obj, lookups |-> Reverse(lookups), done |-> <<>>]

\* The second half of _afetch_all().
PrefetchResults(t, obj) ==
  IF request # <<>> /\ ~prefetch_done
    THEN /\ task' = [task EXCEPT ![t] = "prefetching"]
         /\ calls' = Append(calls, NewCall(t, FALSE, obj, request))
         /\ UNCHANGED got
    ELSE /\ task' = [task EXCEPT ![t] = "ok"] /\ got' = [got EXCEPT ![t] = obj]
         /\ UNCHANGED calls

\* Mutant of Evaluate: the query is not awaited.
EvaluateUnfetched(t) ==
  /\ task[t] = "idle" /\ PrefetchResults(t, result_cache)
  /\ overlapped' = (overlapped \/ Busy # {})
  /\ UNCHANGED <<request, queryset, made, cache, coroutines, failed>>

Evaluate(t) ==
  /\ task[t] = "idle"
  /\ overlapped' = (overlapped \/ Busy # {})
  /\ IF result_cache = NoResult
       THEN task' = [task EXCEPT ![t] = "fetching"] /\ UNCHANGED <<calls, got>>
       ELSE PrefetchResults(t, result_cache)
  /\ UNCHANGED <<request, queryset, made, cache, coroutines, failed>>

\* The rows are read, the cursor is closed and the cache is set.
Fetched(t) ==
  /\ task[t] = "fetching"
  /\ made' = made + 1 /\ result_cache' = made + 1
  /\ PrefetchResults(t, made + 1)
  /\ UNCHANGED <<request, prefetch_done, cache, coroutines, overlapped, failed>>

-----------------------------------------------------------------------------
(* prefetch_related_objects().                                             *)

Waits(n) == {c \in coroutines : c.awaits = n}
Alive(n) == IF calls[n].nested THEN Waits(n) # {} ELSE task[calls[n].task] = "prefetching"
Over(n) == \A c \in coroutines : c.call # n

\* Left behind: its task got an exception already.
Stray(c) == task[calls[c.call].task] # "prefetching"

\* The coroutine, the calls that wait for it and the task get the exception; the
\* rest goes on, and nobody awaits the other coroutines of the gather.
Raise(c, rest) ==
  LET Up(d) == Waits(d.call)
      above == {c} \union Up(c) \union UNION {Up(d) : d \in Up(c)}
  IN
  /\ coroutines' = rest \ above
  /\ task' = IF Stray(c) THEN task ELSE [task EXCEPT ![calls[c.call].task] = "raised"]

Seen(n, l) == PrefetchTo(l) \in DOMAIN calls[n].done

\* The loop goes on with the lookups that came up.
NextLookups(n) ==
  LET lookups == calls[n].lookups
      fresh == SelectSeq(lookups, LAMBDA l : ~Seen(n, l))
  IN
  /\ Alive(n) /\ Over(n) /\ lookups # <<>>
  /\ \A i \in DOMAIN lookups : Seen(n, lookups[i]) => lookups[i].query = "default"
  /\ calls' = [calls EXCEPT ![n].lookups = <<>>]
  /\ coroutines' = coroutines \union Groups(n, calls[n].obj, 1, fresh)
  /\ UNCHANGED <<request, queryset, made, cache, program>>

\* _prefetch_related_objects() returns to its task.
Prefetched(n) ==
  LET t == calls[n].task IN
  /\ Over(n) /\ calls[n].lookups = <<>> /\ ~calls[n].nested /\ task[t] = "prefetching"
  /\ prefetch_done' = TRUE
  /\ task' = [task EXCEPT ![t] = "ok"] /\ got' = [got EXCEPT ![t] = result_cache]
  /\ UNCHANGED <<request, result_cache, made, cache, calls, coroutines, overlapped, failed>>

\* What is stored under to_attr is looked for under the relation's own name: a
\* foreign key would be queried synchronously, a manager has no attributes to
\* follow.  A to_attr has to be there, and more has to be asked for behind it.
Untraversable(c) ==
  /\ ToPath(c) \notin DOMAIN Done(c)
  /\ IF Named(c)
       THEN ~IsFetched(c) \/ \E i \in DOMAIN c.lookups : Leaf(c.lookups[i], c.level)
       ELSE /\ IsFetched(c) /\ <<c.obj, Through(c)>> \notin DOMAIN cache
            /\ Kind[Through(c)] = "forward" \/ Deeper(c, c.obj) # {}

\* Mutant of FirstStep: what is fetched already is not followed.
FirstStepNotFollowing(c) ==
  IF ToPath(c) \in DOMAIN Done(c) \/ IsFetched(c) THEN {} ELSE {[c EXCEPT !.at = "query"]}

\* _process_level() up to its first await: the attribute was fetched by this call
\* or before it, or has to be queried.
FirstStep(c) ==
  IF ToPath(c) \in DOMAIN Done(c) THEN Deeper(c, Done(c)[ToPath(c)])
  ELSE IF ~Named(c) /\ ~IsFetched(c) THEN {[c EXCEPT !.at = "query"]}
  ELSE IF <<c.obj, Through(c)>> \in DOMAIN cache THEN Deeper(c, cache[<<c.obj, Through(c)>>].obj)
  ELSE {}

\* What was gathered together takes its first steps in one go: the tasks were
\* scheduled one after the other.
Gathered(c) == {d \in coroutines : d.at = "start" /\ d.call = c.call /\ d.obj = c.obj /\ d.level = c.level}
Started(c) ==
  (coroutines \ Gathered(c)) \union UNION {FirstStep(d) : d \in {e \in Gathered(c) : ~Untraversable(e)}}

ProcessLevel(c) ==
  /\ c.at = "start" /\ \A d \in Gathered(c) : ~Untraversable(d)
  /\ coroutines' = Started(c)
  /\ UNCHANGED <<request, queryset, made, cache, calls, program>>

TraverseFails(c) ==
  /\ c.at = "start" /\ Untraversable(c)
  /\ Raise(c, Started(c))
  /\ UNCHANGED <<request, queryset, made, cache, calls, got, overlapped, failed>>

\* prefetch_one_level() has its rows: set the caches of the instances, and leave
\* the queryset's own lookups to the loop.
Populate(c, child) ==
  LET rep == Representative(c.lookups)
      further == Further(rep, c.level)
      additional == [i \in DOMAIN further |-> AddPrefix(further[i], ToPath(c))]
  IN
  /\ cache' = (<<c.obj, To(c)>> :> [obj |-> child, query |-> Queryset(rep, c.level),
                                   stray |-> Stray(c)]) @@ cache
  /\ calls' = [calls EXCEPT ![c.call].done = (ToPath(c) :> child) @@ @,
                            ![c.call].lookups = @ \o Reverse(additional)]
  /\ Replace(c, Deeper(c, child))

\* The queryset of a foreign key is evaluated by _afetch_all(), which prefetches
\* its own lookups before anything is set: those of a Prefetch's queryset.
Nests(c) ==
  /\ Kind[Through(c)] # "many" /\ Through(c) \notin Empty
  /\ Further(Representative(c.lookups), c.level) # <<>>

Queried(c) ==
  /\ c.at = "query"
  /\ LET child == IF Through(c) \in Empty THEN 0 ELSE made + 1 IN
     IF Nests(c)
       THEN /\ calls' = Append(calls, NewCall(calls[c.call].task, TRUE, child,
                                              Further(Representative(c.lookups), c.level)))
            /\ Replace(c, {[c EXCEPT !.at = "nested", !.awaits = Len(calls) + 1, !.child = child]})
            /\ UNCHANGED cache
       ELSE Populate(c, child)
  /\ made' = made + 1
  /\ UNCHANGED <<request, queryset, program>>

NestedDone(c) ==
  /\ c.at = "nested" /\ Over(c.awaits) /\ calls[c.awaits].lookups = <<>>
  /\ Populate(c, c.child)
  /\ UNCHANGED <<request, queryset, made, program>>

\* A lookup that came up has a queryset of its own, and what it is about was fetched
\* without.
SeenDifferently(n) ==
  /\ Alive(n) /\ Over(n)
  /\ \E i \in DOMAIN calls[n].lookups :
       Seen(n, calls[n].lookups[i]) /\ calls[n].lookups[i].query # "default"
  /\ calls' = [calls EXCEPT ![n].lookups = <<>>]
  /\ IF Waits(n) # {} THEN \E c \in Waits(n) : Raise(c, coroutines)
     ELSE task' = [task EXCEPT ![calls[n].task] = "raised"] /\ UNCHANGED coroutines
  /\ UNCHANGED <<request, queryset, made, cache, got, overlapped, failed>>

\* A query fails.
QueryFails(c) ==
  /\ c.at = "query" /\ failed < Failures
  /\ Raise(c, coroutines) /\ failed' = failed + 1
  /\ UNCHANGED <<request, queryset, made, cache, calls, got, overlapped>>

\* A task is cancelled, and with it what it has gathered.
Cancel(t) ==
  /\ t \in Busy /\ failed < Failures
  /\ coroutines' = {c \in coroutines : calls[c.call].task # t}
  /\ task' = [task EXCEPT ![t] = "raised"] /\ failed' = failed + 1
  /\ UNCHANGED <<request, queryset, made, cache, calls, got, overlapped>>

Next ==
  \/ \E t \in Task : Evaluate(t) \/ Fetched(t) \/ Cancel(t)
  \/ \E n \in DOMAIN calls : NextLookups(n) \/ Prefetched(n) \/ SeenDifferently(n)
  \/ \E c \in coroutines : ProcessLevel(c) \/ TraverseFails(c) \/ Queried(c) \/ NestedDone(c) \/ QueryFails(c)

Spec == Init /\ [][Next]_vars

-----------------------------------------------------------------------------
(* Properties.                                                             *)

\* Every variable keeps its kind, and who has returned has instances.
TypeOK ==
  /\ result_cache \in 0 .. made /\ prefetch_done \in BOOLEAN
  /\ \A e \in DOMAIN cache : e[1] \in 1 .. made /\ cache[e].obj \in 0 .. made
  /\ \A c \in coroutines :
       /\ c.call \in DOMAIN calls /\ c.obj \in 1 .. made
       /\ c.at \in {"start", "query", "nested"} /\ (c.at = "nested" <=> c.awaits \in DOMAIN calls)
       /\ c.lookups # <<>> /\ \A i \in DOMAIN c.lookups : c.level <= Len(c.lookups[i].path)
  /\ \A t \in Task :
       /\ task[t] \in {"idle", "fetching", "prefetching", "ok", "raised"}
       /\ got[t] \in 0 .. made /\ (task[t] = "ok" <=> got[t] # NoResult)
  /\ overlapped \in BOOLEAN /\ failed \in 0 .. Failures

\* What the evaluation that succeeded has fetched itself, by the way to it.  The rest
\* was fetched before it.
Finished == {n \in DOMAIN calls : ~calls[n].nested /\ task[calls[n].task] = "ok"}
Answers == IF Finished = {} THEN <<>> ELSE calls[Min(Finished)].done

\* What a lookup leads to by the querysets on its way, with the level it adds to.
\* The lookups of a many to many relation are found out only when it is queried: if
\* that evaluation then raises, the next one does not know of them.
Known(l, i) ==
  \/ Kind[l.path[i]] # "many" \/ CurrentPrefetchTo(l, i) \in DOMAIN Answers
  \/ \A t \in Task : task[t] # "raised"
Additional(l, level) ==
  UNION {{<<AddPrefix(a, CurrentPrefetchTo(l, i)), i + 1>> : a \in ToSet(Further(l, i))} :
           i \in {j \in level .. Len(l.path) : l.path[j] \in Attr /\ Known(l, j)}}
Wanted ==
  LET asked == {<<l, 1>> : l \in ToSet(request)}
      more == asked \union UNION {Additional(p[1], p[2]) : p \in asked}
  IN {p[1] : p \in more \union UNION {Additional(p[1], p[2]) : p \in more}}

Holds(objects, l) ==
  LET Follow(obj, i) ==
        IF CurrentPrefetchTo(l, i) \in DOMAIN objects THEN objects[CurrentPrefetchTo(l, i)]
        ELSE IF <<obj, l.path[i]>> \in DOMAIN cache THEN cache[<<obj, l.path[i]>>].obj ELSE 0
      owner == FoldLeft(Follow, result_cache, [i \in 1 .. Len(l.path) - 1 |-> i])
  IN
  owner = 0 \/ (<<owner, l.to>> \in DOMAIN cache /\ cache[<<owner, l.to>>].query = l.query)

\* An evaluation that succeeds gives instances with everything prefetched that the
\* queryset asks for, each relation by the queryset it asks for, although
\* evaluations before failed or were cancelled anywhere, and coroutines of theirs
\* still run.  (It speaks of the objects this evaluation fetched: who is left behind
\* may put others in their place.  Evaluations at once are not isolated from each
\* other: the second result takes the place of the first.)
InstancesArePrefetched ==
  \A t \in Task : task[t] = "ok" /\ ~overlapped =>
    got[t] = result_cache /\ \A l \in Wanted : Holds(Answers, l)

\* And they keep it, when everything has come to rest.
InstancesStayPrefetched ==
  \A t \in Task : task[t] = "ok" /\ ~overlapped /\ coroutines = {} =>
    \A l \in Wanted : Holds(<<>>, l)

\* A relation of an instance is queried once, so that objects are not exchanged for
\* others: but for what a coroutine puts there that was left behind by an evaluation
\* that failed, and what is put in its place.
PrefetchedObjectsStay ==
  [][~overlapped' => \A e \in DOMAIN cache :
       cache'[e] = cache[e] \/ cache[e].stray \/ cache'[e].stray]_vars

=============================================================================
