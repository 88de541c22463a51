------------------------------ MODULE MCPrefetch ------------------------------
(***************************************************************************)
(* Prefetch for TLC: the relations of a small schema, and the lookups worth *)
(* asking for together.                                                    *)
(***************************************************************************)
EXTENDS Prefetch

L(path, to, query) == [path |-> path, to |-> to, query |-> query]
Plain(path) == L(path, Last(path), "default")

MCAttr == {"author", "books", "tags", "none"}
MCKind == [a \in MCAttr |-> CASE a = "author" -> "forward" [] a = "books" -> "reverse"
                                [] OTHER -> "many"]

\* What the default managers behind many to many relations prefetch.
MCAuto == [a \in {"tags", "none"} |-> IF a = "tags" THEN <<L(<<"none">>, "none", "own")>> ELSE <<>>]

\* What the querysets of Prefetch objects prefetch.
MCAsked ==
  [q \in {"some", "others", "own", "labelled", "rich", "signed"} |->
     CASE q = "labelled" -> <<Plain(<<"tags">>)>>
       [] q = "rich" -> <<Plain(<<"none">>), L(<<"books">>, "books", "labelled")>>
       [] q = "signed" -> <<L(<<"author">>, "writer", "some")>>
       [] OTHER -> <<>>]

\* Lookups that share a level agree about it.
MCRequests ==
  {<<Plain(<<"books">>), Plain(<<"tags">>)>>,
   <<Plain(<<"author", "tags">>), Plain(<<"author", "books">>), Plain(<<"tags">>)>>,
   <<Plain(<<"tags", "author">>), Plain(<<"tags">>), Plain(<<"none", "tags">>)>>,
   <<L(<<"tags">>, "tags", "some"), Plain(<<"books", "tags">>), Plain(<<"books", "none">>)>>,
   <<L(<<"books">>, "books", "labelled"), L(<<"tags">>, "chosen", "rich")>>,
   <<L(<<"author">>, "author", "rich")>>,
   <<L(<<"tags", "books">>, "books", "signed")>>,
   <<L(<<"tags">>, "chosen", "some"), Plain(<<"chosen", "author">>)>>,
   <<L(<<"books", "tags">>, "chosen", "some"), Plain(<<"books", "chosen">>), Plain(<<"tags">>)>>,
   <<Plain(<<"tags">>), Plain(<<"tags", "none">>)>>,
   <<Plain(<<"tags", "books", "none">>), L(<<"tags", "author">>, "writer", "some")>>,
   <<>>}

\* Evaluations at once promise nothing: TLC does not follow them.
OneAtATime == ~overlapped

\* A relation asked for twice, by different querysets or with something behind it.
Disagreeing ==
  {<<L(<<"tags">>, "tags", "some"), Plain(<<"tags", "author">>)>>,
   <<L(<<"tags">>, "few", "some"), L(<<"tags">>, "many", "others")>>}

=============================================================================
