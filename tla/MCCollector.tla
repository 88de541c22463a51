----------------------------- MODULE MCCollector -----------------------------
(***************************************************************************)
(* Collector for TLC: the models of the test suite (a tree of nodes, an    *)
(* author's books with what refers to them), a model that inherits another *)
(* one, two models that need each other, and all the ways in which a few   *)
(* rows of them can refer to each other.                                   *)
(***************************************************************************)
EXTENDS Collector

FK(name, from, to, on_delete, null) ==
  [name |-> name, from |-> from, to |-> to, on_delete |-> on_delete, null |-> null,
   parent_link |-> FALSE]

\* All ways to give the rows of froms a reference by rel to one of tos.
Ways(rel, froms, tos) ==
  LET refers(f) == {[from |-> r, by |-> rel, to |-> f[r]] : r \in {x \in froms : f[x] # "null"}}
  IN {refers(f) : f \in [froms -> tos \union (IF rel.null THEN {"null"} ELSE {})]}

Product(A, B) == {a \union b : <<a, b>> \in A \X B}

-----------------------------------------------------------------------------
MCModel == {"Node", "Author", "Book", "Review", "Note", "Comment", "Tag", "TagLog",
            "Place", "Shop", "Visit", "Chief", "Unit"}

MCModelOf ==
  [n1 |-> "Node", n2 |-> "Node", n3 |-> "Node",
   a1 |-> "Author", b1 |-> "Book", b2 |-> "Book", v1 |-> "Review", o1 |-> "Note",
   c1 |-> "Comment", t1 |-> "Tag", t2 |-> "Tag", g1 |-> "TagLog",
   p1 |-> "Place", p2 |-> "Place", s1 |-> "Shop", i1 |-> "Visit",
   x1 |-> "Chief", x2 |-> "Chief", x3 |-> "Chief", u1 |-> "Unit", u2 |-> "Unit"]

MCRow == DOMAIN MCModelOf

relative == FK("relative", "Node", "Node", "CASCADE", TRUE)
author == FK("author", "Book", "Author", "CASCADE", TRUE)
review == FK("book", "Review", "Book", "CASCADE", FALSE)
note == FK("book", "Note", "Book", "SET_NULL", TRUE)
comment == FK("book", "Comment", "Book", "PROTECT", TRUE)
tag == FK("book", "Tag", "Book", "RESTRICT", TRUE)
owner == FK("author", "Tag", "Author", "CASCADE", TRUE)
log == FK("tag", "TagLog", "Tag", "CASCADE", FALSE)
ptr == [FK("ptr", "Shop", "Place", "CASCADE", FALSE) EXCEPT !.parent_link = TRUE]
chief == FK("chief", "Unit", "Chief", "CASCADE", FALSE)
unit == FK("unit", "Chief", "Unit", "CASCADE", FALSE)
visit == FK("place", "Visit", "Place", "CASCADE", TRUE)

MCRelation == {relative, author, review, note, comment, tag, owner, log, ptr, visit, chief, unit}

Trees == Ways(relative, {"n1", "n2", "n3"}, {"n1", "n2", "n3"})

Books ==
  Product(Ways(author, {"b1", "b2"}, {"a1"}),
  Product(Ways(review, {"v1"}, {"b1", "b2"}),
  Product(Ways(note, {"o1"}, {"b1"}),
  Product(Ways(comment, {"c1"}, {"b1"}),
  Product(Ways(tag, {"t1"}, {"b1"}),
  Product(Ways(tag, {"t2"}, {"b2"}),
  Product(Ways(owner, {"t1"}, {"a1"}), Ways(log, {"g1"}, {"t1"}))))))))

Shops == Product(Ways(ptr, {"s1"}, {"p1"}), Ways(visit, {"i1"}, {"p1", "p2"}))

Units == Product(Ways(chief, {"u1", "u2"}, {"x1", "x2", "x3"}),
                 Ways(unit, {"x1", "x2", "x3"}, {"u1", "u2"}))

\* One family of models has references at a time.
MCDatabases == Trees \union Books \union Shops \union Units

\* The instance has all that the collector relies on.
ASSUME MCAssumption == CascadesAreCollected /\ NoFastRestriction /\ RoomForChains

=============================================================================
