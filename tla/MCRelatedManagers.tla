-------------------------- MODULE MCRelatedManagers --------------------------
(***************************************************************************)
(* RelatedManagers for TLC: two tasks, and the operations worth pairing.   *)
(***************************************************************************)
EXTENDS RelatedManagers

People == 1 .. 3

Op(manager, do, instance, objs) ==
  [manager |-> manager, do |-> do, instance |-> instance, objs |-> objs]

OfOne(m) ==
  {Op(m, do, 1, {2}) : do \in {"aremove", "aset", "aset_clear"}}
    \union {Op(m, "aadd", 1, {2, 3}), Op(m, "aclear", 1, {}), Op(m, "aset", 1, {})}

\* The second task works on the same instance or on the objects of the first:
\* from the other end of a symmetrical relation, or for another instance.
OfOther(m) ==
  {Op(m, "aadd", 1, {2, 3}), Op(m, "aremove", 1, {2, 3}), Op(m, "aset", 1, {3})}
    \union CASE m = "symmetrical" -> {Op(m, "aadd", 2, {1, 3})}
             [] m \in {"bulk", "each"} -> {Op(m, "aadd", 2, {2, 3})}
             [] OTHER -> {}

Nullable == Managers \ {"required"}
RequiredOps == {Op("required", "aset", 1, {2}), Op("required", "aadd", 2, {2, 3})}

MCOperations == RequiredOps \union UNION {OfOne(m) \union OfOther(m) : m \in Nullable}
MCPairings ==
  {<<a, b>> : a, b \in RequiredOps}
    \union UNION {{<<a, b>> : a \in OfOne(m), b \in OfOther(m)} : m \in Nullable}

\* Object 2 is related to 1, both ways: nobody else's foreign key is set.
MCBeginnings == {{}, {<<1, 2>>}, {<<1, 2>>, <<2, 1>>}}

=============================================================================
