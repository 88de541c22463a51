------------------------------- MODULE MCWrites -------------------------------
(***************************************************************************)
(* Writes for TLC: three tasks on one row, or two on two rows.             *)
(***************************************************************************)
EXTENDS Writes

Op(do, keys, batch, block) == [do |-> do, keys |-> keys, batch |-> batch, block |-> block]

\* Three methods about one row; the order of the tasks does not matter.
OneRow == <<"aget_or_create", "aupdate_or_create", "acreate", "asave", "asave_fields",
            "asave_select", "asave_empty", "asave_inherited_fields", "aupdate", "adelete",
            "adelete_instance">>
Single == [i \in DOMAIN OneRow |-> Op(OneRow[i], <<"k">>, 1, FALSE)]
Triples == {n \in [1 .. 3 -> DOMAIN OneRow] : n[1] <= n[2] /\ n[2] <= n[3]}
Trios == {[i \in 1 .. 3 |-> Single[n[i]]] : n \in Triples}

\* Two methods about two rows, in either order, in one statement or two.
Bulk == {"abulk_create", "abulk_create_ignore", "abulk_create_update", "abulk_update", "aupdate",
         "adelete"}
Pairs ==
  {<<Op(a, <<"k", "l">>, n, TRUE), Op(b, keys, n, TRUE)>> :
     a, b \in Bulk, n \in 1 .. 2, keys \in {<<"k", "l">>, <<"l", "k">>}}
    \union {<<Op(a, <<"k", "l">>, n, TRUE), Op(b, <<"k">>, 1, block)>> :
              a \in Bulk, b \in ToSet(OneRow), n \in 1 .. 2, block \in BOOLEAN}

Inherited == {<<Op("asave_inherited", <<"k">>, 1, FALSE), b>> : b \in ToSet(Single)}

MCMixes == Trios \union Pairs \union Inherited
MCBeginnings == {{}, {"k"}, {"k", "l"}}
MCOperations == UNION {ToSet(mix) : mix \in MCMixes}

=============================================================================
