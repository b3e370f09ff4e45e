-------------------------- MODULE MCMappingSchema --------------------------
(***************************************************************************)
(* Two tables in two databases, one of them in a catalog; a file with the  *)
(* name of a table; names in both cases.                                   *)
(***************************************************************************)
EXTENDS MappingSchema, TLC

MCNames == {"t", "T", "u", "d", "e", "c"}

MCLower == [n \in MCNames |-> IF n = "T" THEN "t" ELSE n]

Plain(names) == [i \in 1..Len(names) |-> [name |-> names[i], quoted |-> FALSE]]

MCTables == {Plain(n) : n \in {<<"t">>, <<"u">>, <<"T", "d">>, <<"t", "e">>, <<"u", "d">>,
                               <<"t", "d", "c">>, <<"t", "e", "c">>}}

MCFiles == {Plain(<<"u">>)}

MCColumnSets == {{}, {"u", "T"}}

MCSchemas == {<<>>, (<<"T", "d">> :> {"u"}) @@ (<<"t", "d">> :> {"T"}) @@ (<<"t", "e">> :> {"u"})}
=============================================================================
