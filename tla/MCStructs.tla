----------------------------- MODULE MCStructs ------------------------------
(***************************************************************************)
(* Structs with a declaration of a field, one of a field and a method,     *)
(* and specs made at run time that have the same names at other indices;   *)
(* with MCSmaller, fewer names.                                            *)
(***************************************************************************)
EXTENDS Structs, TLC

MCDeclared == [cell |-> [fields |-> <<"b">>, methods |-> <<>>],
               counter |-> [fields |-> <<"b">>, methods |-> <<"m">>]]
MCLayouts == {<<"m", "b">>, <<"m", "m">>}
MCSmaller == {<<"m", "b">>, <<"b">>}
MCLoads == [load_m |-> "m"]
MCStores == [store_b |-> "b"]
MCFunctions == <<"f", "g">>
Symmetry == Permutations(Objects)
=============================================================================
