------------------------------ MODULE MCValues ------------------------------
(***************************************************************************)
(* Values with an array of two elements, an array of one and a struct of   *)
(* one, and scalars of every order: integers, doubles, strings.            *)
(***************************************************************************)
EXTENDS Values

CONSTANTS Least, Most  \* the integers operators are given: -Least .. Most

MCType == [x |-> "array", y |-> "array", s |-> "spec"]
MCMaxLen == [x |-> 2, y |-> 1, s |-> 1]
MCScalars ==
  ({"int"} \X (-Least .. Most)) \cup ({"double"} \X {0, 1}) \cup {<<"null", 0>>, <<"bool", 1>>}
    \cup ({"string", "interned"} \X {0, 1})
=============================================================================
