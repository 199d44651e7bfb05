-------------------------------- MODULE MCGc --------------------------------
(***************************************************************************)
(* Gc on a heap of at most four objects of the kinds whose mark functions  *)
(* differ: arrays, a function with its code, a struct with its spec.       *)
(***************************************************************************)
EXTENDS Gc

KindOfName(o) ==
  CASE o \in {"a1", "a2"} -> "array" [] o = "f" -> "function" [] o = "c" -> "code"
    [] o = "s" -> "struct" [] o = "t" -> "spec"
MCKind == [o \in Objs |-> KindOfName(o)]
MCSize == [o \in Objs |-> IF o \in {"a1", "a2", "c"} THEN 2 ELSE 1]
=============================================================================
