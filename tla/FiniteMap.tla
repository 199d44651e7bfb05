----------------------------- MODULE FiniteMap -----------------------------
(***************************************************************************)
(* What hashmap.c promises to its callers: a finite map from interned      *)
(* names to values, in which a name once bound stays bound (the table has  *)
(* no deletion) and only a set changes a binding.  The map is the set of   *)
(* its bindings.                                                           *)
(***************************************************************************)

CONSTANTS
  Keys,    \* interned names, the size_t keys of the C table
  Values   \* the struct cb_value payloads

VARIABLE bindings

Binding == [key : Keys, value : Values]

Init == bindings = {}

Put(k, v) ==
  bindings' = {b \in bindings : b.key # k} \cup {[key |-> k, value |-> v]}

Next == \E k \in Keys, v \in Values : Put(k, v)

Spec == Init /\ [][Next]_bindings
=============================================================================
