----------------------------- MODULE MCUpvalues -----------------------------
(***************************************************************************)
(* Upvalues on two nested frames of two locals each, and two closures of   *)
(* up to two captures.  Variables and addresses are interchangeable.       *)
(***************************************************************************)
EXTENDS Upvalues, TLC

Symmetry == Permutations(Vars) \cup Permutations(Closures) \cup Permutations(Upvals)
=============================================================================
