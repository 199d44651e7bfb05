--------------------------- MODULE MCGlobalCache ---------------------------
(***************************************************************************)
(* GlobalCache with two instructions of the module itself and one of an    *)
(* importer, over four colliding names in a table that grows twice.        *)
(***************************************************************************)
EXTENDS GlobalCache

MCHash == [k \in Keys |-> CASE k = 3 -> 7 [] OTHER -> 0]
MCSiteKey == [site \in Sites |-> CASE site = "own1" -> 1
                                   [] site = "own2" -> 3
                                   [] OTHER -> 2]
=============================================================================
