----------------------------- MODULE MCImports -----------------------------
(***************************************************************************)
(* Imports over three or four files.  MCPrograms: <main> imports a and b,   *)
(* statically or with module::import_, and a imports b.  MCShared: one that *)
(* two others import.  MCNested: the body of a imports c with              *)
(* module::import_ while a is itself being imported.                       *)
(***************************************************************************)
EXTENDS Imports

S(op, arg, guard) == [op |-> op, arg |-> arg, guard |-> guard]
UpTo(n, set) == UNION {[1 .. k -> set] : k \in 0 .. n}

MainStatements ==
  {S("import", "a", "plain"), S("import", "a", "try"), S("import", "b", "plain"),
   S("import", "b", "if"), S("import_", "a", "try"), S("import_", "b", "try"), S("import_", "b", "if"),
   S("import_", "c", "plain"), S("use", "a", "plain"), S("use", "b", "if"),
   S("throw", Main, "plain")}
AStatements ==
  {S("import", "b", "plain"), S("import", "b", "try"), S("use", "b", "plain"),
   S("throw", Main, "plain"), S("error", Main, "plain")}
BStatements == {S("throw", Main, "if"), S("error", Main, "plain")}

Orderly(p) == OneWay(p) /\ Acyclic(p) /\ Separate(p) /\ Shared(p) /\ Branches(p) /\ Small(p)

(* a and b, imported with module::import_, both import c, as <main> may.    *)
MCShared ==
  {[n \in Names |->
      CASE n = Main -> first \o <<S("import_", "a", "try"), S("import_", "b", "try")>>
        [] n = "a" -> <<S("import", "c", guard)>> \o end
        [] n = "b" -> <<S("import", "c", "plain"), S("use", "c", "plain")>>
        [] OTHER -> c] :
    first \in {<<>>, <<S("import", "c", "try")>>}, guard \in {"plain", "if", "try"},
    end \in {<<>>, <<S("error", Main, "plain")>>}, c \in UpTo(1, BStatements)}

MCPrograms ==
  {p \in MCShared \cup
         {[n \in {Main, "a", "b"} |-> IF n = Main THEN m ELSE IF n = "a" THEN a ELSE b] :
            m \in UpTo(3, MainStatements), a \in UpTo(2, AStatements),
            b \in UpTo(1, BStatements)} : Orderly(p)}

MCNested ==
  {[n \in Names |->
      CASE n = Main -> <<S("import", "a", guard), S("import", "b", "plain")>>
        [] n = "a" -> <<S("import_", "c", guard)>>
        [] n = "b" -> <<S("import", "a", "plain"), S("use", "a", "plain")>>
        [] OTHER -> c] : guard \in {"plain", "try"}, c \in UpTo(2, {S("throw", Main, "if")})}
=============================================================================
