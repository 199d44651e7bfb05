------------------------------- MODULE Scopes -------------------------------
(***************************************************************************)
(* Names: how compiler.c turns a name into a local slot, an upvalue index  *)
(* or a global in one pass, and which variables it makes a closure bind.   *)
(* Every program of up to MaxSteps constructs is compiled, one action per  *)
(* construct.                                                              *)
(*                                                                         *)
(* env and ids are history: the variables in scope by the rules of         *)
(* README.md (Scoping Rules), each declaration with an identity of its own, *)
(* to be compared with the variable the generated code reaches.  The name  *)
(* of a function statement is one variable for which the compiler takes    *)
(* two slots; reached is the history of which of the two each use found.   *)
(***************************************************************************)
EXTENDS Integers, Sequences, FiniteSets, Functions

CONSTANTS
  Names,
  Forms,    \* the forms of functions and captures the programs use
  MaxSteps, \* bound on the length of the program
  MaxDepth, \* bound on the nesting of functions
  Unnamed   \* the name -1 of a parameter whose function is not parsed yet

(* "statement", "anonymous" and "named" (an expression with a name) are     *)
(* functions, "method" one of a struct; "through" is a function that       *)
(* captures variables and hands others on to the functions in it;          *)
(* "assigned" is an assignment to the name of a function statement.        *)
ASSUME ScopesAssumption ==
  /\ Forms \subseteq {"statement", "anonymous", "named", "method", "through", "assigned"}
  /\ MaxSteps \in Nat /\ MaxDepth \in Nat
  /\ Unnamed \notin Names

VARIABLES
  fstates,  \* the chain of function_state, innermost last; none at module level
  env,      \* history: the scopes that enclose the point reached, innermost last
  ids,      \* history: how many variables were declared
  steps,
  wrong,    \* history: a name was compiled to another variable than it means
  twice,    \* history: the variables that have two slots
  reached   \* history: [variable, copy, store] of the uses of those

vars == <<fstates, env, ids, steps, wrong, twice, reached>>

Global == 0

Fstate == fstates[Len(fstates)]
InFunction == fstates # <<>>
Front(s) == SubSeq(s, 1, Len(s) - 1)
Going == steps < MaxSteps
-----------------------------------------------------------------------------
(* What a name means: the innermost variable of that name, or a global.    *)
Meaning(e, name) ==
  LET declaring == {i \in DOMAIN e : name \in DOMAIN e[i]} IN
  IF declaring = {} THEN Global
  ELSE e[CHOOSE i \in declaring : \A j \in declaring : j <= i][name]

Declared(e, name, id) == [e EXCEPT ![Len(e)] = [n \in DOMAIN @ \cup {name} |->
                                                  IF n = name THEN id ELSE @[n]]]

(* struct scope and struct function_state.  id and copy are history: the    *)
(* variable, and whether the slot is the second one it has.                *)
Scope == [bindings : Seq([name : Names \cup {Unnamed}, index : Nat, id : Nat,
                          copy : BOOLEAN]),
          num_locals : Nat]
EmptyScope == [bindings |-> <<>>, num_locals |-> 0]
NewFstate(form, name) ==
  [form |-> form, name |-> name, scopes |-> <<EmptyScope>>, num_locals |-> 0,
   free |-> <<>>,      \* free_variables
   used |-> {},        \* history: slots taken so far
   meant |-> {},       \* history: [i, id, store], upvalue i used for variable id
   params |-> <<>>, body |-> FALSE]

Inner(f) == f.scopes[Len(f.scopes)]

(* Mutant of fstate_add_binding: the maximum is not kept.                  *)
fstate_add_binding_last(f, name, id, copy) ==
  LET s == Inner(f)
      b == [name |-> name, index |-> s.num_locals, id |-> id, copy |-> copy]
      t == [bindings |-> <<b>> \o s.bindings, num_locals |-> s.num_locals + 1] IN
  [f EXCEPT !.scopes[Len(f.scopes)] = t, !.used = @ \cup {b.index},
            !.num_locals = t.num_locals]

fstate_add_binding(f, name, id, copy) ==
  LET s == Inner(f)
      b == [name |-> name, index |-> s.num_locals, id |-> id, copy |-> copy]
      t == [bindings |-> <<b>> \o s.bindings, num_locals |-> s.num_locals + 1] IN
  [f EXCEPT !.scopes[Len(f.scopes)] = t, !.used = @ \cup {b.index},
            !.num_locals = IF t.num_locals > @ THEN t.num_locals ELSE @]

(* The bindings of a function's scopes in the order they are searched, from *)
(* the innermost scope out, newest first.                                  *)
AllBindings(f) ==
  LET from[i \in 0 .. Len(f.scopes)] ==
        IF i = 0 THEN <<>> ELSE f.scopes[i].bindings \o from[i - 1]
  IN from[Len(f.scopes)]

HasBinding(f, name) == \E b \in Range(AllBindings(f)) : b.name = name

(* Mutant of GetBinding: the oldest binding is found.                      *)
GetBindingOldest(f, name) ==
  LET bs == AllBindings(f)
      hits == {i \in DOMAIN bs : bs[i].name = name}
  IN bs[CHOOSE i \in hits : \A j \in hits : i >= j]

(* scope_get_binding                                                       *)
GetBinding(f, name) ==
  LET bs == AllBindings(f)
      hits == {i \in DOMAIN bs : bs[i].name = name}
  IN bs[CHOOSE i \in hits : \A j \in hits : i <= j]

(* fstate_parent_has_binding, of the function at depth d.                  *)
ParentHasBinding(d, name) == \E i \in 1 .. d - 1 : HasBinding(fstates[i], name)

FreeIndices(f, name) == {i \in DOMAIN f.free : f.free[i] = name}
FirstFree(f, name) ==
  (CHOOSE i \in FreeIndices(f, name) : \A j \in FreeIndices(f, name) : i <= j) - 1
-----------------------------------------------------------------------------
(* declare_name, with the STORE_LOCAL that initialises it; the statement's *)
(* own name in the case of a function or a struct.                         *)
Let(name) ==
  /\ Going /\ (InFunction => Fstate.body)
  /\ IF InFunction
     THEN /\ fstates' = [fstates EXCEPT ![Len(fstates)] = fstate_add_binding(@, name, ids + 1, FALSE)]
          /\ env' = Declared(env, name, ids + 1) /\ ids' = ids + 1
     ELSE UNCHANGED <<fstates, env, ids>>
  /\ steps' = steps + 1
  /\ UNCHANGED <<wrong, twice, reached>>

(* fstate_push_scope and fstate_pop_scope, around every block.  At module  *)
(* level blocks make no scope: every variable is a global.                 *)
BeginBlock ==
  /\ Going /\ InFunction /\ Fstate.body
  /\ fstates' = [fstates EXCEPT ![Len(fstates)].scopes =
                   Append(@, [bindings |-> <<>>, num_locals |-> Inner(Fstate).num_locals])]
  /\ env' = Append(env, <<>>)
  /\ steps' = steps + 1
  /\ UNCHANGED <<ids, wrong, twice, reached>>

EndBlock ==
  /\ InFunction /\ Len(Fstate.scopes) > 1
  /\ fstates' = [fstates EXCEPT ![Len(fstates)].scopes = Front(@)]
  /\ env' = Front(env)
  /\ UNCHANGED <<ids, steps, wrong, twice, reached>>

(* The index of an upvalue not used before: num_upvalues, which nothing    *)
(* ever raises from 0, and the free variables so far.                      *)
NewUpvalue(f) == Len(f.free)

(* What a use of variable id has reached, a binding b.                     *)
Reached(id, b, store) ==
  IF id \in twice THEN {[variable |-> id, copy |-> b.copy, store |-> store]} ELSE {}

(* load_name and store_name through resolve_binding: a local, the upvalue  *)
(* of a name used before, a new upvalue, or a global.  A default value may *)
(* use names before the body does.                                         *)
Use(name, store) ==
  /\ Going /\ (InFunction /\ ~Fstate.body => Fstate.params # <<>>)
  /\ store /\ "assigned" \notin Forms => Meaning(env, name) \notin twice
  /\ steps' = steps + 1 /\ UNCHANGED <<env, ids, twice>>
  /\ LET meaning == Meaning(env, name)  f == Fstate IN
     IF InFunction /\ HasBinding(f, name)
     THEN LET b == GetBinding(f, name) IN
          /\ wrong' = (wrong \/ b.id # meaning)
          /\ reached' = reached \cup Reached(meaning, b, store)
          /\ UNCHANGED fstates
     ELSE IF InFunction /\ ParentHasBinding(Len(fstates), name)
     THEN /\ LET found == FreeIndices(f, name) # {}
                 i == IF found THEN FirstFree(f, name) ELSE NewUpvalue(f) IN
             fstates' = [fstates EXCEPT
               ![Len(fstates)].free = IF found THEN @ ELSE Append(@, name),
               ![Len(fstates)].meant = @ \cup {[i |-> i, id |-> meaning, store |-> store]}]
          /\ UNCHANGED <<wrong, reached>>
     ELSE wrong' = (wrong \/ meaning # Global) /\ UNCHANGED <<fstates, reached>>
-----------------------------------------------------------------------------
(* The name of a function: bound around it before its body, for the        *)
(* recursive calls, and by the statement once more after it, in a second   *)
(* slot that holds the same function.  The name of an expression is in     *)
(* scope in its body only; a method has none.                              *)
BindsName(form) == form # "anonymous"

BeginFunction(form, name) ==
  /\ Going /\ Len(fstates) < MaxDepth /\ form \in Forms
  /\ IF InFunction
     THEN Fstate.body \/ (Fstate.params # <<>> /\ form \in {"anonymous", "named"})
     ELSE TRUE
  /\ twice' = IF form = "statement" /\ InFunction THEN twice \cup {ids + 1} ELSE twice
  /\ LET outer == IF form = "statement" /\ InFunction THEN Declared(env, name, ids + 1) ELSE env
         own == IF form = "named" THEN [n \in {name} |-> ids + 1] ELSE <<>> IN
     env' = outer \o <<own, <<>>>>
  /\ fstates' =
       (IF InFunction /\ BindsName(form)
        THEN [fstates EXCEPT ![Len(fstates)] = fstate_add_binding(@, name, ids + 1, FALSE)]
        ELSE fstates)
       \o <<NewFstate(form, name)>>
  /\ ids' = ids + 1 /\ steps' = steps + 1
  /\ UNCHANGED <<wrong, reached>>

(* A parameter is a name or an array pattern of one name.  Its slot is     *)
(* taken at once; its name can be used in the body only.                   *)
Param(name, pattern) ==
  /\ Going /\ InFunction /\ ~Fstate.body
  /\ \A p \in Range(Fstate.params) : p.name # name
  /\ LET f == fstate_add_binding(Fstate, Unnamed, ids + 1, FALSE) IN
     fstates' = [fstates EXCEPT ![Len(fstates)] =
       [f EXCEPT !.params = Append(@, [name |-> name, pattern |-> pattern, id |-> ids + 1,
                                       index |-> Inner(Fstate).num_locals])]]
  /\ ids' = ids + 1 /\ steps' = steps + 1
  /\ UNCHANGED <<env, wrong, twice, reached>>

(* The bindings of plain parameters get their names, those of patterns are *)
(* taken apart into new locals, from the last to the first.                *)
NameParam(f, p) ==
  IF p.pattern THEN fstate_add_binding(f, p.name, p.id, FALSE)
  ELSE [f EXCEPT !.scopes[1].bindings =
          [i \in DOMAIN @ |-> IF @[i].index = p.index THEN [@[i] EXCEPT !.name = p.name]
                              ELSE @[i]]]

BeginBody ==
  /\ InFunction /\ ~Fstate.body
  /\ LET ps == Fstate.params
         named[i \in 0 .. Len(ps)] ==
           IF i = 0 THEN Fstate ELSE NameParam(named[i - 1], ps[Len(ps) + 1 - i])
         names == {p.name : p \in Range(ps)} IN
     /\ fstates' = [fstates EXCEPT ![Len(fstates)] = [named[Len(ps)] EXCEPT !.body = TRUE]]
     /\ env' = [env EXCEPT ![Len(env)] =
                  [n \in names |-> (CHOOSE p \in Range(ps) : p.name = n).id]]
  /\ UNCHANGED <<ids, steps, wrong, twice, reached>>

(* compile_function, after the body: upvalue i of the new closure is bound *)
(* to what its name is in the enclosing function.  What that function does *)
(* not have itself it captures in turn, once more for each closure.        *)
Beyond(g, free) == SelectSeq(free, LAMBDA n : ~HasBinding(g, n))

(* Upvalue i (from 0) of a closure made in g is bound to a variable of g,  *)
(* or to an upvalue of g, of which j counts the closure's own captures     *)
(* beyond g.                                                               *)
BindsUpvalue(g, free, i) == ~HasBinding(g, free[i + 1])
UpvalueBound(g, free, i) == Len(Beyond(g, SubSeq(free, 1, i)))

EndFunction ==
  /\ InFunction /\ Fstate.body /\ Len(Fstate.scopes) = 1
  /\ LET f == Fstate
         rest == Front(fstates)
         g == rest[Len(rest)]
         beyond == Beyond(g, f.free)
         handed == {m \in f.meant : BindsUpvalue(g, f.free, m.i)}
         Local(m) == GetBinding(g, f.free[m.i + 1])
         \* the statement's own declaration
         after(h) == IF f.form = "statement"
                     THEN fstate_add_binding(h, f.name, GetBinding(h, f.name).id, TRUE) ELSE h IN
     IF rest = <<>>
     THEN fstates' = rest /\ UNCHANGED <<wrong, reached>>
     ELSE /\ "through" \in Forms \/ g.free = <<>> \/ beyond = <<>>
          /\ wrong' = (wrong \/ \E m \in f.meant \ handed : Local(m).id # m.id)
          /\ reached' = reached \cup
               UNION {Reached(m.id, Local(m), m.store) : m \in f.meant \ handed}
          /\ fstates' = [rest EXCEPT ![Len(rest)] =
               after([g EXCEPT
                 !.free = @ \o beyond,
                 !.meant = @ \cup {[m EXCEPT !.i = UpvalueBound(g, f.free, @)] : m \in handed}])]
  /\ env' = Front(Front(env))
  /\ UNCHANGED <<ids, steps, twice>>
-----------------------------------------------------------------------------
Init ==
  /\ fstates = <<>> /\ env = <<<<>>>> /\ ids = 0 /\ steps = 0 /\ wrong = FALSE
  /\ twice = {} /\ reached = {}

Next ==
  \/ \E name \in Names : Let(name) \/ \E store \in BOOLEAN : Use(name, store)
  \/ BeginBlock \/ EndBlock
  \/ \E name \in Names, form \in Forms \ {"through", "assigned"} : BeginFunction(form, name)
  \/ \E name \in Names, pattern \in BOOLEAN : Param(name, pattern)
  \/ BeginBody \/ EndFunction

Spec == Init /\ [][Next]_vars
-----------------------------------------------------------------------------
(* Type invariant: the scopes are nested as the program's blocks are.      *)
TypeOK ==
  /\ \A i \in DOMAIN fstates :
       LET f == fstates[i] IN
         /\ \A s \in Range(f.scopes) : s \in Scope
         /\ f.free \in Seq(Names) /\ f.used \subseteq Nat /\ f.num_locals \in Nat /\ f.body \in BOOLEAN
         /\ \A m \in f.meant : m.i \in 0 .. Len(f.free) - 1
  /\ ids \in 0 .. MaxSteps /\ steps \in 0 .. MaxSteps /\ wrong \in BOOLEAN
  /\ twice \subseteq 1 .. ids /\ {u.variable : u \in reached} \subseteq twice

(* README.md, Scoping Rules: the variable a name is compiled to, through    *)
(* however many closures, is the innermost one of that name, and all see   *)
(* the updates made by the others: a slot that is stored to is the one     *)
(* that every other use of the variable reaches.                           *)
ResolvesLexically ==
  /\ ~wrong
  /\ \A u, v \in reached : u.variable = v.variable /\ u.store => u.copy = v.copy

(* The variables of a function that can still be used have slots of their  *)
(* own, and the parameters the first ones, in order: where the caller put  *)
(* the arguments.  ALLOCATE_LOCALS makes room for every slot ever used.    *)
LocalsInPlace ==
  \A i \in DOMAIN fstates :
    LET f == fstates[i]
        bs == AllBindings(f) IN
      /\ \A p \in DOMAIN f.params : f.params[p].index = p - 1
      /\ f.used \subseteq 0 .. f.num_locals - 1
      /\ \A j, k \in DOMAIN bs : bs[j].index = bs[k].index => j = k

(* What function_state keeps of a function is well formed.                 *)
WellFormed == TypeOK /\ LocalsInPlace
=============================================================================
