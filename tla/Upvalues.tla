------------------------------ MODULE Upvalues ------------------------------
(***************************************************************************)
(* Closures: the open upvalues of eval.c and the reference counts of       *)
(* value.c.  A closure refers to a variable through an upvalue, which is   *)
(* open (it names a stack slot) while the variable's frame runs and closed *)
(* (it holds the value) after that frame's RETURN.                         *)
(*                                                                         *)
(* Features says what the compiled program does beyond the plain case:     *)
(*   "reorder"  its functions first capture their locals out of order;     *)
(*   "blocks"   a captured variable's block ends before its function;      *)
(*   "throws"   an error unwinds a frame whose locals are captured;        *)
(*   "drops"    a closure becomes garbage before the variable's frame ends.*)
(*                                                                         *)
(* holder and captured are history variables: they record which variable   *)
(* of the program a slot stands for and which ones a closure closes over.  *)
(***************************************************************************)
EXTENDS Integers, Sequences, FiniteSets, Functions

CONSTANTS
  Vars,       \* the variables of the program, one for each time one is declared
  Values,     \* struct cb_value payloads, null among them
  Null,       \* CB_VALUE_NULL
  Closures,   \* addresses of struct cb_function
  Upvals,     \* addresses of struct cb_upvalue
  MaxFrames,  \* bound on the call depth
  MaxLocals,  \* code->nlocals of every function
  MaxCaptures,\* bound on the number of upvalues of a function
  Features,
  None        \* no variable, no closure, a NULL entry

ASSUME BoundsAssumption ==
  /\ MaxFrames \in Nat /\ MaxLocals \in Nat /\ MaxCaptures \in Nat
  /\ Null \in Values
  /\ None \notin Vars /\ None \notin Closures /\ None \notin Upvals

VARIABLES
  stack,     \* cb_vm_state.stack, the slots of locals only
  frames,    \* the frames of running functions, innermost last
  upvals,    \* the upvalues that are allocated
  open,      \* cb_vm_state.upvalues[0 .. upvalues_idx - 1]
  closures,  \* the functions that are allocated, each with its upvalues
  building,  \* the function whose captures are being bound, or None
  aborted,   \* an assertion has failed
  holder,    \* history: the variable in scope at a slot, or None
  captured   \* history: the variables a closure closes over

vars == <<stack, frames, upvals, open, closures, building, aborted, holder,
          captured>>

Slots == 0 .. MaxFrames * MaxLocals - 1
Frame == [bp : {d * MaxLocals : d \in 0 .. MaxFrames - 1},
          num : 0 .. MaxLocals,  \* how many locals are in scope
          self : Closures \cup {None}]
Upval == [closed : BOOLEAN, idx : Slots, value : Values, refcount : Nat]

Top == frames[Len(frames)]
InFunction == frames # <<>>
Ready == ~aborted /\ building = None

(* cb_load_upvalue                                                         *)
Load(u) == IF upvals[u].closed THEN upvals[u].value ELSE stack[upvals[u].idx]

(* The slots whose variable a closure can name: those of the running frame. *)
InScope == {Top.bp + n : n \in 0 .. Top.num - 1}
IsCaptured(s) == \E i \in DOMAIN open : open[i] # None /\ upvals[open[i]].idx = s

-----------------------------------------------------------------------------
(* Mutant of Call: the depth is tested one frame too late.                 *)
CallTooDeep(self) ==
  /\ Ready /\ Len(frames) <= MaxFrames
  /\ frames' = Append(frames, [bp |-> Len(frames) * MaxLocals, num |-> 0,
                              self |-> self])
  /\ UNCHANGED <<stack, upvals, open, closures, building, aborted, holder, captured>>

(* do_call, and ALLOCATE_LOCALS in the callee.  self is None for a function *)
(* that closes over nothing.                                               *)
Call(self) ==
  /\ Ready /\ Len(frames) < MaxFrames
  /\ LET bp == Len(frames) * MaxLocals IN
       /\ frames' = Append(frames, [bp |-> bp, num |-> 0, self |-> self])
       /\ stack' = [s \in Slots |-> IF s \in bp .. bp + MaxLocals - 1
                                    THEN Null ELSE stack[s]]
  /\ UNCHANGED <<upvals, open, closures, building, aborted, holder, captured>>

(* declare_name in a function: the next slot, stored by STORE_LOCAL.       *)
Declare(x, v) ==
  /\ Ready /\ InFunction /\ Top.num < MaxLocals
  /\ x \notin Range(holder) \cup UNION {Range(captured[c]) : c \in DOMAIN captured}
  /\ stack' = [stack EXCEPT ![Top.bp + Top.num] = v]
  /\ holder' = [holder EXCEPT ![Top.bp + Top.num] = x]
  /\ frames' = [frames EXCEPT ![Len(frames)].num = @ + 1]
  /\ UNCHANGED <<upvals, open, closures, building, aborted, captured>>

StoreLocal(s, v) ==
  /\ Ready /\ InFunction /\ s \in InScope
  /\ stack' = [stack EXCEPT ![s] = v]
  /\ UNCHANGED <<frames, upvals, open, closures, building, aborted, holder,
                 captured>>

(* The end of a block inside a function: scope_pop_child gives the slot    *)
(* back, and no instruction is emitted.                                    *)
EndScope ==
  /\ Ready /\ InFunction /\ Top.num > 0
  /\ LET s == Top.bp + Top.num - 1 IN
       /\ IsCaptured(s) => "blocks" \in Features
       /\ holder' = [holder EXCEPT ![s] = None]
  /\ frames' = [frames EXCEPT ![Len(frames)].num = @ - 1]
  /\ UNCHANGED <<stack, upvals, open, closures, building, aborted, captured>>

-----------------------------------------------------------------------------
(* A capture is a local slot or an upvalue of the running closure.         *)
Captures ==
  [kind : {"local"}, at : InScope]
    \cup (IF Top.self = None THEN {}
          ELSE [kind : {"upvalue"}, at : DOMAIN closures[Top.self]])

(* The captures that are the first of their slot come in the order of the  *)
(* slots, above every slot captured before.                                *)
FirstCaptures(caps) ==
  {i \in DOMAIN caps : caps[i].kind = "local" /\ ~IsCaptured(caps[i].at)}
InOrder(caps) ==
  \A i \in FirstCaptures(caps) :
    /\ \A s \in Slots : IsCaptured(s) => s < caps[i].at
    /\ \A j \in FirstCaptures(caps) : j < i => caps[j].at < caps[i].at

(* LOAD_CONST of a function: cb_function_new, no upvalue bound yet.  The    *)
(* captures that follow are distinct variables; the last guard bounds the  *)
(* upvalues allocated.                                                     *)
LoadFunction(c, caps) ==
  /\ Ready /\ InFunction /\ c \notin DOMAIN closures
  /\ caps # <<>>
  /\ \A i, j \in DOMAIN caps : i # j => caps[i] # caps[j]
  /\ InOrder(caps) \/ "reorder" \in Features
  /\ Len(caps) <= Cardinality(Upvals \ DOMAIN upvals)
  /\ building' = [fn |-> c, todo |-> caps]
  /\ closures' = [d \in DOMAIN closures \cup {c} |->
                    IF d = c THEN <<>> ELSE closures[d]]
  /\ captured' = [d \in DOMAIN captured \cup {c} |->
                    IF d = c THEN <<>> ELSE captured[d]]
  /\ UNCHANGED <<stack, frames, upvals, open, aborted, holder>>

(* The last open upvalue the downward search of BIND_LOCAL (at = idx) and   *)
(* of RETURN (at = bp - 1) does not step over; 0 when it steps over all.    *)
SearchStop(at) ==
  LET stops == {i \in DOMAIN open : open[i] = None \/ upvals[open[i]].idx <= at}
  IN  IF stops = {} THEN 0 ELSE CHOOSE i \in stops : \A j \in stops : j <= i

Abort ==
  /\ aborted' = TRUE
  /\ UNCHANGED <<stack, frames, upvals, open, closures, building, holder, captured>>

(* cb_function_add_upvalue: the closure under construction gets upvalue u,  *)
(* which stands for variable x.                                            *)
AddUpvalue(u, uvs, x) ==
  /\ upvals' = [uvs EXCEPT ![u].refcount = @ + 1]
  /\ closures' = [closures EXCEPT ![building.fn] = Append(@, u)]
  /\ captured' = [captured EXCEPT ![building.fn] = Append(@, x)]
  /\ building' = IF Len(building.todo) = 1 THEN None
                 ELSE [building EXCEPT !.todo = Tail(@)]
  /\ UNCHANGED <<stack, frames, aborted, holder>>

Allocate(u, s) ==
  [w \in DOMAIN upvals \cup {u} |->
     IF w = u THEN [closed |-> FALSE, idx |-> s, value |-> Null, refcount |-> 0]
     ELSE upvals[w]]

(* Mutant of BindLocal: never looks for an upvalue to share.               *)
BindLocalFresh(u, s) ==
  /\ u \notin DOMAIN upvals
  /\ open' = Append(open, u)
  /\ AddUpvalue(u, Allocate(u, s), holder[s])

(* BIND_LOCAL of slot s; u is the address malloc would return.             *)
BindLocal(u, s) ==
  LET i == SearchStop(s) IN
  \/ /\ i # 0 /\ open[i] = None
     /\ Abort
  \/ /\ i # 0 /\ open[i] # None /\ upvals[open[i]].idx = s
     /\ u = open[i]
     /\ AddUpvalue(u, upvals, holder[s])
     /\ UNCHANGED open
  \/ /\ i # 0 => open[i] # None /\ upvals[open[i]].idx # s
     /\ u \notin DOMAIN upvals
     /\ open' = Append(open, u)
     /\ AddUpvalue(u, Allocate(u, s), holder[s])

(* BIND_UPVALUE of the i-th upvalue of the running closure.                *)
BindUpvalue(i) ==
  /\ AddUpvalue(closures[Top.self][i], upvals, captured[Top.self][i])
  /\ UNCHANGED open

Bind ==
  /\ ~aborted /\ building # None
  /\ LET cap == Head(building.todo) IN
       \/ cap.kind = "local" /\ \E u \in Upvals : BindLocal(u, cap.at)
       \/ cap.kind = "upvalue" /\ BindUpvalue(cap.at)

(* STORE_UPVALUE: cb_store_upvalue                                         *)
StoreUpvalue(i, v) ==
  /\ Ready /\ InFunction /\ Top.self # None /\ i \in DOMAIN closures[Top.self]
  /\ LET u == closures[Top.self][i] IN
       IF upvals[u].closed
       THEN upvals' = [upvals EXCEPT ![u].value = v] /\ UNCHANGED stack
       ELSE stack' = [stack EXCEPT ![upvals[u].idx] = v] /\ UNCHANGED upvals
  /\ UNCHANGED <<frames, open, closures, building, aborted, holder, captured>>

-----------------------------------------------------------------------------
(* The locals of the innermost frame go out of scope with it.              *)
LeaveFrame ==
  /\ frames' = SubSeq(frames, 1, Len(frames) - 1)
  /\ holder' = [s \in Slots |-> IF s >= Top.bp THEN None ELSE holder[s]]

(* Mutant of Closing: an upvalue is closed without its value.              *)
ClosingLate(us) ==
  [u \in DOMAIN upvals |->
     IF u \in us THEN [upvals[u] EXCEPT !.closed = TRUE] ELSE upvals[u]]

Closing(us) ==
  [u \in DOMAIN upvals |->
     IF u \in us
     THEN [upvals[u] EXCEPT !.closed = TRUE, !.value = stack[upvals[u].idx]]
     ELSE upvals[u]]

(* RETURN                                                                  *)
Return ==
  /\ Ready /\ InFunction
  /\ LET i == SearchStop(Top.bp - 1) IN
       IF i # 0 /\ open[i] = None
       THEN Abort
       ELSE /\ upvals' = Closing({open[j] : j \in i + 1 .. Len(open)})
            /\ open' = SubSeq(open, 1, i)
            /\ LeaveFrame
            /\ UNCHANGED <<stack, closures, building, aborted, captured>>

(* An error with no handler in the innermost frame: RET_WITH_TRACE, end.   *)
Unwind ==
  /\ Ready /\ InFunction
  /\ (\E s \in Slots : s >= Top.bp /\ IsCaptured(s)) => "throws" \in Features
  /\ LeaveFrame
  /\ UNCHANGED <<stack, upvals, open, closures, building, aborted, captured>>

Uses(c, u) == Cardinality({i \in DOMAIN closures[c] : closures[c][i] = u})

(* cb_function_deinit: one reference less to an upvalue for each use, and  *)
(* those left with none are freed.                                         *)
Release(c) ==
  [u \in {w \in DOMAIN upvals : upvals[w].refcount > Uses(c, w)} |->
     [upvals[u] EXCEPT !.refcount = @ - Uses(c, u)]]

(* The collector finds a function the program no longer refers to.  Every  *)
(* open entry that names one of its upvalues is cleared, shared or not.    *)
Collect(c) ==
  /\ Ready /\ c \in DOMAIN closures
  /\ \A f \in Range(frames) : f.self # c
  /\ (\E u \in Range(closures[c]) : ~upvals[u].closed) => "drops" \in Features
  /\ upvals' = Release(c)
  /\ open' = [i \in DOMAIN open |->
                IF open[i] \in Range(closures[c]) THEN None ELSE open[i]]
  /\ closures' = Restrict(closures, DOMAIN closures \ {c})
  /\ captured' = Restrict(captured, DOMAIN closures \ {c})
  /\ UNCHANGED <<stack, frames, building, aborted, holder>>

-----------------------------------------------------------------------------
Init ==
  /\ stack = [s \in Slots |-> Null]
  /\ holder = [s \in Slots |-> None]
  /\ frames = <<>> /\ open = <<>>
  /\ upvals = <<>> /\ closures = <<>> /\ captured = <<>>
  /\ building = None /\ aborted = FALSE

Next ==
  \/ \E self \in DOMAIN closures \cup {None} : Call(self)
  \/ \E x \in Vars, v \in Values : Declare(x, v)
  \/ \E s \in Slots, v \in Values : StoreLocal(s, v)
  \/ EndScope
  \/ InFunction /\ \E c \in Closures, n \in 1 .. MaxCaptures :
       \E caps \in [1 .. n -> Captures] : LoadFunction(c, caps)
  \/ Bind
  \/ \E i \in 1 .. MaxCaptures, v \in Values : StoreUpvalue(i, v)
  \/ Return
  \/ Unwind
  \/ \E c \in Closures : Collect(c)

Spec == Init /\ [][Next]_vars

-----------------------------------------------------------------------------
(* Type invariant of the state of eval.c, value.c and of the history.      *)
TypeOK ==
  /\ stack \in [Slots -> Values]
  /\ holder \in [Slots -> Vars \cup {None}]
  /\ frames \in Seq(Frame) /\ Len(frames) <= MaxFrames
  /\ DOMAIN upvals \subseteq Upvals
  /\ \A u \in DOMAIN upvals : upvals[u] \in Upval
  /\ open \in Seq(Upvals \cup {None})
  /\ DOMAIN closures \subseteq Closures
  /\ \A c \in DOMAIN closures : closures[c] \in Seq(Upvals)
  /\ DOMAIN captured = DOMAIN closures
  /\ \A c \in DOMAIN captured : captured[c] \in Seq(Vars \cup {None})
  /\ aborted \in BOOLEAN
  /\ building # None => building.fn \in DOMAIN closures

(* One capture of a variable by a closure: the variable, its upvalue.      *)
Cells == UNION {{[var |-> captured[c][i], upval |-> closures[c][i]] :
                   i \in DOMAIN closures[c]} : c \in DOMAIN closures}
Held == {s \in Slots : holder[s] # None}

(* An upvalue is freed exactly when its last closure is: its count is the  *)
(* number of captures that use it, so no closure, running or not, and no   *)
(* entry of the open array is left with a freed one.                       *)
RefcountExact ==
  \A u \in Upvals :
    LET n == Cardinality({r \in (DOMAIN closures) \X (1 .. MaxCaptures) :
               r[2] \in DOMAIN closures[r[1]] /\ closures[r[1]][r[2]] = u})
    IN  IF u \in DOMAIN upvals THEN n = upvals[u].refcount /\ n > 0 ELSE n = 0

(* assert(uv) in RETURN and BIND_LOCAL: the search of the open array never *)
(* meets the NULL that cb_function_deinit leaves there.                    *)
NeverAborts == ~aborted

(* README.md 234: functions that close over one variable see each other's  *)
(* updates, and so does the scope that declares it.                        *)
UpdatesShared ==
  \A p \in Cells :
    /\ \A q \in Cells : q.var = p.var => Load(q.upval) = Load(p.upval)
    /\ \A s \in Held : holder[s] = p.var => Load(p.upval) = stack[s]

(* README.md 224: variables are lexically scoped.  Two variables are never *)
(* one place: no upvalue stands for two of them, and an open one does not  *)
(* name a slot that now is some other variable.                            *)
VariablesSeparate ==
  \A p \in Cells :
    /\ \A q \in Cells : q.upval = p.upval => q.var = p.var
    /\ ~upvals[p.upval].closed =>
         holder[upvals[p.upval].idx] \in {None, p.var}

(* Closures are sound: a variable is one place, seen by all who close over *)
(* it and by no one else, that lives as long as they do.                   *)
ClosuresSound == UpdatesShared /\ VariablesSeparate /\ RefcountExact /\ NeverAborts

(* The variables that exist and what they hold.                            *)
Existing == {holder[s] : s \in Held} \cup {p.var : p \in Cells}
ValueOf(x) ==
  IF \E s \in Held : holder[s] = x
  THEN stack[CHOOSE s \in Held : holder[s] = x]
  ELSE Load((CHOOSE p \in Cells : p.var = x).upval)
ValueOfVars == [x \in Existing |-> ValueOf(x)]

Promise == INSTANCE LexicalScope WITH value <- ValueOfVars

(* Stack, upvalues and closures implement the scoping rules of README.md.  *)
ImplementsLexicalScope == Promise!Spec
=============================================================================
