------------------------------- MODULE Calls --------------------------------
(***************************************************************************)
(* Calls and errors in eval.c: one array of slots holds the arguments,     *)
(* locals and operands of every function that runs, each frame from its    *)
(* base pointer up to its stack pointer.  What a slot above the innermost   *)
(* stack pointer still holds is not modelled: it is read as Junk.          *)
(*                                                                         *)
(* The running code is any code the compiler could have made: the guards   *)
(* of the instructions are what it sees to (Statements and Expressions are *)
(* about that).  tries counts the entries of a frame's try_stack.  Two     *)
(* fields of a frame are history: open, the slots of the methods whose     *)
(* arguments it is computing; left, the end of what caught errors left on  *)
(* the stack, which nothing takes off until the frame ends.                *)
(***************************************************************************)
EXTENDS Integers, Sequences, FiniteSets, SequencesExt

CONSTANTS
  Code,        \* of each function, [kind, params, required, locals, operands]
  Elements,    \* of each array, the sequence of its elements
  BoundTo,     \* of each bound method, [method, receiver]
  MethodOf,    \* of each struct, its method
  Data,        \* the values a program passes, stores and throws
  Error,       \* the value of an error that the machine raises
  Junk,        \* memory that was not written
  Null,        \* CB_VALUE_NULL
  EvalLimit,   \* 1000 in cb_eval
  MaxOperands, \* bound on the operands of a script
  MaxArgs,     \* bound on the arguments of a call
  MaxTry,      \* bound on the try statements of a function, one in another
  MaxLeft,     \* bound on what caught errors left where a try begins
  None

ASSUME BoundsAssumption ==
  EvalLimit \in Nat /\ MaxOperands \in Nat /\ MaxArgs \in Nat /\ MaxTry \in Nat
    /\ MaxLeft \in Nat /\ Null \in Data

Methods == {MethodOf[o] : o \in DOMAIN MethodOf}
Constants == Data \cup (DOMAIN Code \ Methods) \cup DOMAIN Elements \cup DOMAIN BoundTo
Values == Constants \cup {Error} \cup Methods
Errors == [value : Values, tb : Seq(Values \cup {Junk, None})]

(* A method of a struct is a function that is reached through the struct.   *)
ASSUME ConstantsAssumption ==
  /\ \A f \in DOMAIN Code :
       /\ Code[f].kind \in {"user", "native", "apply"}
       /\ Code[f].params \in Nat /\ Code[f].locals \in Nat /\ Code[f].operands \in Nat
       /\ Code[f].required \in 0 .. Code[f].params
       /\ Code[f].kind = "apply" => Code[f].required = 2
  /\ \A a \in DOMAIN Elements : Elements[a] \in Seq(Constants)
  /\ \A b \in DOMAIN BoundTo :
       /\ Code[BoundTo[b].method].kind = "user"
       /\ BoundTo[b].receiver \in Constants \cap DOMAIN MethodOf
       /\ MethodOf[BoundTo[b].receiver] = BoundTo[b].method
  /\ Methods \subseteq DOMAIN Code
  /\ Methods \cap (Data \cup DOMAIN Elements \cup DOMAIN BoundTo \cup {Error, Junk}) = {}
  /\ None \notin Values /\ None \notin Errors

VARIABLES
  stack,      \* cb_vm_state.stack, up to the innermost stack pointer
  frames,     \* the chain of struct cb_frame, innermost last
  error,      \* cb_vm_state.error: [value, tb], or None
  eval_depth  \* the cb_eval calls that have not ended

vars == <<stack, frames, error, eval_depth>>

Min2(a, b) == IF a < b THEN a ELSE b
Max2(a, b) == IF a > b THEN a ELSE b

Slot(i) == stack[i + 1]
Write(s, i, v) == [s EXCEPT ![i + 1] = v]
Cut(s, sp) == SubSeq(s, 1, sp)
Slots(s, i, j) == SubSeq(s, i + 1, j)  \* slots i .. j - 1

(* num_locals and the operands: what create_code counts.                   *)
Operands(fn) == IF fn = None THEN MaxOperands ELSE Code[fn].operands
StackSize(fn) == (IF fn = None THEN 0 ELSE Code[fn].params + Code[fn].locals)
                   + Operands(fn)

(* Mutant of Ensure: the slots in use are not counted.                     *)
EnsureFromZero(needed, sp) == needed

(* ensure_stack: stack_size is this much from now on, or more.             *)
Ensure(needed, sp) == sp + needed

(* phase counts the parameters that need no default any more; body is set   *)
(* by ALLOCATE_LOCALS; num counts the variables that have a value; room is *)
(* what ensure_stack made of stack_size.                                   *)
Frame(kind, fn, bp, n, room) ==
  [kind |-> kind, fn |-> fn, bp |-> bp, num_args |-> n, room |-> room,
   sp |-> bp + (IF kind = "script" THEN 0 ELSE 1) + n,
   body |-> kind = "script",
   phase |-> IF kind = "user" THEN Code[fn].required ELSE 0,
   num |-> IF kind = "user" THEN Code[fn].params ELSE 0,
   tries |-> 0, open |-> <<>>, left |-> 0]

Init ==
  /\ stack = <<>>
  /\ frames = <<Frame("script", None, 0, 0, StackSize(None))>>
  /\ error = None /\ eval_depth = 1
-----------------------------------------------------------------------------
Top == Last(frames)
Running == frames # <<>> /\ error = None
InBody == Running /\ Top.body

(* Where the operands of a frame begin.                                    *)
Base(f) ==
  IF f.kind = "script" THEN f.bp
  ELSE f.bp + 1 + (IF f.body THEN Max2(f.num_args, Code[f.fn].params) + Code[f.fn].locals
                   ELSE Max2(f.num_args, f.phase))
(* Where the operands of a statement begin: above what caught errors left. *)
Low(f) == Max2(Base(f), f.left)
Floor(f) == Max2(Low(f), IF f.open = <<>> THEN 0 ELSE Last(f.open) + 1)

(* An expression is computed: in the body, or for a default.               *)
Computing ==
  /\ Running
  /\ ~Top.body => Top.num_args <= Top.phase /\ Top.phase < Code[Top.fn].params
(* Between two statements only what failed calls left is on the stack.     *)
Statement == InBody /\ Top.sp = Floor(Top) /\ Top.open = <<>>
(* The compiler, which knows nothing of what is left, has counted n more.  *)
HasRoom(n) == Top.sp - Low(Top) + n <= Operands(Top.fn)
Holds(n) == Top.sp - Floor(Top) >= n
Operand == Slot(Top.sp - 1)
HasData == Holds(1) /\ Operand \in Data \cup {Error}

Moves(f, s) ==
  /\ frames' = Append(Front(frames), f) /\ stack' = Cut(s, f.sp)
  /\ UNCHANGED <<error, eval_depth>>
PushValue(v) == Moves([Top EXCEPT !.sp = @ + 1], Append(stack, v))

(* Bound: functions and arrays are only called, or passed to apply; what   *)
(* is stored, returned or thrown is other data.                            *)
Push(v) ==
  /\ Computing /\ HasRoom(1)
  /\ \/ v \in Data
     \/ v \notin DOMAIN Elements /\ ~Holds(2)
     \/ v \notin DOMAIN BoundTo /\ Holds(1) /\ Operand = "apply"
     \/ v \in DOMAIN Elements /\ Holds(2) /\ Slot(Top.sp - 2) = "apply"
  /\ PushValue(v)

Pop == InBody /\ Holds(1) /\ Moves([Top EXCEPT !.sp = @ - 1], stack)

LoadLocal ==
  /\ InBody /\ HasRoom(1)
  /\ \E i \in 0 .. Top.num - 1 : PushValue(Slot(Top.bp + 1 + i))

(* A variable is stored to before it is loaded: num counts those that were. *)
StoreLocal ==
  /\ InBody /\ Top.kind = "user" /\ HasData
  /\ \E i \in 0 .. Min2(Top.num, Code[Top.fn].params + Code[Top.fn].locals - 1) :
       Moves([Top EXCEPT !.num = Max2(@, i + 1)], Write(stack, Top.bp + 1 + i, Operand))

LoadThis ==
  /\ InBody /\ HasRoom(1)
  /\ Top.fn \in Methods
  /\ PushValue(Slot(Top.bp - 1))

(* APPLY_DEFAULT_ARG: an argument that was passed jumps over its default;  *)
(* the default is left where the variable is.                              *)
ApplyDefaultArg ==
  /\ Running /\ ~Top.body /\ Top.phase < Code[Top.fn].params
  /\ Top.num_args <= Top.phase => Top.sp = Base(Top) + 1 /\ HasData
  /\ Moves([Top EXCEPT !.phase = @ + 1], stack)

AllocateLocals ==
  /\ Running /\ ~Top.body /\ Top.phase = Code[Top.fn].params
  /\ LET n == Code[Top.fn].locals IN
       Moves([Top EXCEPT !.body = TRUE, !.sp = @ + n],
             stack \o [i \in 1 .. n |-> Null])
-----------------------------------------------------------------------------
(* cb_traceback_add_frame: the function is read from its slot.             *)
Traced(f, s, e) ==
  [e EXCEPT !.tb = <<IF f.kind = "script" THEN None ELSE s[f.bp + 1]>> \o @]

(* RET_WITH_TRACE in the innermost of the frames fs: to the handler, where *)
(* CATCH pushes the error and cb_error_recover forgets it, or to the end.  *)
(* The stack pointer stays where it is: the operands there were, which     *)
(* nothing reads any more (Junk), stay below the error.                    *)
RetWithTrace(fs, s, e) ==
  LET f == Last(fs) IN
  IF f.tries = 0
  THEN frames' = fs /\ stack' = Cut(s, f.sp) /\ error' = Traced(f, s, e)
  ELSE /\ frames' = Append(Front(fs),
                           [f EXCEPT !.sp = @ + 1, !.tries = @ - 1,
                                     !.open = <<>>, !.left = f.sp])
       /\ stack' = [i \in 1 .. f.sp |-> IF i <= Base(f) THEN s[i] ELSE Junk]
                     \o <<e.value>>
       /\ error' = None

(* cb_error_set                                                            *)
Raised(v) == [value |-> v, tb |-> <<>>]

(* A call that fails before a frame is made, with the callee's slot and    *)
(* arguments still there.                                                  *)
Refuse ==
  RetWithTrace(frames, stack, Raised(Error)) /\ UNCHANGED eval_depth

(* create_code has counted the error that CATCH pushes (HasRoom).          *)
PushTry ==
  /\ Statement /\ HasRoom(1)
  /\ Top.tries < MaxTry /\ Low(Top) - Base(Top) <= MaxLeft
  /\ Moves([Top EXCEPT !.tries = @ + 1], stack)

PopTry ==
  /\ Statement /\ Top.tries > 0
  /\ Moves([Top EXCEPT !.tries = @ - 1], stack)

Throw ==
  /\ InBody /\ HasData
  /\ RetWithTrace(Append(Front(frames), [Top EXCEPT !.sp = @ - 1]), stack,
                  Raised(Operand))
  /\ UNCHANGED eval_depth
-----------------------------------------------------------------------------
(* cb_eval begins in frame f, above the frames fs, on the stack s.         *)
Eval(fs, f, s) ==
  /\ eval_depth' = eval_depth + 1
  /\ IF eval_depth + 1 < EvalLimit
     THEN frames' = Append(fs, f) /\ stack' = s /\ UNCHANGED error
     ELSE RetWithTrace(Append(fs, f), s, Raised(Error))

(* The slot of the callee when n arguments are on the stack.               *)
Dest(n) == Top.sp - n - 1
Args(n) == Slots(stack, Top.sp - n, Top.sp)

(* do_call of a user function                                              *)
CallUser(fn, n) ==
  Eval(frames, Frame("user", fn, Dest(n), n, Ensure(StackSize(fn), Top.sp)), stack)

(* Mutant of Answered: CALL_METHOD leaves its receiver.                     *)
AnsweredAbove(f, dest, v, s) ==
  <<[f EXCEPT !.sp = dest + 1, !.open = SelectSeq(@, LAMBDA o : o # dest)],
    Write(s, dest, v)>>

(* do_call takes the callee and its arguments off and leaves the result.   *)
(* After CALL_METHOD the result replaces the receiver.                     *)
Answered(f, dest, v, s) ==
  IF f.open # <<>> /\ Last(f.open) = dest
  THEN <<[f EXCEPT !.sp = dest, !.open = Front(@)], Write(s, dest - 1, v)>>
  ELSE <<[f EXCEPT !.sp = dest + 1], Write(s, dest, v)>>

(* A native function; when it fails its result need not have been set.     *)
NativeFails(n) ==
  /\ RetWithTrace(Append(Front(frames), [Top EXCEPT !.sp = Dest(n) + 1]),
                  Write(stack, Dest(n), Junk), Raised(Error))
  /\ UNCHANGED eval_depth

CallNative(n) ==
  \/ \E v \in Data : LET r == Answered(Top, Dest(n), v, stack) IN Moves(r[1], r[2])
  \/ NativeFails(n)

(* apply, and cb_vm_call, which copies the function and its arguments to   *)
(* the caller's stack pointer.  Bound methods are left out: method_caller   *)
(* would look for its upvalues in apply, which has none.  apply of apply    *)
(* calls nothing here.                                                     *)
Apply(n) ==
  LET g == Args(n)[1]
      arr == Args(n)[2]
  IN  IF \/ g \notin DOMAIN Code \/ arr \notin DOMAIN Elements
         \/ Len(Elements[arr]) < Code[g].required
      THEN NativeFails(n)
      ELSE IF Code[g].kind # "user" THEN CallNative(n)
      ELSE LET k == Len(Elements[arr]) IN
           Eval(Append(frames, Frame("native", "apply", Dest(n), n, Top.room)),
                Frame("user", g, Top.sp, k, Ensure(StackSize(g) + k + 1, Top.sp)),
                stack \o <<g>> \o Elements[arr])

(* method_caller, the native function of a bound method: receiver and      *)
(* method take the slots of the bound method and its first argument.  The  *)
(* memmove that should make room for them moves the arguments the other    *)
(* way, argc bytes of them only: part of the slot that is overwritten next. *)
CallBound(b, n) ==
  LET m == BoundTo[b].method
      s == Append(stack, Junk)
  IN  Eval(Append(frames, Frame("native", b, Dest(n), n, Top.room)),
           Frame("user", m, Dest(n) + 1, n, Ensure(StackSize(m) + 1, Top.sp)),
           Write(Write(s, Dest(n), BoundTo[b].receiver), Dest(n) + 1, m))

(* do_call                                                                 *)
DoCall(n) ==
  LET fn == Slot(Dest(n)) IN
  IF fn \in DOMAIN BoundTo
  THEN IF n < Code[BoundTo[fn].method].required THEN Refuse ELSE CallBound(fn, n)
  ELSE IF fn \notin DOMAIN Code \/ n < Code[fn].required THEN Refuse
  ELSE CASE Code[fn].kind = "user" -> CallUser(fn, n)
         [] Code[fn].kind = "native" -> CallNative(n)
         [] Code[fn].kind = "apply" -> Apply(n)

Call(n) == Computing /\ Holds(n + 1) /\ DoCall(n)

LoadMethod ==
  /\ Computing /\ HasRoom(1) /\ Holds(1)
  /\ IF Operand \in DOMAIN MethodOf
     THEN Moves([Top EXCEPT !.sp = @ + 1, !.open = Append(@, Top.sp)],
                Append(stack, MethodOf[Operand]))
     ELSE Refuse

CallMethod(n) ==
  /\ Computing /\ Top.open # <<>> /\ Last(Top.open) = Dest(n)
  /\ DoCall(n)
-----------------------------------------------------------------------------
(* The innermost frame ends, with the native frame that called it, if any. *)
Below == Front(frames)
Native == Below # <<>> /\ Last(Below).kind = "native"
Callers == IF Native THEN Front(Below) ELSE Below
CallerDest == IF Native THEN Last(Below).bp ELSE Top.bp

(* Mutant of Leave: the depth is not counted down.                         *)
LeaveDeep == eval_depth' = eval_depth

Leave == eval_depth' = eval_depth - 1

(* RETURN: the result takes the slot of the function, from which a native  *)
(* function copies it to its own.                                          *)
Return ==
  /\ InBody /\ Top.kind = "user" /\ HasData /\ Leave
  /\ LET r == Answered(Last(Callers), CallerDest, Operand,
                       Write(stack, Top.bp, Operand))
     IN  frames' = Append(Front(Callers), r[1]) /\ stack' = Cut(r[2], r[1].sp)
  /\ UNCHANGED error

(* IMPORT_MODULE of a module that was not evaluated, and HALT              *)
ImportModule ==
  /\ Statement
  /\ Eval(frames, Frame("script", None, Top.sp, 0, Ensure(StackSize(None), Top.sp)),
          stack)
Halt ==
  /\ Statement /\ Top.kind = "script" /\ Top.tries = 0 /\ Leave
  /\ frames' = Below /\ stack' = Cut(stack, Top.bp)
  /\ UNCHANGED error

(* The end of cb_eval with an error: the caller's handler, or the caller   *)
(* ends as well.  The last one prints the traceback and recovers.          *)
Unwind ==
  /\ error # None /\ Leave
  /\ IF Callers = <<>>
     THEN frames' = <<>> /\ stack' = <<>> /\ error' = None
     ELSE LET sp == IF Top.kind = "script" THEN Top.bp ELSE CallerDest + 1 IN
          RetWithTrace(Append(Front(Callers), [Last(Callers) EXCEPT !.sp = sp]),
                       IF Native THEN Write(stack, CallerDest, Slot(Top.bp)) ELSE stack,
                       error)

Ended == frames = <<>> /\ UNCHANGED vars

Next ==
  \/ \E v \in Constants : Push(v)
  \/ \E n \in 0 .. MaxArgs : Call(n) \/ CallMethod(n)
  \/ Pop \/ LoadLocal \/ StoreLocal \/ LoadThis \/ LoadMethod
  \/ ApplyDefaultArg \/ AllocateLocals
  \/ PushTry \/ PopTry \/ Throw \/ Return \/ ImportModule \/ Halt \/ Unwind
  \/ Ended

Spec == Init /\ [][Next]_vars
-----------------------------------------------------------------------------
Evaluators(fs) == {d \in DOMAIN fs : fs[d].kind # "native"}

TypeOK ==
  /\ stack \in Seq(Values \cup {Junk})
  /\ frames # <<>> => Len(stack) = Top.sp
  /\ \A d \in DOMAIN frames : LET f == frames[d] IN
       /\ f.kind \in {"script", "user", "native"}
       /\ f.bp <= f.sp
       /\ d > 1 => frames[d - 1].bp <= f.bp
  /\ error # None => error.value \in Values /\ error.tb # <<>>
  /\ eval_depth = Cardinality(Evaluators(frames))

(* eval.c 107, and do_call, cb_vm_call, method_caller, cb_run and           *)
(* IMPORT_MODULE: code that is evaluated stays in the room that            *)
(* ensure_stack made for it, but for as many slots as caught errors have   *)
(* left in its frame.                                                      *)
RoomSuffices ==
  \A d \in Evaluators(frames) : LET f == frames[d] IN
    f.sp <= f.room + (Low(f) - Base(f))

(* compiler.c 1097: stack_size is "the maximum stack size this code         *)
(* fragment requires", so no push goes beyond all the room that was made.  *)
StackSizeSuffices ==
  frames # <<>> => \E d \in Evaluators(frames) : Top.sp <= frames[d].room

(* tests/test_methods.cb, README.md (Functions): the parameters of a       *)
(* function are the arguments it is called with, also when it is called as *)
(* a bound method.                                                         *)
Passes(n) ==
  Len(frames') > Len(frames) /\ Slot(Dest(n)) # "apply" =>
    LET f == Last(frames') IN
    \A i \in 1 .. Min2(n, Code[f.fn].params) : stack'[f.bp + 1 + i] = Args(n)[i]
ArgumentsArrive ==
  [][\A n \in 0 .. MaxArgs : Call(n) \/ CallMethod(n) => Passes(n)]_vars

(* The frames of the array of slots are separate activations: see          *)
(* Activations.  The frames of native functions are left out.              *)
EvaluatorAt(fs, i) ==
  CHOOSE d \in i .. Len(fs) :
    fs[d].kind # "native" /\ d = i + Cardinality({c \in 1 .. d : fs[c].kind = "native"})

(* The operands of a caller end below the slots of the call.               *)
End(f, callee) ==
  IF callee.kind # "script" /\ f.open # <<>> /\ Last(f.open) = callee.bp
  THEN callee.bp - 1 ELSE callee.bp
EndOf(fs, e, d) ==
  IF d < Len(fs) THEN End(fs[d], fs[d + 1])
  ELSE IF e = None THEN fs[d].sp ELSE Base(fs[d])

Variables(f) ==
  IF f.body THEN f.num ELSE Min2(Max2(f.num_args, f.phase), Code[f.fn].params)
ActivationOf(f, s, end) ==
  [fn |-> f.fn,
   vars |-> Slots(s, f.bp + 1, f.bp + 1 + Variables(f)),
   operands |-> Slots(s, Base(f), end),
   this |-> IF f.fn \in Methods THEN s[f.bp] ELSE None,
   tries |-> f.tries]
ActsOf(fs, s, e) ==
  [i \in 1 .. Cardinality(Evaluators(fs)) |->
     LET d == EvaluatorAt(fs, i) IN ActivationOf(fs[d], s, EndOf(fs, e, d))]

Abstract == INSTANCE Activations WITH
  acts <- ActsOf(frames, stack, error),
  error <- IF error = None THEN None ELSE error.value,
  trace <- IF error = None THEN <<>> ELSE error.tb,
  Limit <- EvalLimit
ImplementsActivations == Abstract!Spec
=============================================================================
