----------------------------- MODULE Statements -----------------------------
(***************************************************************************)
(* The statements of one function, from compiler.c's single pass over them *)
(* to cb_eval's execution of the code: loops, break, continue, return,     *)
(* throw, try and catch.  Every program of up to MaxSteps parsing steps is *)
(* compiled (one action per statement, or per end of a block), then run.   *)
(* An expression is a call: a function is pushed, and the call puts its    *)
(* result in that place or fails.                                          *)
(***************************************************************************)
EXTENDS Bytecode, FiniteSets

CONSTANTS
  MaxSteps,    \* bound on the length of the program
  MaxOperands  \* bound on the operands left behind before a call may fail

ASSUME StepsAssumption == MaxSteps \in Nat /\ MaxOperands \in Nat

VARIABLES
  bc,         \* struct cb_bytecode
  blocks,     \* the statements being parsed, innermost last
  loops,      \* the chain of loop_state, innermost last
  try_depth, max_try_depth,  \* of struct cstate
  handlers,   \* history: the catch labels of the try blocks being parsed
  starts,     \* history: where statements start, with the handlers around them
  steps,      \* parsing steps so far
  ip, sp,     \* cb_eval's ip; its sp, as a height above the locals
  try_stack,  \* cb_eval's try_stack
  leaked,     \* history: the operands under which the last handler started
  status      \* "compiling", "running", "returned" or "failed"

compiler == <<bc, blocks, loops, try_depth, max_try_depth, handlers, starts, steps>>
machine == <<ip, sp, try_stack, leaked, status>>
vars == <<compiler, machine>>

Block == [kind : {"while", "for", "if", "else", "try", "catch"},
          first : Nat, last : Nat]
Innermost == blocks[Len(blocks)]
Loop == loops[Len(loops)]
Pop(s) == SubSeq(s, 1, Len(s) - 1)
LastLabel == Len(bc.labels)

Parsing == status = "compiling" /\ steps < MaxSteps
Inside(kind) == Parsing /\ blocks # <<>> /\ Innermost.kind = kind

-----------------------------------------------------------------------------
(* compile_expression: a call.                                             *)
Expression(b) == Emit(Emit(b, "PUSH"), "CALL")

(* Where a statement starts, the handlers it runs under.                   *)
StatementHere ==
  starts' = starts \cup {[address |-> Len(bc.code), handlers |-> handlers]}

Open(block) == blocks' = Append(blocks, block)

ExpressionStatement ==
  /\ Parsing /\ StatementHere
  /\ bc' = Emit(Expression(bc), "POP")
  /\ steps' = steps + 1
  /\ UNCHANGED <<blocks, loops, try_depth, max_try_depth, handlers, machine>>

ThrowStatement ==
  /\ Parsing /\ StatementHere
  /\ bc' = Emit(Expression(bc), "THROW")
  /\ steps' = steps + 1
  /\ UNCHANGED <<blocks, loops, try_depth, max_try_depth, handlers, machine>>

ReturnStatement ==
  /\ Parsing /\ StatementHere
  /\ bc' = Emit(Emit(bc, "PUSH"), "RETURN")
  /\ steps' = steps + 1
  /\ UNCHANGED <<blocks, loops, try_depth, max_try_depth, handlers, machine>>

(* One POP_TRY for each try block between here and the loop.               *)
PopTries(b, n) ==
  [b EXCEPT !.code = @ \o [i \in 1 .. n |->
                             [op |-> "POP_TRY", arg |-> 0, label |-> NoLabel]]]

(* Mutant of BreakStatement: the try blocks it leaves stay in force.       *)
BreakKeepsTries ==
  /\ Parsing /\ loops # <<>> /\ StatementHere
  /\ bc' = EmitJump(bc, "JUMP", Loop.break_label)
  /\ steps' = steps + 1
  /\ UNCHANGED <<blocks, loops, try_depth, max_try_depth, handlers, machine>>

BreakStatement ==
  /\ Parsing /\ loops # <<>> /\ StatementHere
  /\ bc' = EmitJump(PopTries(bc, Loop.try_depth), "JUMP", Loop.break_label)
  /\ steps' = steps + 1
  /\ UNCHANGED <<blocks, loops, try_depth, max_try_depth, handlers, machine>>

ContinueStatement ==
  /\ Parsing /\ loops # <<>> /\ StatementHere
  /\ bc' = EmitJump(PopTries(bc, Loop.try_depth), "JUMP", Loop.continue_label)
  /\ steps' = steps + 1
  /\ UNCHANGED <<blocks, loops, try_depth, max_try_depth, handlers, machine>>

-----------------------------------------------------------------------------
EnterLoop(kind, continue, break) ==
  /\ Open([kind |-> kind, first |-> continue, last |-> break])
  /\ loops' = Append(loops, [continue_label |-> continue, break_label |-> break,
                             try_depth |-> 0])
  /\ steps' = steps + 1
  /\ UNCHANGED <<try_depth, max_try_depth, handlers, machine>>

WhileStatement ==
  LET start == LastLabel + 1  end == LastLabel + 2 IN
  /\ Parsing /\ StatementHere
  /\ bc' = EmitJump(Expression(Mark(NewLabel(NewLabel(bc)), start)),
                    "JUMP_IF_FALSE", end)
  /\ EnterLoop("while", start, end)

(* The initializer, the predicate and the increment, which come before the *)
(* body, are all there or all left out: for (;;).                          *)
ForStatement == \E bare \in BOOLEAN :
  LET start == LastLabel + 1      end == LastLabel + 2
      increment == LastLabel + 3  body == LastLabel + 4
      Evaluated(b) == IF bare THEN b ELSE Emit(Expression(b), "POP")
      Tested(b) == IF bare THEN b ELSE EmitJump(Expression(b), "JUMP_IF_FALSE", end)
      init == Evaluated(NewLabel(NewLabel(NewLabel(NewLabel(bc)))))
      test == EmitJump(Tested(Mark(init, start)), "JUMP", body)
      step == EmitJump(Evaluated(Mark(test, increment)), "JUMP", start)
  IN
  /\ Parsing /\ StatementHere
  /\ bc' = Mark(step, body)
  /\ EnterLoop("for", increment, end)

EndLoop ==
  /\ Inside("while") \/ Inside("for")
  /\ bc' = Mark(EmitJump(bc, "JUMP", Innermost.first), Innermost.last)
  /\ blocks' = Pop(blocks) /\ loops' = Pop(loops)
  /\ steps' = steps + 1
  /\ UNCHANGED <<try_depth, max_try_depth, handlers, starts, machine>>

IfStatement ==
  LET else == LastLabel + 1  end == LastLabel + 2 IN
  /\ Parsing /\ StatementHere
  /\ bc' = EmitJump(Expression(NewLabel(NewLabel(bc))), "JUMP_IF_FALSE", else)
  /\ Open([kind |-> "if", first |-> else, last |-> end])
  /\ steps' = steps + 1
  /\ UNCHANGED <<loops, try_depth, max_try_depth, handlers, machine>>

(* The end of the first branch, with an else branch or without.            *)
EndIf ==
  /\ Inside("if")
  /\ LET b == Mark(EmitJump(bc, "JUMP", Innermost.last), Innermost.first) IN
       \/ bc' = Mark(b, Innermost.last) /\ blocks' = Pop(blocks)
       \/ bc' = b /\ blocks' = [blocks EXCEPT ![Len(blocks)].kind = "else"]
  /\ steps' = steps + 1
  /\ UNCHANGED <<loops, try_depth, max_try_depth, handlers, starts, machine>>

EndElse ==
  /\ Inside("else")
  /\ bc' = Mark(bc, Innermost.last)
  /\ blocks' = Pop(blocks)
  /\ steps' = steps + 1
  /\ UNCHANGED <<loops, try_depth, max_try_depth, handlers, starts, machine>>

AddToLoop(n) ==
  loops' = IF loops = <<>> THEN loops
           ELSE [loops EXCEPT ![Len(loops)].try_depth = @ + n]

TryStatement ==
  LET catch == LastLabel + 1  end == LastLabel + 2 IN
  /\ Parsing /\ StatementHere
  /\ bc' = EmitJump(NewLabel(NewLabel(bc)), "PUSH_TRY", catch)
  /\ try_depth' = try_depth + 1
  /\ max_try_depth' = IF try_depth' > max_try_depth THEN try_depth' ELSE max_try_depth
  /\ AddToLoop(1)
  /\ handlers' = Append(handlers, catch)
  /\ Open([kind |-> "try", first |-> catch, last |-> end])
  /\ steps' = steps + 1
  /\ UNCHANGED machine

(* The end of the try block and the head of its catch block.               *)
EndTry ==
  /\ Inside("try")
  /\ bc' = Emit(Emit(Mark(EmitJump(Emit(bc, "POP_TRY"), "JUMP", Innermost.last),
                          Innermost.first),
                     "CATCH"), "POP")
  /\ try_depth' = try_depth - 1
  /\ AddToLoop(-1)
  /\ handlers' = Pop(handlers)
  /\ blocks' = [blocks EXCEPT ![Len(blocks)].kind = "catch"]
  /\ steps' = steps + 1
  /\ UNCHANGED <<max_try_depth, starts, machine>>

EndCatch ==
  /\ Inside("catch")
  /\ bc' = Mark(bc, Innermost.last)
  /\ blocks' = Pop(blocks)
  /\ steps' = steps + 1
  /\ UNCHANGED <<loops, try_depth, max_try_depth, handlers, starts, machine>>

(* The end of the function: CONST_NULL, RETURN, and create_code.            *)
EndFunction ==
  /\ status = "compiling" /\ blocks = <<>>
  /\ StatementHere
  /\ bc' = Emit(Emit(bc, "PUSH"), "RETURN")
  /\ status' = "running"
  /\ UNCHANGED <<blocks, loops, try_depth, max_try_depth, handlers, steps,
                 ip, sp, try_stack, leaked>>

-----------------------------------------------------------------------------
(* cb_opcode_stack_effect                                                  *)
StackEffect(op) ==
  CASE op \in {"PUSH", "CATCH", "JUMP"} -> 1
    [] op \in {"POP", "THROW", "RETURN", "JUMP_IF_FALSE"} -> -1
    [] op \in {"CALL", "PUSH_TRY", "POP_TRY"} -> 0

(* create_code: the running sum over the code as it is laid out, and its    *)
(* maximum.                                                                *)
RunningEffect ==
  LET sum[n \in 0 .. Len(bc.code)] ==
        IF n = 0 THEN 0 ELSE sum[n - 1] + StackEffect(bc.code[n].op)
  IN  sum
stack_size ==
  CHOOSE m \in 0 .. Len(bc.code) :
    /\ \E n \in 0 .. Len(bc.code) : RunningEffect[n] = m
    /\ \A n \in 0 .. Len(bc.code) : RunningEffect[n] <= m

Instr == bc.code[ip + 1]
Executes(op) == status = "running" /\ Instr.op = op

Push ==
  /\ Executes("PUSH")
  /\ sp' = sp + 1 /\ ip' = ip + 1
  /\ UNCHANGED <<compiler, try_stack, leaked, status>>

PopOne ==
  /\ Executes("POP")
  /\ sp' = sp - 1 /\ ip' = ip + 1
  /\ UNCHANGED <<compiler, try_stack, leaked, status>>

Jump ==
  /\ Executes("JUMP")
  /\ ip' = Instr.arg
  /\ UNCHANGED <<compiler, sp, try_stack, leaked, status>>

(* Mutant of JumpIfFalse: the predicate is only looked at.                 *)
JumpIfFalsePeeks ==
  /\ Executes("JUMP_IF_FALSE")
  /\ ip' \in {ip + 1, Instr.arg}
  /\ UNCHANGED <<compiler, sp, try_stack, leaked, status>>

JumpIfFalse ==
  /\ Executes("JUMP_IF_FALSE")
  /\ sp' = sp - 1 /\ ip' \in {ip + 1, Instr.arg}
  /\ UNCHANGED <<compiler, try_stack, leaked, status>>

(* RET_WITH_TRACE with `height` operands on the stack: the innermost        *)
(* handler runs, above them, or the frame is left.                         *)
Raise(height) ==
  /\ sp' = height
  /\ IF try_stack # <<>>
     THEN ip' = try_stack[Len(try_stack)] /\ leaked' = height /\ UNCHANGED status
     ELSE status' = "failed" /\ UNCHANGED <<ip, leaked>>
  /\ UNCHANGED <<compiler, try_stack>>

(* do_call; when the callee fails its slot is still on the stack.          *)
Call ==
  /\ Executes("CALL")
  /\ \/ ip' = ip + 1 /\ UNCHANGED <<compiler, sp, try_stack, leaked, status>>
     \/ sp <= MaxOperands /\ Raise(sp)

Throw == Executes("THROW") /\ Raise(sp - 1)

PushTry ==
  /\ Executes("PUSH_TRY")
  /\ try_stack' = Append(try_stack, Instr.arg) /\ ip' = ip + 1
  /\ UNCHANGED <<compiler, sp, leaked, status>>

PopTry ==
  /\ Executes("POP_TRY")
  /\ try_stack' = Pop(try_stack) /\ ip' = ip + 1
  /\ UNCHANGED <<compiler, sp, leaked, status>>

(* Mutant of Catch: the error is not pushed.                               *)
CatchPushesNothing ==
  /\ Executes("CATCH")
  /\ try_stack' = Pop(try_stack) /\ ip' = ip + 1
  /\ UNCHANGED <<compiler, sp, leaked, status>>

Catch ==
  /\ Executes("CATCH")
  /\ try_stack' = Pop(try_stack)
  /\ sp' = sp + 1 /\ ip' = ip + 1
  /\ UNCHANGED <<compiler, leaked, status>>

Return ==
  /\ Executes("RETURN")
  /\ status' = "returned" /\ sp' = sp - 1
  /\ UNCHANGED <<compiler, ip, try_stack, leaked>>

-----------------------------------------------------------------------------
Init ==
  /\ bc = EmptyBytecode /\ blocks = <<>> /\ loops = <<>>
  /\ try_depth = 0 /\ max_try_depth = 0
  /\ handlers = <<>> /\ starts = {} /\ steps = 0
  /\ ip = 0 /\ sp = 0 /\ try_stack = <<>> /\ leaked = 0
  /\ status = "compiling"

Compile ==
  \/ ExpressionStatement \/ ThrowStatement \/ ReturnStatement
  \/ BreakStatement \/ ContinueStatement
  \/ WhileStatement \/ ForStatement \/ EndLoop
  \/ IfStatement \/ EndIf \/ EndElse
  \/ TryStatement \/ EndTry \/ EndCatch \/ EndFunction

Execute ==
  \/ Push \/ PopOne \/ Jump \/ JumpIfFalse \/ Call \/ Throw
  \/ PushTry \/ PopTry \/ Catch \/ Return

Next == Compile \/ Execute

Spec == Init /\ [][Next]_vars
-----------------------------------------------------------------------------
(* cb_eval allocates max_try_depth entries for its try stack; it is never  *)
(* pushed beyond them, nor popped when empty.                              *)
TryStackInBounds == Len(try_stack) <= max_try_depth /\
  (status = "running" /\ Instr.op \in {"POP_TRY", "CATCH"} => try_stack # <<>>)

(* create_code (compiler.c 1098): stack_size is the room the code requires, *)
(* beyond the operands that caught errors have left on the stack.          *)
OperandsFit == status = "running" => sp <= leaked + stack_size

(* Type invariant of compiler and machine: ip and the try stack stay within *)
(* what was made for them; the stack does too, but that what caught errors *)
(* have left on it (leaked) comes on top of stack_size: nothing bounds it.  *)
TypeOK ==
  /\ blocks \in Seq(Block)
  /\ try_depth \in Nat /\ max_try_depth \in Nat /\ steps \in 0 .. MaxSteps
  /\ \A i \in DOMAIN loops : loops[i].try_depth \in Nat
  /\ ip \in Nat /\ sp \in Nat /\ leaked \in Nat
  /\ status # "compiling" => ip \in Addresses(bc)
  /\ status \in {"compiling", "running", "returned", "failed"}
  /\ TryStackInBounds /\ OperandsFit

(* bytecode_finalize never reports a missing label, and every jump and      *)
(* every handler of the finished code is the address of its label.         *)
JumpsLand == JumpsResolve(bc) /\ (status # "compiling" => bc.pending = {})

(* compile_break_statement, compile_continue_statement and the try         *)
(* statement keep step with cb_eval: whenever a statement starts, by        *)
(* whatever path, the handlers in force are those of the try blocks around *)
(* it.                                                                     *)
HandlersMatchBlocks ==
  status = "running" => \A s \in starts : s.address = ip =>
    try_stack = [i \in DOMAIN s.handlers |-> bc.labels[s.handlers[i]]]

(* Jumps, loops and blocks are balanced: a statement starts with no operand *)
(* on the stack but those the last caught error left there.                *)
StatementsBalanced ==
  status = "running" => \A s \in starts : s.address = ip => sp = leaked

=============================================================================
