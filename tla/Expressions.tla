---------------------------- MODULE Expressions ----------------------------
(***************************************************************************)
(* Expressions: compiler.c's precedence parser, which emits code as it      *)
(* reads, and cb_eval's run of that code on the operand stack.  Every       *)
(* expression of up to MaxTokens tokens (and what closes its brackets) is   *)
(* compiled, then run with every outcome of its tests.                      *)
(*                                                                          *)
(* A run leaves a log of what it did, in order: an operation, with the      *)
(* entries of the log that its operands came from.  A value is the number   *)
(* of its entry.  The meaning of an expression, the log and the value it    *)
(* should have, is defined on its syntax tree, at the end of the module.    *)
(***************************************************************************)
EXTENDS Bytecode, FiniteSetsExt, TLC

CONSTANTS
  Infix,     \* infix operators, one of each kind that is told apart
  MaxTokens  \* bound on the length of the expression

(* The tokens: "x" a name, "!" any prefix operator, "." a dot and a name,   *)
(* "-=" any compound assignment, "++" this or "--", "x=" the start of a     *)
(* field of a struct literal.                                               *)
LeftAssociative == {"|", "^", "&", "==", "<", "-", "*"}
ShortCircuit == {"||", "&&"}
Postfix == {"(", "[", ".", "{"}
Assignments == {"=", "-=", "++"}

ASSUME TokenAssumption ==
  Infix \subseteq LeftAssociative \cup ShortCircuit \cup {"**"} /\ MaxTokens \in Nat

VARIABLES
  tokens,   \* the tokens consumed
  next,     \* PEEK(), or None before it is read
  phase,    \* where the parser is, or "run", "end"
  callers,  \* the calls of compile_expression_inner, innermost last
  bc,       \* struct cb_bytecode
  ip, stack,
  log,      \* history: what was done, and to what
  truth     \* history: the values tested, with the outcome

parser == <<tokens, next, phase, callers, bc>>
machine == <<ip, stack, log, truth>>
vars == <<parser, machine>>

None == "none"
Caller == callers[Len(callers)]
Last == Len(tokens)
Pop(s, n) == SubSeq(s, 1, Len(s) - n)
-----------------------------------------------------------------------------
(* Binding powers.  -1: not the start of anything that could follow.        *)
lbp(t) ==
  CASE t = "=" -> 1 [] t = "||" -> 2 [] t = "&&" -> 3 [] t = "|" -> 4
    [] t = "^" -> 5 [] t = "&" -> 6 [] t = "==" -> 7 [] t = "<" -> 8
    [] t = "-" -> 10 [] t = "*" -> 11 [] t = "**" -> 12
    [] t \in Postfix -> 13
    [] t \in {"end", ")", "]", ",", "x"} -> 0
    [] OTHER -> -1
rbp == 11  \* of the prefix operators

OpOf(t) == "op" \o t

(* APPEND, APPEND1: a sequence of instructions.                             *)
I(op, arg) == [op |-> op, arg |-> arg]
O(op) == I(op, 0)
EmitAll(b, is) ==
  [b EXCEPT !.code = @ \o [i \in DOMAIN is |->
                             [op |-> is[i].op, arg |-> is[i].arg, label |-> NoLabel]]]

(* A call of compile_expression_inner: the token its caller EXPECTs after   *)
(* it (or None), what the caller appends then, the label it marks, and how  *)
(* many elements of a list it is the last of.                               *)
Invoked(power, close, is) ==
  [rbp |-> power, close |-> close, emit |-> is, label |-> NoLabel, n |-> 0]

Parses(p) == phase = p /\ next # None
Consume == tokens' = Append(tokens, next) /\ next' = None
Keep == UNCHANGED <<tokens, next>>
Compiles(p, cs, is) ==
  /\ phase' = p /\ callers' = cs /\ bc' = EmitAll(bc, is)
  /\ UNCHANGED machine
Calls(power, close, is, before) ==
  Consume /\ Compiles("nud", Append(callers, Invoked(power, close, is)), before)

(* PEEK: only texts that compile are considered.                            *)
Closers ==
  LET open == {i \in DOMAIN callers : callers[i].close # None} IN
  CASE open = {} -> {"end"}
    [] OTHER -> LET c == callers[Max(open)] IN
                {c.close} \cup (IF c.close \in {")", "]", "}"} /\ c.n > 0 THEN {","} ELSE {})
Follows ==
  CASE phase = "nud" -> {"x", "!", "(", "["}
    [] phase = "item" -> {"x", "!", "(", "[", Caller.close}
    [] phase = "fields" -> {"x=", "}"}
    [] phase \in {"ident", "index", "field"} -> Infix \cup Postfix \cup Assignments \cup Closers
    [] OTHER -> Infix \cup Postfix \cup Closers

Peek ==
  /\ next = None /\ phase \notin {"run", "end"}
  /\ next' \in {t \in Follows : Last < MaxTokens \/ t \in Closers}
  /\ UNCHANGED <<tokens, phase, callers, bc, machine>>
-----------------------------------------------------------------------------
(* nud                                                                      *)
NudName == Parses("nud") /\ next = "x" /\ Consume /\ Compiles("ident", callers, <<>>)

NudPrefix == Parses("nud") /\ next = "!" /\ Calls(rbp, None, <<O("op!")>>, <<>>)

NudParen == Parses("nud") /\ next = "(" /\ Calls(0, ")", <<>>, <<>>)

(* compile_identifier_expression, after the name.  The value of an          *)
(* assignment is parsed from power 0, whatever stands left of the name.     *)
Name == /\ Parses("ident")
        /\ \/ /\ next = "="
              /\ Calls(0, None, <<I("STORE", Last)>>, <<>>)
           \/ /\ next = "-="
              /\ Calls(0, None, <<O("op-"), I("STORE", Last)>>, <<I("LOAD", Last)>>)
           \/ /\ next = "++"
              /\ Consume
              /\ Compiles("led", callers,
                          <<I("LOAD", Last), O("DUP"), O("INC"), I("STORE", Last), O("POP")>>)
           \/ /\ next \notin Assignments
              /\ Keep /\ Compiles("led", callers, <<I("LOAD", Last)>>)

(* A list of expressions: an array literal or the arguments of a call.      *)
List(close, op) == Invoked(0, close, <<O(op)>>)

NudArray ==
  /\ Parses("nud") /\ next = "["
  /\ Consume /\ Compiles("item", Append(callers, List("]", "NEW_ARRAY")), <<>>)

EndList ==
  Compiles("led", Pop(callers, 1), <<I(Caller.emit[1].op, Caller.n)>>)

Item ==
  /\ Parses("item")
  /\ IF next = Caller.close
     THEN Consume /\ EndList
     ELSE Keep /\ Compiles("nud", [callers EXCEPT ![Len(callers)].n = @ + 1], <<>>)
-----------------------------------------------------------------------------
(* led                                                                      *)
Binds == Parses("led") /\ Caller.rbp < lbp(next)

LedLeft ==
  /\ Binds /\ next \in LeftAssociative
  /\ Calls(lbp(next), None, <<O(OpOf(next))>>, <<>>)

LedRight ==
  Binds /\ next = "**" /\ Calls(lbp(next) - 1, None, <<O(OpOf(next))>>, <<>>)

LedShortCircuit ==
  /\ Binds /\ next \in ShortCircuit
  /\ LET b == NewLabel(EmitAll(bc, <<O("DUP")>>))
         l == Len(b.labels)
         jump == IF next = "&&" THEN "JUMP_IF_FALSE" ELSE "JUMP_IF_TRUE" IN
     /\ bc' = EmitAll(EmitJump(b, jump, l), <<O("POP")>>)
     /\ callers' = Append(callers, [Invoked(lbp(next), None, <<>>) EXCEPT !.label = l])
  /\ Consume /\ phase' = "nud" /\ UNCHANGED machine

LedCall ==
  /\ Binds /\ next = "("
  /\ Consume /\ Compiles("item", Append(callers, List(")", "CALL")), <<>>)

LedIndex == Binds /\ next = "[" /\ Calls(0, "]", <<>>, <<>>)

LedField == Binds /\ next = "." /\ Consume /\ Compiles("field", callers, <<>>)

LedStruct ==
  /\ Binds /\ next = "{"
  /\ Consume
  /\ Compiles("fields", Append(callers, Invoked(0, "}", <<>>)), <<O("NEW_STRUCT")>>)

(* Mutant of Index: the old value is not put under array and index.         *)
IndexKeepsOrder ==
  /\ Parses("index")
  /\ \/ next = "=" /\ Calls(0, None, <<O("ARRAY_SET")>>, <<>>)
     \/ /\ next = "-="
        /\ Calls(0, None, <<O("op-"), O("ARRAY_SET")>>, <<O("DUP_2"), O("ARRAY_GET")>>)
     \/ /\ next = "++"
        /\ Consume
        /\ Compiles("led", callers, <<O("DUP_2"), O("ARRAY_GET"), O("DUP"), O("ROT_3"),
                                      O("INC"), O("ARRAY_SET"), O("POP")>>)
     \/ next \notin Assignments /\ Keep /\ Compiles("led", callers, <<O("ARRAY_GET")>>)

(* compile_index_expression, after the bracket.                             *)
Index ==
  /\ Parses("index")
  /\ \/ next = "=" /\ Calls(0, None, <<O("ARRAY_SET")>>, <<>>)
     \/ /\ next = "-="
        /\ Calls(0, None, <<O("op-"), O("ARRAY_SET")>>, <<O("DUP_2"), O("ARRAY_GET")>>)
     \/ /\ next = "++"
        /\ Consume
        /\ Compiles("led", callers, <<O("DUP_2"), O("ARRAY_GET"), O("DUP"), O("ROT_4"),
                                      O("INC"), O("ARRAY_SET"), O("POP")>>)
     \/ next \notin Assignments /\ Keep /\ Compiles("led", callers, <<O("ARRAY_GET")>>)

(* compile_struct_field_expression, after the name of the field.            *)
Field ==
  LET load == I("LOAD_STRUCT", Last)  store == I("STORE_STRUCT", Last) IN
  /\ Parses("field")
  /\ \/ next = "=" /\ Calls(0, None, <<store>>, <<>>)
     \/ next = "-=" /\ Calls(0, None, <<O("op-"), store>>, <<O("DUP"), load>>)
     \/ /\ next = "++"
        /\ Consume
        /\ Compiles("led", callers,
                    <<O("DUP"), load, O("DUP"), O("ROT_3"), O("INC"), store, O("POP")>>)
     \/ /\ next = "("
        /\ Consume
        /\ Compiles("item", Append(callers, List(")", "CALL_METHOD")), <<I("LOAD_METHOD", Last)>>)
     \/ next \notin Assignments \cup {"("} /\ Keep /\ Compiles("led", callers, <<load>>)

(* compile_struct_expression, at a field or the end.                        *)
StructField ==
  /\ Parses("fields")
  /\ \/ next = "}" /\ Consume /\ Compiles("led", Pop(callers, 1), <<>>)
     \/ /\ next = "x="
        /\ Consume
        /\ Compiles("nud", [callers EXCEPT ![Len(callers)].emit = <<I("ADD_STRUCT_FIELD", Last + 1)>>,
                                           ![Len(callers)].n = 1], <<>>)
-----------------------------------------------------------------------------
(* compile_expression_inner returns: the next token binds no tighter.       *)
Returns == Parses("led") /\ Caller.rbp >= lbp(next)

(* To a binary or prefix operator or to an assignment.                      *)
ReturnOperand ==
  /\ Returns /\ Caller.close = None /\ Len(callers) > 1
  /\ Keep /\ phase' = "led" /\ callers' = Pop(callers, 1)
  /\ bc' = LET b == EmitAll(bc, Caller.emit)
           IN  IF Caller.label = NoLabel THEN b ELSE Mark(b, Caller.label)
  /\ UNCHANGED machine

ReturnParen ==
  /\ Returns /\ next = Caller.close /\ next = ")" /\ Caller.n = 0
  /\ Consume /\ Compiles("led", Pop(callers, 1), <<>>)

ReturnIndex ==
  /\ Returns /\ next = Caller.close /\ next = "]" /\ Caller.n = 0
  /\ Consume /\ Compiles("index", Pop(callers, 1), <<>>)

ReturnItem ==
  /\ Returns /\ Caller.close \in {")", "]"} /\ Caller.n > 0
  /\ IF next = "," THEN Consume /\ Compiles("item", callers, <<>>) ELSE Consume /\ EndList

ReturnField ==
  /\ Returns /\ Caller.close = "}"
  /\ IF next = ","
     THEN Consume /\ Compiles("fields", callers, Caller.emit)
     ELSE Consume /\ Compiles("led", Pop(callers, 1), Caller.emit)

ReturnTop ==
  /\ Returns /\ Len(callers) = 1 /\ next = "end"
  /\ phase' = "run" /\ UNCHANGED <<tokens, next, callers, bc, machine>>
-----------------------------------------------------------------------------
(* cb_opcode_stack_effect and create_code.                                  *)
Binary == {OpOf(t) : t \in LeftAssociative \cup {"**"}}

(* Mutant of StackEffect: the two copies of DUP_2 count once.               *)
StackEffectDup(instr) ==
  CASE instr.op \in {"LOAD", "DUP", "DUP_2", "LOAD_STRUCT", "LOAD_METHOD"} -> 1
    [] instr.op \in Binary \cup {"POP", "ARRAY_GET", "JUMP_IF_TRUE", "JUMP_IF_FALSE",
                                 "STORE_STRUCT", "ADD_STRUCT_FIELD"} -> -1
    [] instr.op = "ARRAY_SET" -> -2
    [] instr.op = "NEW_ARRAY" -> 1 - instr.arg
    [] instr.op \in {"CALL", "CALL_METHOD"} -> 0 - instr.arg
    [] OTHER -> 0

StackEffect(instr) ==
  CASE instr.op \in {"LOAD", "DUP", "LOAD_STRUCT", "LOAD_METHOD"} -> 1
    [] instr.op = "DUP_2" -> 2
    [] instr.op \in Binary \cup {"POP", "ARRAY_GET", "JUMP_IF_TRUE", "JUMP_IF_FALSE",
                                 "STORE_STRUCT", "ADD_STRUCT_FIELD"} -> -1
    [] instr.op = "ARRAY_SET" -> -2
    [] instr.op = "NEW_ARRAY" -> 1 - instr.arg
    [] instr.op \in {"CALL", "CALL_METHOD"} -> 0 - instr.arg
    [] OTHER -> 0

stack_size ==
  LET sum[i \in 0 .. Len(bc.code)] ==
        IF i = 0 THEN 0 ELSE sum[i - 1] + StackEffect(bc.code[i])
  IN Max({sum[i] : i \in 0 .. Len(bc.code)})

Executes == phase = "run" /\ ip < Len(bc.code)
Instr == bc.code[ip + 1]
Top(n) == SubSeq(stack, Len(stack) - n + 1, Len(stack))
Step(s) == stack' = s /\ ip' = ip + 1 /\ UNCHANGED parser

(* Operations that take n operands and leave their result.                  *)
Event(instr, operands) == [op |-> instr.op, arg |-> instr.arg, on |-> operands]
Logs(operands) == log' = Append(log, Event(Instr, operands))

Takes(n, ops) ==
  /\ Executes /\ Instr.op \in ops
  /\ Logs(Top(n)) /\ Step(Append(Pop(stack, n), Len(log) + 1))
  /\ UNCHANGED truth

Arithmetic == Takes(2, {"op-", "op*", "op**"}) \/ Takes(1, {"INC"})
Compare == Takes(2, Binary \ {"op-", "op*", "op**"}) \/ Takes(1, {"op!"})
Load == Takes(0, {"LOAD"})
Array == Takes(2, {"ARRAY_GET"}) \/ Takes(Instr.arg, {"NEW_ARRAY"})
LoadStruct == Takes(1, {"LOAD_STRUCT"})
NewStruct == Takes(1, {"NEW_STRUCT"})
Call == Takes(Instr.arg + 1, {"CALL"}) \/ Takes(Instr.arg + 2, {"CALL_METHOD"})

(* Operations that leave something else: the stores, the value;             *)
(* ADD_STRUCT_FIELD, the struct; LOAD_METHOD, the method on its receiver.   *)
Leaves(n, s) == Logs(Top(n)) /\ Step(s) /\ UNCHANGED truth

Store ==
  /\ Executes
  /\ \/ Instr.op = "STORE" /\ Leaves(1, stack)
     \/ Instr.op = "ARRAY_SET" /\ Leaves(3, Pop(stack, 3) \o Top(1))

StoreStruct ==
  /\ Executes
  /\ \/ Instr.op = "STORE_STRUCT" /\ Leaves(2, Pop(stack, 2) \o Top(1))
     \/ Instr.op = "ADD_STRUCT_FIELD" /\ Leaves(2, Pop(stack, 1))

LoadMethod ==
  Executes /\ Instr.op = "LOAD_METHOD" /\ Leaves(1, Append(stack, Len(log) + 1))

(* What moves operands only; the last element of t is the topmost.          *)
Duplicate ==
  /\ Executes
  /\ \/ Instr.op = "POP" /\ Step(Pop(stack, 1))
     \/ Instr.op = "DUP" /\ Step(stack \o Top(1))
     \/ Instr.op = "DUP_2" /\ Step(stack \o Top(2))
  /\ UNCHANGED <<log, truth>>

Rotate ==
  /\ Executes
  /\ \/ /\ Instr.op = "ROT_3"
        /\ LET t == Top(3) IN Step(Pop(stack, 3) \o <<t[3], t[1], t[2]>>)
     \/ /\ Instr.op = "ROT_4"
        /\ LET t == Top(4) IN Step(Pop(stack, 4) \o <<t[4], t[1], t[2], t[3]>>)
  /\ UNCHANGED <<log, truth>>

Test ==
  /\ Executes /\ Instr.op \in {"JUMP_IF_TRUE", "JUMP_IF_FALSE"}
  /\ LET v == Top(1)[1] IN
     \E outcome \in IF v \in DOMAIN truth THEN {truth[v]} ELSE BOOLEAN :
       /\ truth' = [w \in DOMAIN truth \cup {v} |-> IF w = v THEN outcome ELSE truth[w]]
       /\ ip' = IF outcome = (Instr.op = "JUMP_IF_TRUE") THEN Instr.arg ELSE ip + 1
  /\ stack' = Pop(stack, 1)
  /\ UNCHANGED <<parser, log>>

Finish ==
  /\ phase = "run" /\ ip = Len(bc.code)
  /\ phase' = "end" /\ UNCHANGED <<tokens, next, callers, bc, machine>>
-----------------------------------------------------------------------------
Init ==
  /\ tokens = <<>> /\ next = None /\ phase = "nud"
  /\ callers = <<Invoked(0, None, <<>>)>>
  /\ bc = EmptyBytecode
  /\ ip = 0 /\ stack = <<>> /\ log = <<>> /\ truth = <<>>

Next ==
  \/ Peek
  \/ NudName \/ NudPrefix \/ NudParen \/ NudArray \/ Name \/ Item
  \/ LedLeft \/ LedRight \/ LedShortCircuit \/ LedCall \/ LedIndex \/ LedField \/ LedStruct
  \/ Index \/ Field \/ StructField
  \/ ReturnOperand \/ ReturnParen \/ ReturnIndex \/ ReturnItem \/ ReturnField \/ ReturnTop
  \/ Arithmetic \/ Compare \/ Load \/ Array \/ LoadStruct \/ NewStruct \/ Call
  \/ Store \/ StoreStruct \/ LoadMethod \/ Duplicate \/ Rotate \/ Test \/ Finish

Spec == Init /\ [][Next]_vars
-----------------------------------------------------------------------------
(* The meaning of an expression.  Its syntax tree by the usual rules:       *)
(* operators of lower rank are looser, equal ones group to the left but **  *)
(* to the right, an assignment reaches from its target to the right as far  *)
(* as it can.                                                               *)
Ranking == <<{"||"}, {"&&"}, {"|"}, {"^"}, {"&"}, {"=="}, {"<"}, {"-"}, {"*"}, {"!"}, {"**"}>>
Rank(t) == CHOOSE r \in DOMAIN Ranking : t \in Ranking[r]

(* Whether token k is in no bracket that opens at i or later.               *)
Outer(ts, i, k) ==
  Cardinality({m \in i .. k - 1 : ts[m] \in {"(", "[", "{"}}) =
    Cardinality({m \in i .. k : ts[m] \in {")", "]", "}"}})

Node(op, at, kids) == [op |-> op, at |-> at, kids |-> kids]

RECURSIVE Items(_, _, _), Tree(_, _, _)
Items(ts, i, j) ==
  LET commas == {k \in i .. j : ts[k] = "," /\ Outer(ts, i, k)} IN
  CASE i > j -> <<>>
    [] i <= j /\ commas = {} -> <<Tree(ts, i, j)>>
    [] OTHER -> <<Tree(ts, i, Min(commas) - 1)>> \o Items(ts, Min(commas) + 1, j)

Tree(ts, i, j) ==
  LET outer == {k \in i .. j : Outer(ts, i, k)}
      assigns == {k \in outer : ts[k] \in {"=", "-="}}
      target == IF assigns = {} THEN j ELSE Min(assigns) - 1
      ops == {k \in outer : /\ k <= target
                             /\ \/ ts[k] \in UNION {Ranking[r] : r \in DOMAIN Ranking \ {10}}
                                \/ ts[k] = "!" /\ k = i}
      loosest == {k \in ops : \A m \in ops : Rank(ts[k]) <= Rank(ts[m])}
      split == IF \E k \in loosest : ts[k] = "**" THEN Min(loosest) ELSE Max(loosest)
      opening == Max({k \in outer : k < j})  \* of the bracket that closes at j
  IN
  CASE ts[i] = "x=" -> Node("field", i, <<Tree(ts, i + 1, j)>>)
    [] ts[i] # "x=" /\ ops # {} ->
         IF ts[split] = "!" THEN Node("!", 0, <<Tree(ts, i + 1, j)>>)
         ELSE Node(ts[split], 0, <<Tree(ts, i, split - 1), Tree(ts, split + 1, j)>>)
    [] ts[i] # "x=" /\ ops = {} /\ assigns # {} ->
         Node(ts[target + 1], 0, <<Tree(ts, i, target), Tree(ts, target + 2, j)>>)
    [] i = j -> Node("x", i, <<>>)
    [] ts[j] = "++" -> Node("++", 0, <<Tree(ts, i, j - 1)>>)
    [] ts[j] = "." -> Node(".", j, <<Tree(ts, i, j - 1)>>)
    [] ts[j] = "}" -> Node("{", 0, <<Tree(ts, i, opening - 1)>> \o Items(ts, opening + 1, j - 1))
    [] ts[j] = "]" /\ opening = i -> Node("list", 0, Items(ts, i + 1, j - 1))
    [] ts[j] = "]" /\ opening # i ->
         Node("[", 0, <<Tree(ts, i, opening - 1), Tree(ts, opening + 1, j - 1)>>)
    [] ts[j] = ")" /\ opening = i -> Tree(ts, i + 1, j - 1)
    [] ts[j] = ")" /\ opening # i ->
         IF ts[opening - 1] = "."
         THEN Node("method", opening - 1,
                   <<Tree(ts, i, opening - 2)>> \o Items(ts, opening + 1, j - 1))
         ELSE Node("(", 0, <<Tree(ts, i, opening - 1)>> \o Items(ts, opening + 1, j - 1))

(* What its evaluation does, from left to right.  A result is a log with    *)
(* the values of the subtrees evaluated so far.                             *)
Did(r, op, arg, operands) ==
  [log |-> Append(r.log, Event(I(op, arg), operands)),
   vals |-> Append(r.vals, Len(r.log) + 1)]
Value(r) == r.vals[Len(r.vals)]
From(r) == [log |-> r.log, vals |-> <<>>]

(* A place to read or write: a name, an element, a field.                   *)
ReadOf == ("x" :> "LOAD") @@ ("[" :> "ARRAY_GET") @@ ("." :> "LOAD_STRUCT")
WriteOf == ("x" :> "STORE") @@ ("[" :> "ARRAY_SET") @@ ("." :> "STORE_STRUCT")

RECURSIVE Each(_, _), Evaluated(_, _)
(* The subtrees in order.                                                   *)
Each(r, trees) ==
  IF trees = <<>> THEN r
  ELSE LET e == Evaluated(From(r), Head(trees)) IN
       Each([log |-> e.log, vals |-> Append(r.vals, Value(e))], Tail(trees))

Fields(r, new, trees) ==
  LET upTo[i \in 0 .. Len(trees)] ==
        IF i = 0 THEN r
        ELSE LET e == Evaluated(upTo[i - 1], trees[i].kids[1]) IN
             Did(e, "ADD_STRUCT_FIELD", trees[i].at, <<new, Value(e)>>)
  IN upTo[Len(trees)]

Evaluated(r, t) ==
  CASE t.op \in DOMAIN ReadOf ->
         LET e == Each(From(r), t.kids) IN Did(e, ReadOf[t.op], t.at, e.vals)
    [] t.op \in {"=", "-=", "++"} ->
         LET place == t.kids[1]
             e == Each(From(r), place.kids)
             old == IF t.op = "=" THEN e ELSE Did(e, ReadOf[place.op], place.at, e.vals)
             v == IF t.op = "++" THEN Did(old, "INC", 0, <<Value(old)>>)
                  ELSE Evaluated(From(old), t.kids[2])
             new == IF t.op = "-=" THEN Did(v, "op-", 0, <<Value(old), Value(v)>>) ELSE v
             done == Did(new, WriteOf[place.op], place.at, e.vals \o <<Value(new)>>)
         IN [log |-> done.log, vals |-> <<Value(IF t.op = "++" THEN old ELSE new)>>]
    [] t.op \in ShortCircuit ->
         LET e == Evaluated(From(r), t.kids[1])
             decided == Value(e) \notin DOMAIN truth \/ truth[Value(e)] = (t.op = "||")
         IN IF decided THEN e ELSE Evaluated(From(e), t.kids[2])
    [] t.op = "list" ->
         LET e == Each(From(r), t.kids) IN Did(e, "NEW_ARRAY", Len(t.kids), e.vals)
    [] t.op = "(" ->
         LET e == Each(From(r), t.kids) IN Did(e, "CALL", Len(t.kids) - 1, e.vals)
    [] t.op = "method" ->
         LET self == Evaluated(From(r), t.kids[1])
             method == Did(From(self), "LOAD_METHOD", t.at, <<Value(self)>>)
             e == Each([method EXCEPT !.vals = <<Value(self), Value(method)>>], Tail(t.kids))
         IN Did(e, "CALL_METHOD", Len(t.kids) - 1, e.vals)
    [] t.op = "{" ->
         LET spec == Evaluated(From(r), t.kids[1])
             new == Did(spec, "NEW_STRUCT", 0, <<Value(spec)>>)
         IN [log |-> Fields(new, Value(new), Tail(t.kids)).log, vals |-> <<Value(new)>>]
    [] OTHER -> LET e == Each(From(r), t.kids) IN Did(e, OpOf(t.op), 0, e.vals)

Meaning == Evaluated([log |-> <<>>, vals |-> <<>>], Tree(tokens, 1, Len(tokens)))
-----------------------------------------------------------------------------
(* Type invariant: every label an expression takes is marked when it ends.  *)
TypeOK ==
  /\ phase \in {"nud", "ident", "item", "index", "field", "fields", "led", "run", "end"}
  /\ \A i \in DOMAIN callers : callers[i].rbp \in 0 .. 13 /\ callers[i].n \in Nat
  /\ phase \in {"run", "end"} => bc.pending = {}
  /\ ip \in 0 .. Len(bc.code)
  /\ \A i \in DOMAIN stack : stack[i] \in DOMAIN log
  /\ DOMAIN truth \subseteq DOMAIN log

(* The code of an expression does what its tree says, no more, from left to *)
(* right, and leaves its value and nothing else.                            *)
MeansItsTree ==
  phase = "end" => log = Meaning.log /\ stack = <<Value(Meaning)>>

(* The operands of an expression fit in the stack_size of its code, which   *)
(* nothing checks at run time.                                              *)
OperandsFit == phase \in {"run", "end"} => Len(stack) <= stack_size

(* What the parser has emitted and what the machine holds is well formed.  *)
WellFormed == TypeOK /\ OperandsFit
=============================================================================
