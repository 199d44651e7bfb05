------------------------------- MODULE Values -------------------------------
(***************************************************************************)
(* Values: arrays and structs in the heap, comparison and printing of them *)
(* by the recursive C functions of value.c, one step for each element they *)
(* visit, and the operators of eval.c on scalars.                          *)
(*                                                                         *)
(* A value is <<type, payload>>; the payload of an array or a struct is    *)
(* its cell.  A double is one of those that are whole, a string is its     *)
(* rank in cb_strcmp, a native function its C function.                    *)
(***************************************************************************)
EXTENDS Integers, Sequences, FiniteSets, SequencesExt

CONSTANTS
  Type,      \* of each cell: "array", or the spec of a struct
  MaxLen,    \* bound on the length of each cell
  Scalars,   \* the values that operators are given
  Half,      \* half of the integers are negative: 2^63
  CStack,    \* how deep the C functions can recurse
  None

Cells == DOMAIN Type
ScalarTypes ==
  {"int", "double", "bool", "char", "string", "interned", "null", "function", "bytes",
   "spec", "userdata"}
MinInt == -Half
MaxInt == Half - 1

ASSUME BoundsAssumption ==
  /\ Half \in Nat \ {0} /\ CStack \in Nat
  /\ DOMAIN MaxLen = Cells /\ \A c \in Cells : MaxLen[c] \in Nat
  /\ None \notin (ScalarTypes \cup {"error", "crash"}) \X Int

ASSUME ScalarsAssumption ==
  /\ Scalars \subseteq ScalarTypes \X Int
  /\ \A v \in Scalars : v[1] = "int" => v[2] \in MinInt .. MaxInt

VARIABLES
  heap,    \* of each cell that exists, the sequence of its values
  task,    \* what is evaluated: [op, a, b], or None
  work,    \* the C calls, innermost last: [a, b, i], of the element i they are at
  repr,    \* repr_stack
  out,     \* what was printed
  answer   \* the result, Error, Crash, or None while it is computed

vars == <<heap, task, work, repr, out, answer>>

Null == <<"null", 0>>
Error == <<"error", 0>>
Crash == <<"crash", 0>>
Truth(b) == <<"bool", IF b THEN 1 ELSE 0>>
Ref(c) == <<"cell", c>>

Made == DOMAIN heap
Refs == {Ref(c) : c \in Made}
Elements == {Null, Truth(TRUE)} \cup Refs
IsRef(v) == v[1] = "cell"

Init ==
  /\ heap = <<>> /\ task = None /\ work = <<>> /\ repr = <<>> /\ out = <<>>
  /\ answer = Null

Idle == answer # None /\ answer # Crash
Computing == answer = None
-----------------------------------------------------------------------------
(* Bound: between two evaluations a value is made or stored.               *)
Ready == Idle /\ task = None
Idles(h) ==
  /\ heap' = h /\ task' = None /\ answer' = Null /\ out' = <<>>
  /\ UNCHANGED <<work, repr>>

(* NEW_ARRAY_WITH_VALUES, NEW_STRUCT                                       *)
New(c) ==
  /\ Idle /\ c \notin Made
  /\ \E n \in (IF Type[c] = "array" THEN 0 ELSE MaxLen[c]) .. MaxLen[c] :
     \E vs \in [1 .. n -> IF Type[c] = "array" THEN Elements ELSE {Null}] :
       Idles([d \in Made \cup {c} |-> IF d = c THEN vs ELSE heap[d]])

(* ARRAY_SET, STORE_STRUCT: also of a cell into itself                     *)
Store(c) ==
  /\ Idle
  /\ \E i \in DOMAIN heap[c], v \in Elements : Idles([heap EXCEPT ![c][i] = v])
-----------------------------------------------------------------------------
Answers(v) == answer' = v /\ work' = <<>> /\ UNCHANGED <<heap, task, repr, out>>

(* A C function is called with the calls cs below it.                      *)
Calls(cs, f) ==
  IF Len(cs) < CStack
  THEN work' = Append(cs, f) /\ answer' = None
  ELSE work' = cs /\ answer' = Crash

(* cb_value_cmp, of values that eq says are equal or not: their difference, *)
(* or None when there is no order.                                         *)
Wrap(x) == ((x - MinInt) % (2 * Half)) + MinInt
Texts == {"string", "interned"}
Numbers == {"int", "double"}

Difference(v, w, eq) ==
  IF eq THEN <<0>>
  ELSE IF v[1] = "int" /\ w[1] = "int" THEN <<Wrap(v[2] - w[2])>>
  ELSE IF \/ v[1] \in Numbers /\ w[1] \in Numbers
          \/ v[1] \in Texts /\ w[1] \in Texts
       THEN <<v[2] - w[2]>>
  ELSE <<>>

(* What EQUAL, LESS_THAN and LESS_THAN_EQUAL make of it; NOT_EQUAL and the *)
(* other two are their mirror images.                                      *)
Verdict(t, eq) ==
  LET diff == Difference(t.a, t.b, eq) IN
  IF t.op = "==" THEN Truth(eq)
  ELSE IF diff = <<>> THEN Error
  ELSE Truth(IF t.op = "<" THEN diff[1] < 0 ELSE diff[1] <= 0)

(* Mutant of Alike: a string in the heap is not compared with an interned  *)
(* one.                                                                    *)
AlikeByType(v, w) == v[1] = w[1] /\ v[2] = w[2]

(* cb_value_eq of two values of which one is not an array or struct        *)
Alike(v, w) ==
  (v[1] = w[1] \/ {v[1], w[1]} \subseteq Texts) /\ v[2] = w[2]

Descends(v, w) ==
  /\ IsRef(v) /\ IsRef(w)
  /\ Type[v[2]] = Type[w[2]] /\ Len(heap[v[2]]) = Len(heap[w[2]])
Pair(v, w) == [a |-> v[2], b |-> w[2], i |-> 1]

Compare(op, v, w) ==
  /\ Ready
  /\ LET t == [op |-> op, a |-> v, b |-> w] IN
       /\ task' = t /\ UNCHANGED <<heap, repr, out>>
       /\ IF Descends(v, w) THEN Calls(<<>>, Pair(v, w))
          ELSE answer' = Verdict(t, ~IsRef(v) /\ Alike(v, w)) /\ work' = <<>>

Top == Last(work)
Advanced == Append(Front(work), [Top EXCEPT !.i = @ + 1])

(* Mutant of NextElement: the index stays.                                 *)
NextElementNot == UNCHANGED vars

NextElement == work' = Advanced /\ UNCHANGED <<heap, task, repr, out, answer>>

(* The same slot is equal to itself.                                       *)
Equal(v, w) == Top.a = Top.b \/ (~IsRef(v) /\ Alike(v, w))

(* The next element: two arrays or two structs are compared by a call, and *)
(* what differs ends it all.                                               *)
EqStep ==
  /\ Computing /\ task.op # "print"
  /\ IF Top.i > Len(heap[Top.a])
     THEN IF Len(work) = 1 THEN Answers(Verdict(task, TRUE))
          ELSE work' = Front(work) /\ UNCHANGED <<heap, task, repr, out, answer>>
     ELSE LET v == heap[Top.a][Top.i]
              w == heap[Top.b][Top.i]
          IN  IF Equal(v, w) THEN NextElement
              ELSE IF Descends(v, w)
              THEN Calls(Advanced, Pair(v, w)) /\ UNCHANGED <<heap, task, repr, out>>
              ELSE Answers(Verdict(task, FALSE))
-----------------------------------------------------------------------------
(* Mutant of ReprEnter: it looks at the innermost only.                    *)
ReprEnterTop(c) == repr # <<>> /\ Head(repr) = c

(* Mutant of ReprEnter: it only looks whether something is being printed.  *)
ReprEnterAny(c) == repr # <<>>

(* repr_enter finds that c is being printed                                *)
ReprEnter(c) == c \in Range(repr)

(* Mutant of ReprLeave: the cell is not taken off.                         *)
ReprLeaveNot(c) == repr

(* repr_leave takes the innermost entry of c off.                          *)
ReprLeave(c) == RemoveFirst(repr, c)

(* cb_value_to_string of v, with the calls cs below it and o printed       *)
Visit(v, cs, o) ==
  IF ~IsRef(v)
  THEN /\ out' = Append(o, v) /\ work' = cs /\ UNCHANGED repr
       /\ answer' = IF cs = <<>> THEN Null ELSE None
  ELSE IF ReprEnter(v[2])
  THEN out' = Append(o, <<"dots", v[2]>>) /\ work' = cs /\ UNCHANGED <<repr, answer>>
  ELSE /\ out' = Append(o, <<"open", v[2]>>) /\ repr' = <<v[2]>> \o repr
       /\ Calls(cs, Pair(v, v))

PrintValue(v) ==
  /\ Ready
  /\ Visit(v, <<>>, <<>>) /\ task' = [op |-> "print", a |-> v, b |-> v]
  /\ UNCHANGED heap

PrintStep ==
  /\ Computing /\ task.op = "print"
  /\ IF Top.i <= Len(heap[Top.a])
     THEN Visit(heap[Top.a][Top.i], Advanced, out)
     ELSE /\ repr' = ReprLeave(Top.a) /\ work' = Front(work)
          /\ out' = Append(out, <<"close", Top.a>>)
          /\ answer' = IF Len(work) = 1 THEN Null ELSE None
  /\ UNCHANGED <<heap, task>>
-----------------------------------------------------------------------------
(* Mutant of Checked: it wraps.                                            *)
CheckedNot(x) == <<"int", Wrap(x)>>

(* __builtin_add_overflow and its like                                     *)
Checked(x) == IF x \in MinInt .. MaxInt THEN <<"int", x>> ELSE Error

(* Integer division of C, towards zero; the processor traps when there is  *)
(* no quotient.                                                            *)
Abs(x) == IF x < 0 THEN -x ELSE x
Quotient(x, y) ==
  LET q == Abs(x) \div Abs(y) IN IF (x < 0) = (y < 0) THEN q ELSE -q
Remainder(x, y) == LET r == Abs(x) % Abs(y) IN IF x < 0 THEN -r ELSE r
Traps(x, y) == y = 0 \/ (x = MinInt /\ y = -1)

(* ADD, SUB, MUL, DIV, MOD.  Division of doubles is left out.              *)
Arithmetic(op, v, w) ==
  LET x == v[2]
      y == w[2]
      type == IF v[1] = "int" /\ w[1] = "int" THEN "int" ELSE "double"
  IN  IF v[1] \notin Numbers \/ w[1] \notin Numbers THEN Error
      ELSE IF op \in {"/", "%"}
      THEN IF type # "int" THEN Error
           ELSE IF Traps(x, y) THEN Crash
           ELSE <<"int", IF op = "/" THEN Quotient(x, y) ELSE Remainder(x, y)>>
      ELSE LET z == IF op = "+" THEN x + y ELSE IF op = "-" THEN x - y ELSE x * y
           IN  IF type = "int" THEN Checked(z) ELSE <<"double", z>>

(* NEG does not check; NOT                                                 *)
Negation(v) ==
  IF v[1] = "int" THEN <<"int", Wrap(-v[2])>>
  ELSE IF v[1] = "double" THEN <<"double", -v[2]>> ELSE Error
Truthy(v) ==
  CASE v[1] \in Numbers \cup Texts \cup {"bool"} -> v[2] # 0
    [] v[1] = "cell" -> Type[v[2]] # "array" \/ heap[v[2]] # <<>>
    [] v[1] = "null" -> FALSE
    [] OTHER -> TRUE

(* The empty string has rank 0.  Bound: scalars before there is a heap.    *)
Operate(op, v, w) ==
  /\ Ready /\ Made = {}
  /\ LET result == CASE op = "neg" -> Negation(v) [] op = "not" -> Truth(~Truthy(v))
                     [] OTHER -> Arithmetic(op, v, w)
     IN  answer' = result
  /\ task' = [op |-> op, a |-> v, b |-> w] /\ UNCHANGED <<heap, work, repr, out>>

Crashed == answer = Crash /\ UNCHANGED vars

Comparisons == {"==", "<", "<="}
Operators == {"+", "-", "*", "/", "%", "neg", "not"}

Step == EqStep \/ PrintStep
Next ==
  \/ \E c \in Cells : New(c)
  \/ \E c \in Made : Store(c)
  \/ \E op \in Comparisons :
       \/ \E v, w \in Elements : Compare(op, v, w)
       \/ Made = {} /\ \E v, w \in Scalars : Compare(op, v, w)
  \/ \E v \in Refs : PrintValue(v)
  \/ \E op \in Operators, v, w \in Scalars : Operate(op, v, w)
  \/ Step \/ Crashed

(* A C function that was called goes on.                                   *)
Spec == Init /\ [][Next]_vars /\ WF_vars(Step)
-----------------------------------------------------------------------------
TypeOK ==
  /\ Made \subseteq Cells
  /\ \A c \in Made : Len(heap[c]) <= MaxLen[c] /\ Range(heap[c]) \subseteq Elements
  /\ Len(work) <= CStack
  /\ answer = None <=> work # <<>> /\ answer # Crash
  /\ answer # None /\ answer # Crash => repr = <<>>

(* Reference: scalars that are the same; cells that some relation pairs    *)
(* whose pairs agree in all elements.                                      *)
SameScalar(v, w) ==
  (v[1] = w[1] \/ {v[1], w[1]} = Texts) /\ v[2] = w[2]
Matched(R, v, w) ==
  IF IsRef(v) /\ IsRef(w) THEN <<v[2], w[2]>> \in R ELSE SameScalar(v, w)
Agrees(R) ==
  \A p \in R :
    /\ Descends(Ref(p[1]), Ref(p[2]))
    /\ \A i \in DOMAIN heap[p[1]] : Matched(R, heap[p[1]][i], heap[p[2]][i])
Same(v, w) == \E R \in SUBSET (Made \X Made) : Agrees(R) /\ Matched(R, v, w)

(* What the operators mean (README.md, Integer, Struct; value.c:508).      *)
Meaning(t) ==
  LET ordered == {t.a[1], t.b[1]} \subseteq Numbers \/ {t.a[1], t.b[1]} \subseteq Texts
      x == t.a[2]
      y == t.b[2]
  IN  IF t.op = "==" THEN Truth(Same(t.a, t.b))
      ELSE IF ordered THEN Truth(IF t.op = "<" THEN x < y ELSE x <= y)
      ELSE IF Same(t.a, t.b) THEN Truth(t.op = "<=") ELSE Error

(* Comparing gives the verdict of that reference, whatever is shared or    *)
(* cyclic, whenever it gives one: also of integers, as long as their       *)
(* difference is one.                                                      *)
Comparable(t) ==
  t.a[1] = "int" /\ t.b[1] = "int" /\ t.op # "==" => t.a[2] - t.b[2] \in MinInt .. MaxInt
ComparesRight ==
  task # None /\ answer \notin {None, Crash} =>
    (task.op \in Comparisons /\ Comparable(task) => answer = Meaning(task))

(* value.c:545: the sign of cb_value_cmp's result is the order of the       *)
(* operands, however far apart two integers are.                           *)
IntegersOrdered ==
  task # None /\ answer \notin {None, Crash} =>
    (task.op \in {"<", "<="} /\ {task.a[1], task.b[1]} = {"int"} => answer = Meaning(task))

(* Integers are exact or an error, and (a / b) * b + a % b = a; only the   *)
(* least one has no negative, and division can trap.                       *)
ArithmeticExact ==
  task # None /\ answer # Crash
    /\ task.op \in Operators /\ task.a[1] = "int" /\ task.b[1] = "int" =>
    LET x == task.a[2]
        y == task.b[2]
        z == answer[2]
        Is(exact) == answer = IF exact \in MinInt .. MaxInt THEN <<"int", exact>>
                              ELSE Error
    IN  CASE task.op = "+" -> Is(x + y) [] task.op = "-" -> Is(x - y)
          [] task.op = "*" -> Is(x * y) [] task.op = "neg" -> x = MinInt \/ Is(-x)
          [] task.op = "/" -> Abs(x - z * y) < Abs(y) /\ (x - z * y) * x >= 0
          [] task.op = "%" ->
               Abs(z) < Abs(y) /\ z * x >= 0 /\ \E q \in MinInt .. MaxInt : q * y + z = x
          [] OTHER -> TRUE

(* The operators of eval.c give what their operands mean.                  *)
OperatorsRight == ComparesRight /\ ArithmeticExact

(* What can be reached from a cell; a cell that is within itself.          *)
Within(cs) == {v[2] : v \in {u \in UNION {Range(heap[c]) : c \in cs} : IsRef(u)}}
Below(c) ==
  {d \in Made : \A S \in SUBSET Made : Within({c} \cup S) \subseteq S => d \in S}
Cyclic(c) == \E d \in {c} \cup Below(c) : d \in Below(d)

(* Recursion is no deeper than there are cells: printing marks what it     *)
(* prints, and comparing goes deeper only when both are cyclic             *)
(* (value.c:135-165, 424-505).  Nothing else crashes but a division.       *)
StackSuffices ==
  answer = Crash =>
    \/ CStack < Cardinality(Made)
    \/ task.op \in Comparisons /\ Cyclic(task.a[2]) /\ Cyclic(task.b[2])
    \/ task.op \in {"/", "%"} /\ Traps(task.a[2], task.b[2])

(* "..." stands for a cell inside itself, and for no other: what has no     *)
(* cycle is printed whole, also what it shares.                            *)
DotsOnlyInside ==
  \A k \in DOMAIN out : out[k][1] = "dots" =>
    /\ \E j \in 1 .. k - 1 :
         /\ out[j] = <<"open", out[k][2]>>
         /\ \A l \in j .. k - 1 : out[l] # <<"close", out[k][2]>>
    /\ out[k][2] \in Below(out[k][2])

(* Comparing and printing come to an end.                                  *)
EvaluationEnds == Computing ~> ~Computing
=============================================================================
