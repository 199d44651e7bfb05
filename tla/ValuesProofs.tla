---------------------------- MODULE ValuesProofs ----------------------------
(***************************************************************************)
(* Values: comparing and printing do what they promise, whatever is shared *)
(* or cyclic.  The invariant says of the C calls that they follow a path   *)
(* through the heap, of a comparison what it has found to be equal so far, *)
(* and of printing which cells are open.                                   *)
(***************************************************************************)
EXTENDS Values, SequenceTheorems, FiniteSetTheorems, TLAPS

Visiting == [a : Made, b : Made, i : Nat \ {0}]
Printed == {Null, Truth(TRUE)} \cup ({"open", "close", "dots"} \X Cells)
Results == (ScalarTypes \cup {"error", "crash"}) \X Int

HeapOK ==
  /\ IsFiniteSet(Made) /\ Made \subseteq Cells
  /\ \A c \in Made : heap[c] \in Seq(Elements) /\ Len(heap[c]) <= MaxLen[c]

(* The calls wk go from each cell to an element of it.                     *)
Follows(c, k, d) == k \in DOMAIN heap[c] /\ heap[c][k] = Ref(d)
PathOK(wk, t) ==
  /\ wk \in Seq(Visiting) /\ wk # <<>>
  /\ t.a = Ref(wk[1].a) /\ t.b = Ref(wk[1].b)
  /\ \A k \in 1 .. Len(wk) - 1 :
       /\ Follows(wk[k].a, wk[k].i - 1, wk[k + 1].a)
       /\ Follows(wk[k].b, wk[k].i - 1, wk[k + 1].b)
  /\ \A j, k \in 1 .. Len(wk) : j < k =>
       wk[k].a \in Below(wk[j].a) /\ wk[k].b \in Below(wk[j].b)

(* A comparison goes on as long as all it has seen is equal.               *)
Seen(wk, k) == IF k = Len(wk) THEN wk[k].i - 1 ELSE wk[k].i - 2
SameCells(c, d) == Same(Ref(c), Ref(d))
ComparesOK(wk, t) ==
  /\ t.op \in Comparisons
  /\ \A k \in 1 .. Len(wk) : Descends(Ref(wk[k].a), Ref(wk[k].b))
  /\ \A k \in 1 .. Len(wk) : \A i \in 1 .. Seen(wk, k) :
       i \in DOMAIN heap[wk[k].a] => Same(heap[wk[k].a][i], heap[wk[k].b][i])
  /\ Same(t.a, t.b) => \A k \in 1 .. Len(wk) : SameCells(wk[k].a, wk[k].b)

(* The cells that are being printed are open, and on repr_stack.           *)
Opened(c, o) ==
  \E j \in DOMAIN o :
    o[j] = <<"open", c>> /\ \A l \in DOMAIN o : l > j => o[l] # <<"close", c>>
PrintsOK(wk, rp, o, t) ==
  /\ t.op = "print"
  /\ rp \in Seq(Made) /\ Len(rp) = Len(wk)
  /\ \A k \in 1 .. Len(wk) :
       /\ wk[k].b = wk[k].a /\ rp[k] = wk[Len(wk) + 1 - k].a
       /\ Opened(wk[k].a, o)
  /\ \A j, k \in 1 .. Len(wk) : j < k => wk[j].a # wk[k].a

DotsOK(o) ==
  /\ o \in Seq(Printed)
  /\ \A k \in DOMAIN o : o[k][1] = "dots" =>
       /\ \E j \in 1 .. k - 1 :
            /\ o[j] = <<"open", o[k][2]>>
            /\ \A l \in j .. k - 1 : o[l] # <<"close", o[k][2]>>
       /\ o[k][2] \in Below(o[k][2])

Going == /\ answer = None /\ PathOK(work, task)
         /\ \/ repr = <<>> /\ ComparesOK(work, task)
            \/ PrintsOK(work, repr, out, task)
Done == answer # None /\ answer \in Results /\ (answer # Crash => work = <<>> /\ repr = <<>>)

IInv == /\ HeapOK /\ DotsOK(out) /\ Len(work) <= CStack
        /\ Going \/ Done
        /\ StackSuffices /\ OperatorsRight
-----------------------------------------------------------------------------
LEMMA ValueFacts ==
  /\ Null \in Results /\ Error \in Results /\ Crash \in Results
  /\ Truth(TRUE) \in Results /\ Truth(FALSE) \in Results /\ None \notin Results
  /\ Null # Crash /\ Error # Crash /\ Truth(TRUE) # Crash /\ Truth(FALSE) # Crash
  /\ ~IsRef(Null) /\ ~IsRef(Truth(TRUE))
  /\ \A c : IsRef(Ref(c)) /\ Ref(c)[2] = c
<1>2. /\ Null \in Results /\ Error \in Results /\ Crash \in Results
      /\ Truth(TRUE) \in Results /\ Truth(FALSE) \in Results
  BY DEF Results, ScalarTypes, Null, Error, Crash, Truth
<1>3. None \notin Results
  BY BoundsAssumption DEF Results
<1>4. Null # Crash /\ Error # Crash /\ Truth(TRUE) # Crash /\ Truth(FALSE) # Crash
  BY DEF Null, Error, Crash, Truth
<1>5. ~IsRef(Null) /\ ~IsRef(Truth(TRUE)) /\ \A c : IsRef(Ref(c)) /\ Ref(c)[2] = c
  BY DEF Null, Truth, IsRef, Ref
<1> QED
  BY <1>2, <1>3, <1>4, <1>5

LEMMA ElementIs ==
  ASSUME NEW v \in Elements
  PROVE  \/ IsRef(v) /\ v[2] \in Made /\ v = Ref(v[2])
         \/ ~IsRef(v) /\ v \in {Null, Truth(TRUE)}
BY ValueFacts DEF Elements, Refs

(* What is below a cell.                                                   *)
LEMMA WithinIs ==
  ASSUME HeapOK, NEW cs \in SUBSET Made, NEW d
  PROVE  d \in Within(cs) <=> \E c \in cs : \E i \in DOMAIN heap[c] : heap[c][i] = Ref(d)
<1>1. ASSUME d \in Within(cs)
      PROVE  \E c \in cs : \E i \in DOMAIN heap[c] : heap[c][i] = Ref(d)
  <2>1. PICK c \in cs : \E i \in DOMAIN heap[c] : IsRef(heap[c][i]) /\ heap[c][i][2] = d
    BY <1>1 DEF Within, Range
  <2>2. PICK i \in DOMAIN heap[c] : IsRef(heap[c][i]) /\ heap[c][i][2] = d
    BY <2>1
  <2>3. heap[c] \in Seq(Elements)
    BY DEF HeapOK
  <2>4. heap[c][i] \in Elements
    BY <2>3
  <2>5. heap[c][i] = Ref(d)
    BY <2>2, <2>4, ElementIs
  <2> QED
    BY <2>5
<1>2. ASSUME NEW c \in cs, NEW i \in DOMAIN heap[c], heap[c][i] = Ref(d)
      PROVE  d \in Within(cs)
  <2>1. heap[c][i] \in Range(heap[c])
    BY DEF Range
  <2>2. heap[c][i] \in UNION {Range(heap[e]) : e \in cs}
    BY <2>1
  <2>3. IsRef(heap[c][i]) /\ heap[c][i][2] = d
    BY <1>2, ValueFacts
  <2> QED
    BY <2>2, <2>3 DEF Within
<1> QED
  BY <1>1, <1>2

LEMMA BelowElement ==
  ASSUME HeapOK, NEW c \in Made, NEW i \in DOMAIN heap[c], NEW d, heap[c][i] = Ref(d)
  PROVE  d \in Made /\ d \in Below(c)
<1>1. heap[c] \in Seq(Elements)
  BY DEF HeapOK
<1>2. heap[c][i] \in Elements
  BY <1>1
<1>3. d \in Made
  BY <1>2, ElementIs, ValueFacts
<1>4. ASSUME NEW S \in SUBSET Made, Within({c} \cup S) \subseteq S
      PROVE  d \in S
  <2>1. d \in Within({c} \cup S)
    BY WithinIs
  <2> QED
    BY <1>4, <2>1
<1> QED
  BY <1>3, <1>4 DEF Below

LEMMA BelowFurther ==
  ASSUME HeapOK, NEW c \in Made, NEW e \in Below(c),
         NEW i \in DOMAIN heap[e], NEW d, heap[e][i] = Ref(d)
  PROVE  d \in Below(c)
<1>1. e \in Made
  BY DEF Below
<1>2. d \in Made
  BY <1>1, BelowElement
<1>3. ASSUME NEW S \in SUBSET Made, Within({c} \cup S) \subseteq S
      PROVE  d \in S
  <2>1. e \in S
    BY <1>3 DEF Below
  <2>2. d \in Within({c} \cup S)
    BY <2>1, WithinIs
  <2> QED
    BY <1>3, <2>2
<1> QED
  BY <1>2, <1>3 DEF Below
-----------------------------------------------------------------------------
(* What it is to be the same.                                              *)
LEMMA CellElements ==
  ASSUME HeapOK, NEW c \in Made
  PROVE  /\ Len(heap[c]) \in Nat /\ DOMAIN heap[c] = 1 .. Len(heap[c])
         /\ \A i \in DOMAIN heap[c] : heap[c][i] \in Elements
<1>1. heap[c] \in Seq(Elements)
  BY DEF HeapOK
<1> QED
  BY <1>1, LenProperties

LEMMA DescendsIs ==
  ASSUME HeapOK, NEW c \in Made, NEW d \in Made
  PROVE  Descends(Ref(c), Ref(d)) =>
           DOMAIN heap[c] = DOMAIN heap[d] /\ Len(heap[c]) = Len(heap[d])
<1>1. Ref(c)[2] = c /\ Ref(d)[2] = d
  BY ValueFacts
<1> QED
  BY <1>1, CellElements DEF Descends

LEMMA SameIs ==
  ASSUME NEW v, NEW w
  PROVE  /\ ~(IsRef(v) /\ IsRef(w)) => (Same(v, w) <=> SameScalar(v, w))
         /\ IsRef(v) /\ IsRef(w) =>
              (Same(v, w) <=> \E R \in SUBSET (Made \X Made) : Agrees(R) /\ <<v[2], w[2]>> \in R)
<1>1. Agrees({}) /\ {} \in SUBSET (Made \X Made)
  BY DEF Agrees
<1> QED
  BY <1>1 DEF Same, Matched

LEMMA SameCellsIs ==
  ASSUME NEW c, NEW d
  PROVE  SameCells(c, d) <=> \E R \in SUBSET (Made \X Made) : Agrees(R) /\ <<c, d>> \in R
<1>1. IsRef(Ref(c)) /\ IsRef(Ref(d)) /\ Ref(c)[2] = c /\ Ref(d)[2] = d
  BY ValueFacts
<1> QED
  BY <1>1, SameIs DEF SameCells

LEMMA MatchedIsSame ==
  ASSUME NEW R \in SUBSET (Made \X Made), Agrees(R), NEW v, NEW w, Matched(R, v, w)
  PROVE  Same(v, w)
BY DEF Same

(* Cells that are the same agree in all elements, and the converse.        *)
LEMMA SameElements ==
  ASSUME NEW c, NEW d, SameCells(c, d)
  PROVE  /\ c \in Made /\ d \in Made /\ Descends(Ref(c), Ref(d))
         /\ \A i \in DOMAIN heap[c] : Same(heap[c][i], heap[d][i])
<1>1. PICK R \in SUBSET (Made \X Made) : Agrees(R) /\ <<c, d>> \in R
  BY SameCellsIs
<1>2. c \in Made /\ d \in Made
  BY <1>1
<1> DEFINE p == <<c, d>>
<1>3. p \in R /\ p[1] = c /\ p[2] = d
  BY <1>1
<1> HIDE DEF p
<1>4. /\ Descends(Ref(c), Ref(d))
      /\ \A i \in DOMAIN heap[c] : Matched(R, heap[c][i], heap[d][i])
  BY <1>1, <1>3 DEF Agrees
<1> QED
  BY <1>1, <1>2, <1>4, MatchedIsSame

LEMMA ElementsSame ==
  ASSUME NEW c \in Made, NEW d \in Made, Descends(Ref(c), Ref(d)),
         \A i \in DOMAIN heap[c] : Same(heap[c][i], heap[d][i])
  PROVE  SameCells(c, d)
<1> DEFINE A == {p \in Made \X Made : SameCells(p[1], p[2])}
           R == A \cup {<<c, d>>}
<1>1. R \in SUBSET (Made \X Made)
  OBVIOUS
<1>2. ASSUME NEW v, NEW w, Same(v, w)
      PROVE  Matched(R, v, w)
  <2>1. CASE IsRef(v) /\ IsRef(w)
    <3>1. PICK Q \in SUBSET (Made \X Made) : Agrees(Q) /\ <<v[2], w[2]>> \in Q
      BY <1>2, <2>1, SameIs
    <3>2. SameCells(v[2], w[2])
      BY <3>1, SameCellsIs
    <3>3. <<v[2], w[2]>> \in Made \X Made
      BY <3>1
    <3> DEFINE q == <<v[2], w[2]>>
    <3>4. q \in Made \X Made /\ q[1] = v[2] /\ q[2] = w[2]
      BY <3>3
    <3> HIDE DEF q
    <3>5. q \in A
      BY <3>2, <3>4
    <3> QED
      BY <2>1, <3>5 DEF Matched, q
  <2>2. CASE ~(IsRef(v) /\ IsRef(w))
    BY <1>2, <2>2, SameIs DEF Matched
  <2> QED
    BY <2>1, <2>2
<1>3. ASSUME NEW p \in R
      PROVE  /\ Descends(Ref(p[1]), Ref(p[2]))
             /\ \A i \in DOMAIN heap[p[1]] : Same(heap[p[1]][i], heap[p[2]][i])
  <2>1. CASE p \in A
    BY <2>1, SameElements
  <2>2. CASE p = <<c, d>>
    BY <2>2
  <2> QED
    BY <2>1, <2>2
<1> HIDE DEF R
<1>4. Agrees(R)
  BY <1>2, <1>3 DEF Agrees
<1>5. <<c, d>> \in R
  BY DEF R
<1> QED
  BY <1>1, <1>4, <1>5, SameCellsIs

LEMMA SameItself ==
  ASSUME HeapOK, NEW c \in Made
  PROVE  /\ SameCells(c, c)
         /\ \A i \in DOMAIN heap[c] : Same(heap[c][i], heap[c][i])
<1> DEFINE R == {p \in Made \X Made : p[1] = p[2]}
<1>1. R \in SUBSET (Made \X Made) /\ <<c, c>> \in R
  OBVIOUS
<1>2. ASSUME NEW p \in R
      PROVE  /\ Descends(Ref(p[1]), Ref(p[2]))
             /\ \A i \in DOMAIN heap[p[1]] : Matched(R, heap[p[1]][i], heap[p[2]][i])
  <2>1. p[1] \in Made /\ p[2] = p[1]
    OBVIOUS
  <2>2. Descends(Ref(p[1]), Ref(p[1]))
    BY ValueFacts DEF Descends
  <2>3. ASSUME NEW i \in DOMAIN heap[p[1]]
        PROVE  Matched(R, heap[p[1]][i], heap[p[1]][i])
    <3>1. heap[p[1]][i] \in Elements
      BY <2>1, CellElements
    <3>2. IsRef(heap[p[1]][i]) => heap[p[1]][i][2] \in Made
      BY <3>1, ElementIs
    <3> QED
      BY <3>2 DEF Matched, SameScalar
  <2> QED
    BY <2>1, <2>2, <2>3
<1>3. Agrees(R)
  BY <1>2 DEF Agrees
<1> HIDE DEF R
<1>4. SameCells(c, c)
  BY <1>1, <1>3, SameCellsIs
<1> QED
  BY <1>4, SameElements
-----------------------------------------------------------------------------
(* The operators on scalars.                                               *)
LEMMA OperandIs ==
  ASSUME NEW v \in Elements \cup Scalars
  PROVE  \/ IsRef(v) /\ v[1] = "cell" /\ v[2] \in Made /\ v = Ref(v[2]) /\ v \in Refs
         \/ /\ ~IsRef(v) /\ v[1] \in ScalarTypes /\ v[2] \in Int
            /\ v[1] = "int" => v[2] \in MinInt .. MaxInt
<1>1. CASE v \in Elements
  <2>1. CASE IsRef(v)
    BY <1>1, <2>1, ElementIs DEF IsRef, Refs
  <2>2. CASE v = Null \/ v = Truth(TRUE)
    BY <2>2 DEF Null, Truth, IsRef, ScalarTypes
  <2> QED
    BY <1>1, <2>1, <2>2, ElementIs
<1>2. CASE v \in Scalars
  BY <1>2, ScalarsAssumption DEF IsRef, ScalarTypes
<1> QED
  BY <1>1, <1>2

LEMMA WrapIs ==
  ASSUME NEW x \in MinInt .. MaxInt
  PROVE  Wrap(x) = x
BY BoundsAssumption DEF Wrap, MinInt, MaxInt
LEMMA WrapType ==
  ASSUME NEW x \in Int
  PROVE  Wrap(x) \in MinInt .. MaxInt
BY BoundsAssumption DEF Wrap, MinInt, MaxInt

LEMMA VerdictRight ==
  ASSUME NEW op \in Comparisons, NEW v \in Elements \cup Scalars,
         NEW w \in Elements \cup Scalars, NEW eq \in BOOLEAN, eq <=> Same(v, w),
         NEW t, t.op = op, t.a = v, t.b = w
  PROVE  /\ Comparable(t) => Verdict(t, eq) = Meaning(t)
         /\ Verdict(t, eq) \in Results /\ Verdict(t, eq) # Crash
<1>1. Verdict(t, eq) \in Results /\ Verdict(t, eq) # Crash
  <2>1. Verdict(t, eq) \in {Truth(TRUE), Truth(FALSE), Error}
    BY DEF Verdict, Truth
  <2> QED
    BY <2>1, ValueFacts
<1> SUFFICES ASSUME Comparable(t) PROVE Verdict(t, eq) = Meaning(t)
  BY <1>1
<1> DEFINE numbers == {v[1], w[1]} \subseteq Numbers
           texts == {v[1], w[1]} \subseteq Texts
<1>2. Meaning(t) = IF op = "==" THEN Truth(eq)
                   ELSE IF numbers \/ texts
                   THEN Truth(IF op = "<" THEN v[2] < w[2] ELSE v[2] <= w[2])
                   ELSE IF eq THEN Truth(op = "<=") ELSE Error
  BY DEF Meaning, Truth
<1>3. CASE op = "=="
  BY <1>2, <1>3 DEF Verdict
<1>4. ASSUME op # "==", numbers \/ texts
      PROVE  Verdict(t, eq) = Meaning(t)
  <2>1. ~IsRef(v) /\ ~IsRef(w)
    BY <1>4 DEF Numbers, Texts, IsRef
  <2>2. v[2] \in Int /\ w[2] \in Int
    BY <2>1, OperandIs
  <2>3. CASE eq
    <3>1. v[2] = w[2]
      <4>1. SameScalar(v, w)
        BY <2>1, <2>3, SameIs
      <4> QED
        BY <4>1 DEF SameScalar
    <3>2. Verdict(t, eq) = Truth(IF op = "<" THEN 0 < 0 ELSE 0 <= 0)
      BY <1>4, <2>3 DEF Verdict, Difference
    <3> QED
      BY <1>2, <1>4, <2>2, <3>1, <3>2
  <2>4. CASE ~eq
    <3>1. Difference(v, w, eq) = <<v[2] - w[2]>>
      <4>1. CASE v[1] = "int" /\ w[1] = "int"
        <5>1. v[2] - w[2] \in MinInt .. MaxInt
          BY <1>4, <4>1 DEF Comparable
        <5> QED
          BY <2>4, <4>1, <5>1, WrapIs DEF Difference
      <4>2. CASE ~(v[1] = "int" /\ w[1] = "int")
        BY <1>4, <2>4, <4>2 DEF Difference
      <4> QED
        BY <4>1, <4>2
    <3>2. Verdict(t, eq) = Truth(IF op = "<" THEN v[2] - w[2] < 0 ELSE v[2] - w[2] <= 0)
      <4>1. <<v[2] - w[2]>> # <<>> /\ <<v[2] - w[2]>>[1] = v[2] - w[2]
        OBVIOUS
      <4> QED
        BY <1>4, <3>1, <4>1 DEF Verdict
    <3>3. (v[2] - w[2] < 0 <=> v[2] < w[2]) /\ (v[2] - w[2] <= 0 <=> v[2] <= w[2])
      BY <2>2
    <3>4. Truth(v[2] - w[2] < 0) = Truth(v[2] < w[2])
          /\ Truth(v[2] - w[2] <= 0) = Truth(v[2] <= w[2])
      BY <3>3 DEF Truth
    <3> QED
      BY <1>2, <1>4, <3>2, <3>4
  <2> QED
    BY <2>3, <2>4
<1>5. ASSUME op # "==", ~numbers, ~texts
      PROVE  Verdict(t, eq) = Meaning(t)
  <2>1. CASE eq
    <3>1. Verdict(t, eq) = Truth(IF op = "<" THEN 0 < 0 ELSE 0 <= 0)
      BY <1>5, <2>1 DEF Verdict, Difference
    <3>2. op = "<" \/ op = "<="
      BY <1>5 DEF Comparisons
    <3>3. Meaning(t) = Truth(op = "<=")
      BY <1>2, <1>5, <2>1
    <3>4. CASE op = "<"
      BY <3>1, <3>3, <3>4 DEF Truth
    <3>5. CASE op = "<="
      BY <3>1, <3>3, <3>5 DEF Truth
    <3> QED
      BY <3>2, <3>4, <3>5
  <2>2. CASE ~eq
    <3>1. Difference(v, w, eq) = <<>>
      BY <1>5, <2>2 DEF Difference, Numbers, Texts
    <3> QED
      BY <1>2, <1>5, <2>2, <3>1 DEF Verdict
  <2> QED
    BY <2>1, <2>2
<1> QED
  BY <1>3, <1>4, <1>5

(* Values of which one is no cell are the same when the code says so.      *)
LEMMA AlikeIsSame ==
  ASSUME NEW v \in Elements \cup Scalars, NEW w \in Elements \cup Scalars,
         ~IsRef(v) \/ ~IsRef(w)
  PROVE  ~IsRef(v) /\ Alike(v, w) <=> Same(v, w)
<1>1. Same(v, w) <=> SameScalar(v, w)
  BY SameIs
<1>2. CASE ~IsRef(v)
  BY <1>1, <1>2 DEF Alike, SameScalar, Texts
<1>3. CASE IsRef(v) /\ ~IsRef(w)
  BY <1>1, <1>3 DEF SameScalar, IsRef, Texts
<1> QED
  BY <1>2, <1>3

(* Division of C: the quotient towards zero, the remainder with the sign   *)
(* of the dividend.                                                        *)
LEMMA NatDivision ==
  ASSUME NEW a \in Nat, NEW b \in Nat \ {0}
  PROVE  /\ a \div b \in Nat /\ a % b \in Nat /\ a % b < b
         /\ a = (a \div b) * b + (a % b)
         /\ a \div b <= a /\ (b > 1 /\ a > 0 => a \div b < a)
<1>1. /\ a \div b \in Nat /\ a % b \in Nat /\ a % b < b
      /\ a = (a \div b) * b + (a % b)
  OBVIOUS
<1>2. ASSUME NEW q \in Nat, NEW r \in Nat, a = q * b + r
      PROVE  q <= a /\ (b > 1 /\ a > 0 => q < a)
  <2>1. q * b = q + q * (b - 1) /\ q * (b - 1) >= 0
    OBVIOUS
  <2>2. b > 1 => q * (b - 1) >= q
    OBVIOUS
  <2> QED
    BY <1>2, <2>1, <2>2
<1> QED
  BY <1>1, <1>2

LEMMA DivisionIs ==
  ASSUME NEW x \in Int, NEW y \in Int, y # 0,
         NEW q, q = Quotient(x, y), NEW r, r = Remainder(x, y)
  PROVE  /\ q \in Int /\ r \in Int /\ q * y + r = x
         /\ Abs(r) < Abs(y) /\ r * x >= 0
         /\ x \in MinInt .. MaxInt /\ ~Traps(x, y) => q \in MinInt .. MaxInt
<1> DEFINE a == Abs(x)
           b == Abs(y)
           m == a \div b
           k == a % b
<1>1. a \in Nat /\ b \in Nat \ {0}
  BY DEF Abs
<1>2. a = (IF x < 0 THEN -x ELSE x) /\ b = (IF y < 0 THEN -y ELSE y)
  BY DEF Abs
<1>3. /\ m \in Nat /\ k \in Nat /\ k < b /\ a = m * b + k
      /\ m <= a /\ (b > 1 /\ a > 0 => m < a)
  <2> HIDE DEF a, b
  <2> QED
    BY <1>1, NatDivision
<1>4. q = (IF (x < 0) = (y < 0) THEN m ELSE -m) /\ r = (IF x < 0 THEN -k ELSE k)
  BY DEF Quotient, Remainder
<1> HIDE DEF a, b, m, k
<1>5. q \in Int /\ r \in Int
  BY <1>3, <1>4
<1>6. q * y + r = x
  <2>1. CASE x < 0 /\ y < 0
    BY <1>1, <1>2, <1>3, <1>4, <2>1
  <2>2. CASE x < 0 /\ ~(y < 0)
    BY <1>1, <1>2, <1>3, <1>4, <2>2
  <2>3. CASE ~(x < 0) /\ y < 0
    BY <1>1, <1>2, <1>3, <1>4, <2>3
  <2>4. CASE ~(x < 0) /\ ~(y < 0)
    BY <1>1, <1>2, <1>3, <1>4, <2>4
  <2> QED
    BY <2>1, <2>2, <2>3, <2>4
<1>7. Abs(r) < Abs(y) /\ r * x >= 0
  <2>1. Abs(r) = k
    BY <1>3, <1>4 DEF Abs
  <2>2. Abs(y) = b
    BY DEF b
  <2>3. CASE x < 0
    <3>1. r * x = k * a
      BY <1>2, <1>3, <1>4, <2>3
    <3>2. k * a >= 0
      BY <1>1, <1>3
    <3> QED
      BY <1>3, <2>1, <2>2, <3>1, <3>2
  <2>4. CASE ~(x < 0)
    <3>1. r * x = k * a
      BY <1>2, <1>3, <1>4, <2>4
    <3>2. k * a >= 0
      BY <1>1, <1>3
    <3> QED
      BY <1>3, <2>1, <2>2, <3>1, <3>2
  <2> QED
    BY <2>3, <2>4
<1>8. ASSUME x \in MinInt .. MaxInt, ~Traps(x, y)
      PROVE  q \in MinInt .. MaxInt
  <2>1. a <= Half /\ Half \in Nat /\ Half > 0 /\ MinInt = -Half /\ MaxInt = Half - 1
    BY <1>2, <1>8, BoundsAssumption DEF MinInt, MaxInt
  <2>2. CASE m < Half
    BY <1>3, <1>4, <2>1, <2>2
  <2>3. CASE ~(m < Half)
    <3>1. m = Half /\ a = Half
      BY <1>1, <1>3, <2>1, <2>3
    <3>2. b = 1
      BY <1>1, <1>3, <2>1, <3>1
    <3>3. x = MinInt
      BY <1>2, <1>8, <2>1, <3>1
    <3>4. y = 1
      BY <1>2, <1>8, <3>2, <3>3 DEF Traps
    <3>5. q = -m
      BY <1>4, <2>1, <3>3, <3>4
    <3> QED
      BY <2>1, <3>1, <3>5
  <2> QED
    BY <2>2, <2>3
<1> QED
  BY <1>5, <1>6, <1>7, <1>8

LEMMA CheckedIs ==
  ASSUME NEW x \in Int
  PROVE  Checked(x) \in Results /\ Checked(x) # Crash
         /\ (Checked(x) # Error => Checked(x) = <<"int", x>>)
<1>1. <<"int", x>> \in Results /\ <<"int", x>> # Crash
  BY DEF Results, ScalarTypes, Crash
<1> QED
  BY <1>1, ValueFacts DEF Checked

OperatorResult(op, v, w) ==
  CASE op = "neg" -> Negation(v) [] op = "not" -> Truth(~Truthy(v))
    [] OTHER -> Arithmetic(op, v, w)

LEMMA ArithmeticIs ==
  ASSUME NEW op \in {"+", "-", "*", "/", "%"}, NEW v \in Scalars, NEW w \in Scalars
  PROVE  LET z == Arithmetic(op, v, w) IN
         z \in Results /\ (z = Crash => op \in {"/", "%"} /\ Traps(v[2], w[2]))
<1> DEFINE z == Arithmetic(op, v, w)
<1>1. v[2] \in Int /\ w[2] \in Int
  BY ScalarsAssumption
<1>2. CASE v[1] \notin Numbers \/ w[1] \notin Numbers
  <2>1. z = Error
    BY <1>2 DEF Arithmetic
  <2> QED
    BY <2>1, ValueFacts
<1>3. ASSUME v[1] \in Numbers, w[1] \in Numbers, op \in {"/", "%"}
      PROVE  z \in Results /\ (z = Crash => op \in {"/", "%"} /\ Traps(v[2], w[2]))
  <2>1. CASE ~(v[1] = "int" /\ w[1] = "int")
    <3>1. z = Error
      BY <1>3, <2>1 DEF Arithmetic
    <3> QED
      BY <3>1, ValueFacts
  <2>2. CASE v[1] = "int" /\ w[1] = "int" /\ Traps(v[2], w[2])
    <3>1. z = Crash
      BY <1>3, <2>2 DEF Arithmetic
    <3> QED
      BY <1>3, <2>2, <3>1, ValueFacts
  <2>3. CASE v[1] = "int" /\ w[1] = "int" /\ ~Traps(v[2], w[2])
    <3>1. z = <<"int", IF op = "/" THEN Quotient(v[2], w[2]) ELSE Remainder(v[2], w[2])>>
      BY <1>3, <2>3 DEF Arithmetic
    <3>2. w[2] # 0
      BY <2>3 DEF Traps
    <3>3. Quotient(v[2], w[2]) \in Int /\ Remainder(v[2], w[2]) \in Int
      BY <1>1, <3>2, DivisionIs
    <3> QED
      BY <3>1, <3>3 DEF Results, ScalarTypes, Crash
  <2> QED
    BY <2>1, <2>2, <2>3
<1>4. ASSUME v[1] \in Numbers, w[1] \in Numbers, op \notin {"/", "%"}
      PROVE  z \in Results /\ z # Crash
  <2>1. PICK x \in Int : x = (IF op = "+" THEN v[2] + w[2] ELSE IF op = "-" THEN v[2] - w[2]
                                ELSE v[2] * w[2])
    BY <1>1
  <2>2. z = IF v[1] = "int" /\ w[1] = "int" THEN Checked(x) ELSE <<"double", x>>
    BY <1>4, <2>1 DEF Arithmetic
  <2>3. <<"double", x>> \in Results /\ <<"double", x>> # Crash
    BY DEF Results, ScalarTypes, Crash
  <2> QED
    BY <2>2, <2>3, CheckedIs
<1> QED
  BY <1>2, <1>3, <1>4

LEMMA OperatorIs ==
  ASSUME NEW op \in Operators, NEW v \in Scalars, NEW w \in Scalars,
         NEW z, z = OperatorResult(op, v, w)
  PROVE  z \in Results /\ (z = Crash => op \in {"/", "%"} /\ Traps(v[2], w[2]))
<1>1. v[2] \in Int
  BY ScalarsAssumption
<1>2. CASE op = "neg"
  <2>1. z = Negation(v)
    BY <1>2 DEF OperatorResult
  <2>2. -v[2] \in Int /\ Wrap(-v[2]) \in Int
    BY <1>1, WrapType, BoundsAssumption DEF MinInt, MaxInt
  <2>3. z \in {<<"int", Wrap(-v[2])>>, <<"double", -v[2]>>, Error}
    BY <2>1 DEF Negation
  <2>4. <<"int", Wrap(-v[2])>> \in Results /\ <<"double", -v[2]>> \in Results
    BY <2>2 DEF Results, ScalarTypes
  <2>5. <<"int", Wrap(-v[2])>> # Crash /\ <<"double", -v[2]>> # Crash
    BY DEF Crash
  <2> QED
    BY <2>3, <2>4, <2>5, ValueFacts
<1>3. CASE op = "not"
  <2>1. z = Truth(TRUE) \/ z = Truth(FALSE)
    BY <1>3 DEF OperatorResult, Truth
  <2> QED
    BY <2>1, ValueFacts
<1>4. CASE op \in {"+", "-", "*", "/", "%"}
  <2>1. z = Arithmetic(op, v, w)
    BY <1>4 DEF OperatorResult
  <2> QED
    BY <1>4, <2>1, ArithmeticIs
<1> QED
  BY <1>2, <1>3, <1>4 DEF Operators

(* What the code makes of two integers is exact.                           *)
LEMMA OperatorExact ==
  ASSUME NEW op \in Operators, NEW v \in Scalars, NEW w \in Scalars,
         v[1] = "int", w[1] = "int",
         NEW z, z = OperatorResult(op, v, w), z # Crash
  PROVE  LET x == v[2]
             y == w[2]
             Is(exact) == z = IF exact \in MinInt .. MaxInt THEN <<"int", exact>> ELSE Error
         IN  /\ op = "+" => Is(x + y)
             /\ op = "-" => Is(x - y)
             /\ op = "*" => Is(x * y)
             /\ op = "neg" => x = MinInt \/ Is(-x)
             /\ op = "/" => Abs(x - z[2] * y) < Abs(y) /\ (x - z[2] * y) * x >= 0
             /\ op = "%" => Abs(z[2]) < Abs(y) /\ z[2] * x >= 0
                            /\ \E q \in MinInt .. MaxInt : q * y + z[2] = x
<1> DEFINE x == v[2]
           y == w[2]
           Is(exact) == z = IF exact \in MinInt .. MaxInt THEN <<"int", exact>> ELSE Error
<1>1. x \in MinInt .. MaxInt /\ y \in Int /\ x \in Int
  BY ScalarsAssumption, BoundsAssumption DEF MinInt, MaxInt
<1>2. v[1] \in Numbers /\ w[1] \in Numbers
  BY DEF Numbers
<1>3. ASSUME op \in {"+", "-", "*"}
      PROVE  z = Checked(IF op = "+" THEN x + y ELSE IF op = "-" THEN x - y ELSE x * y)
  BY <1>2, <1>3 DEF OperatorResult, Arithmetic
<1>4. op = "+" => Is(x + y)
  BY <1>3 DEF Checked
<1>5. op = "-" => Is(x - y)
  BY <1>3 DEF Checked
<1>6. op = "*" => Is(x * y)
  BY <1>3 DEF Checked
<1>7. ASSUME op = "neg", x # MinInt
      PROVE  Is(-x)
  <2>1. -x \in MinInt .. MaxInt
    BY <1>1, <1>7, BoundsAssumption DEF MinInt, MaxInt
  <2>2. z = <<"int", Wrap(-x)>>
    BY <1>7 DEF OperatorResult, Negation
  <2> QED
    BY <2>1, <2>2, WrapIs
<1>8. ASSUME op \in {"/", "%"}
      PROVE  /\ ~Traps(x, y)
             /\ z = <<"int", IF op = "/" THEN Quotient(x, y) ELSE Remainder(x, y)>>
  <2>1. z = Arithmetic(op, v, w)
    BY <1>8 DEF OperatorResult
  <2>2. ~Traps(x, y)
    BY <1>2, <1>8, <2>1 DEF Arithmetic
  <2> QED
    BY <1>2, <1>8, <2>1, <2>2 DEF Arithmetic
<1>9. ASSUME op = "/"
      PROVE  Abs(x - z[2] * y) < Abs(y) /\ (x - z[2] * y) * x >= 0
  <2>1. z[2] = Quotient(x, y) /\ y # 0
    BY <1>8, <1>9 DEF Traps
  <2>2. /\ Quotient(x, y) * y + Remainder(x, y) = x
        /\ Quotient(x, y) \in Int /\ Remainder(x, y) \in Int
        /\ Abs(Remainder(x, y)) < Abs(y) /\ Remainder(x, y) * x >= 0
    <3> HIDE DEF x, y
    <3> QED
      BY <1>1, <2>1, DivisionIs
  <2>3. x - z[2] * y = Remainder(x, y)
    BY <1>1, <2>1, <2>2
  <2> QED
    BY <2>2, <2>3
<1>10. ASSUME op = "%"
       PROVE  Abs(z[2]) < Abs(y) /\ z[2] * x >= 0
              /\ \E q \in MinInt .. MaxInt : q * y + z[2] = x
  <2>1. z[2] = Remainder(x, y) /\ y # 0 /\ ~Traps(x, y)
    BY <1>8, <1>10 DEF Traps
  <2>2. /\ Quotient(x, y) * y + Remainder(x, y) = x
        /\ Quotient(x, y) \in MinInt .. MaxInt
        /\ Abs(Remainder(x, y)) < Abs(y) /\ Remainder(x, y) * x >= 0
    <3> HIDE DEF x, y
    <3> QED
      BY <1>1, <2>1, DivisionIs
  <2> QED
    BY <2>1, <2>2
<1> QED
  BY <1>4, <1>5, <1>6, <1>7, <1>9, <1>10
-----------------------------------------------------------------------------
(* A step that leaves the heap alone.                                      *)
LEMMA StaysHeap ==
  ASSUME heap' = heap
  PROVE  /\ Made' = Made /\ Elements' = Elements /\ (HeapOK => HeapOK')
         /\ \A c : Below(c)' = Below(c) /\ (Cyclic(c) <=> Cyclic(c)')
         /\ \A v, w : (Same(v, w)' <=> Same(v, w)) /\ (Descends(v, w)' <=> Descends(v, w))
<1>1. Made' = Made
  BY DEF Made
<1>2. Elements' = Elements
  BY <1>1 DEF Elements, Refs
<1>3. HeapOK => HeapOK'
  BY <1>1, <1>2 DEF HeapOK
<1>4. \A c : Below(c)' = Below(c)
  BY <1>1 DEF Below, Within
<1>5. \A c : Cyclic(c) <=> Cyclic(c)'
  BY <1>4 DEF Cyclic
<1>6. \A v, w : Descends(v, w)' <=> Descends(v, w)
  BY DEF Descends
<1>7. \A v, w : Same(v, w)' <=> Same(v, w)
  BY <1>1 DEF Same, Agrees, Matched, Descends
<1> QED
  BY <1>1, <1>2, <1>3, <1>4, <1>5, <1>6, <1>7

LEMMA StaysDots == heap' = heap /\ DotsOK(out') => DotsOK(out)'
<1> SUFFICES ASSUME heap' = heap, DotsOK(out') PROVE DotsOK(out)'
  OBVIOUS
<1>1. \A c : Below(c)' = Below(c)
  BY StaysHeap
<1> QED
  BY <1>1 DEF DotsOK

LEMMA StaysPath == heap' = heap /\ PathOK(work', task') => PathOK(work, task)'
<1> SUFFICES ASSUME heap' = heap, PathOK(work', task') PROVE PathOK(work, task)'
  OBVIOUS
<1>1. Made' = Made /\ \A c : Below(c)' = Below(c)
  BY StaysHeap
<1>2. Visiting' = Visiting
  BY <1>1 DEF Visiting
<1> QED
  BY <1>1, <1>2 DEF PathOK, Follows

LEMMA StaysComparing == heap' = heap /\ ComparesOK(work', task') => ComparesOK(work, task)'
<1> SUFFICES ASSUME heap' = heap, ComparesOK(work', task') PROVE ComparesOK(work, task)'
  OBVIOUS
<1>1. \A v, w : (Same(v, w)' <=> Same(v, w)) /\ (Descends(v, w)' <=> Descends(v, w))
  BY StaysHeap
<1> QED
  BY <1>1 DEF ComparesOK, SameCells, Seen

LEMMA StaysPrinting ==
  heap' = heap /\ PrintsOK(work', repr', out', task') => PrintsOK(work, repr, out, task)'
BY StaysHeap DEF PrintsOK, Opened

(* The C calls go on, or they have come to an answer.                      *)
LEMMA Goes ==
  ASSUME IInv, heap' = heap, answer' = None, Len(work') <= CStack, DotsOK(out'),
         PathOK(work', task'),
         \/ repr' = <<>> /\ ComparesOK(work', task')
         \/ PrintsOK(work', repr', out', task')
  PROVE  IInv'
<1>1. HeapOK' /\ DotsOK(out)' /\ PathOK(work, task)'
  BY StaysHeap, StaysDots, StaysPath DEF IInv
<1>2. \/ repr' = <<>> /\ ComparesOK(work, task)'
      \/ PrintsOK(work, repr, out, task)'
  BY StaysComparing, StaysPrinting
<1>3. Going'
  BY <1>1, <1>2 DEF Going
<1>4. None # Crash
  BY ValueFacts
<1>5. StackSuffices'
  BY <1>4 DEF StackSuffices
<1>6. task'.op \notin Operators
  BY DEF ComparesOK, PrintsOK, Comparisons, Operators
<1>7. OperatorsRight'
  BY <1>6 DEF OperatorsRight, ComparesRight, ArithmeticExact
<1> QED
  BY <1>1, <1>3, <1>5, <1>7 DEF IInv

LEMMA Ends ==
  ASSUME IInv, heap' = heap, answer' \in Results, Len(work') <= CStack, DotsOK(out'),
         answer' # Crash => work' = <<>> /\ repr' = <<>>,
         StackSuffices', OperatorsRight'
  PROVE  IInv'
<1>1. HeapOK' /\ DotsOK(out)'
  BY StaysHeap, StaysDots DEF IInv
<1>2. Done'
  BY ValueFacts DEF Done
<1> QED
  BY <1>1, <1>2 DEF IInv

LEMMA ReadyFacts ==
  ASSUME IInv, Ready
  PROVE  /\ HeapOK /\ DotsOK(out) /\ work = <<>> /\ repr = <<>> /\ Len(work) <= CStack
         /\ answer # None /\ answer # Crash
BY DEF IInv, Ready, Idle, Going, Done

LEMMA OperateKeeps ==
  ASSUME IInv, NEW op \in Operators, NEW v \in Scalars, NEW w \in Scalars, Operate(op, v, w)
  PROVE  IInv'
<1> DEFINE z == OperatorResult(op, v, w)
<1>1. heap' = heap /\ work' = work /\ repr' = repr /\ out' = out /\ answer' = z
      /\ task' = [op |-> op, a |-> v, b |-> w]
  BY DEF Operate, OperatorResult
<1>2. DotsOK(out') /\ work' = <<>> /\ repr' = <<>> /\ Len(work') <= CStack
  BY <1>1, ReadyFacts DEF Operate
<1>3. task'.op = op /\ task'.a = v /\ task'.b = w
  BY <1>1
<1>4. z \in Results /\ (z = Crash => op \in {"/", "%"} /\ Traps(v[2], w[2]))
  BY OperatorIs
<1>5. StackSuffices'
  BY <1>1, <1>3, <1>4 DEF StackSuffices
<1>6. ComparesRight'
  BY <1>3 DEF ComparesRight, Comparisons, Operators
<1>7. ArithmeticExact'
  <2> SUFFICES ASSUME z # Crash, v[1] = "int", w[1] = "int"
               PROVE  ArithmeticExact'
    BY <1>1, <1>3 DEF ArithmeticExact
  <2>1. LET x == v[2]
            y == w[2]
            Is(exact) == z = IF exact \in MinInt .. MaxInt THEN <<"int", exact>> ELSE Error
        IN  /\ op = "+" => Is(x + y)
            /\ op = "-" => Is(x - y)
            /\ op = "*" => Is(x * y)
            /\ op = "neg" => x = MinInt \/ Is(-x)
            /\ op = "/" => Abs(x - z[2] * y) < Abs(y) /\ (x - z[2] * y) * x >= 0
            /\ op = "%" => Abs(z[2]) < Abs(y) /\ z[2] * x >= 0
                           /\ \E q \in MinInt .. MaxInt : q * y + z[2] = x
    BY OperatorExact
  <2> HIDE DEF z
  <2> QED
    BY <1>1, <1>3, <2>1 DEF ArithmeticExact
<1> QED
  BY <1>1, <1>2, <1>4, <1>5, <1>6, <1>7, Ends DEF OperatorsRight
-----------------------------------------------------------------------------
(* The chain of C calls.                                                   *)
Next1(wk) == Append(Front(wk), [Last(wk) EXCEPT !.i = @ + 1])

LEMMA ChainFacts ==
  ASSUME NEW wk \in Seq(Visiting), wk # <<>>, NEW n, n = Len(wk)
  PROVE  /\ n \in Nat /\ n >= 1 /\ DOMAIN wk = 1 .. n /\ Last(wk) = wk[n]
         /\ \A k \in 1 .. n : wk[k] \in Visiting
         /\ wk[n].a \in Made /\ wk[n].b \in Made /\ wk[n].i \in Nat /\ wk[n].i >= 1
<1>1. n \in Nat /\ n >= 1 /\ DOMAIN wk = 1 .. n /\ Last(wk) = wk[n]
  BY EmptySeq, LenProperties DEF Last
<1>2. \A k \in 1 .. n : wk[k] \in Visiting
  BY <1>1
<1> QED
  BY <1>1, <1>2 DEF Visiting

LEMMA Advancing ==
  ASSUME NEW wk \in Seq(Visiting), wk # <<>>, NEW n, n = Len(wk), NEW p, p = Next1(wk)
  PROVE  /\ p \in Seq(Visiting) /\ Len(p) = n /\ p # <<>>
         /\ \A k \in 1 .. n : p[k].a = wk[k].a /\ p[k].b = wk[k].b
         /\ \A k \in 1 .. n : k # n => p[k] = wk[k]
         /\ p[n].i = wk[n].i + 1
<1>1. /\ n \in Nat /\ n >= 1 /\ Last(wk) = wk[n] /\ wk[n] \in Visiting
      /\ wk[n].i \in Nat /\ wk[n].i >= 1
  BY ChainFacts
<1> DEFINE g == [wk[n] EXCEPT !.i = wk[n].i + 1]
           h == Front(wk)
<1>2. g \in Visiting /\ g.a = wk[n].a /\ g.b = wk[n].b /\ g.i = wk[n].i + 1
  BY <1>1 DEF Visiting
<1>3. /\ h \in Seq(Visiting) /\ Len(h) = n - 1
      /\ \A k \in 1 .. n - 1 : h[k] = wk[k]
  BY <1>1 DEF Front
<1>4. p = Append(h, g)
  BY <1>1 DEF Next1
<1> HIDE DEF g, h
<1>5. /\ p \in Seq(Visiting) /\ Len(p) = n /\ p[n] = g
      /\ \A k \in 1 .. n - 1 : p[k] = h[k]
  BY <1>1, <1>2, <1>3, <1>4, AppendProperties
<1>6. p # <<>>
  BY <1>1, <1>5, EmptySeq
<1> QED
  BY <1>1, <1>2, <1>3, <1>5, <1>6

LEMMA Calling ==
  ASSUME NEW wk \in Seq(Visiting), NEW g \in Visiting, NEW p, p = Append(wk, g)
  PROVE  /\ p \in Seq(Visiting) /\ Len(p) = Len(wk) + 1 /\ Len(wk) \in Nat /\ p # <<>>
         /\ p[Len(wk) + 1] = g /\ \A k \in 1 .. Len(wk) : p[k] = wk[k]
<1>1. Len(wk) \in Nat
  BY LenProperties
<1>2. /\ p \in Seq(Visiting) /\ Len(p) = Len(wk) + 1
      /\ p[Len(wk) + 1] = g /\ \A k \in 1 .. Len(wk) : p[k] = wk[k]
  BY <1>1, AppendProperties
<1>3. p # <<>>
  BY <1>1, <1>2, EmptySeq
<1> QED
  BY <1>1, <1>2, <1>3

LEMMA Ending ==
  ASSUME NEW wk \in Seq(Visiting), wk # <<>>, NEW n, n = Len(wk), n > 1, NEW p, p = Front(wk)
  PROVE  /\ n \in Nat /\ p \in Seq(Visiting) /\ Len(p) = n - 1 /\ p # <<>>
         /\ \A k \in 1 .. n - 1 : p[k] = wk[k]
<1>1. n \in Nat
  BY ChainFacts
<1>2. /\ p \in Seq(Visiting) /\ Len(p) = n - 1
      /\ \A k \in 1 .. n - 1 : p[k] = wk[k]
  BY <1>1 DEF Front
<1>3. p # <<>>
  BY <1>1, <1>2, EmptySeq
<1> QED
  BY <1>1, <1>2, <1>3

LEMMA PathAdvances ==
  ASSUME NEW wk, NEW t, PathOK(wk, t), NEW p, p = Next1(wk)
  PROVE  PathOK(p, t)
<1> DEFINE n == Len(wk)
<1>1. wk \in Seq(Visiting) /\ wk # <<>>
  BY DEF PathOK
<1>2. n \in Nat /\ n >= 1
  BY <1>1, ChainFacts
<1>3. /\ p \in Seq(Visiting) /\ Len(p) = n /\ p # <<>>
      /\ \A k \in 1 .. n : p[k].a = wk[k].a /\ p[k].b = wk[k].b
      /\ \A k \in 1 .. n : k # n => p[k] = wk[k]
  BY <1>1, Advancing
<1>4. t.a = Ref(p[1].a) /\ t.b = Ref(p[1].b)
  BY <1>2, <1>3 DEF PathOK
<1>5. ASSUME NEW k \in 1 .. n - 1
      PROVE  /\ Follows(p[k].a, p[k].i - 1, p[k + 1].a)
             /\ Follows(p[k].b, p[k].i - 1, p[k + 1].b)
  <2>1. k \in 1 .. n /\ k + 1 \in 1 .. n /\ k # n
    BY <1>2
  <2>2. p[k] = wk[k] /\ p[k + 1].a = wk[k + 1].a /\ p[k + 1].b = wk[k + 1].b
    BY <1>3, <2>1
  <2> QED
    BY <2>2 DEF PathOK
<1>6. ASSUME NEW j \in 1 .. n, NEW k \in 1 .. n, j < k
      PROVE  p[k].a \in Below(p[j].a) /\ p[k].b \in Below(p[j].b)
  BY <1>3, <1>6 DEF PathOK
<1> QED
  BY <1>3, <1>4, <1>5, <1>6 DEF PathOK

LEMMA PathDescends ==
  ASSUME HeapOK, NEW wk, NEW t, PathOK(wk, t), NEW n, n = Len(wk), NEW c, NEW d,
         Follows(wk[n].a, wk[n].i, c), Follows(wk[n].b, wk[n].i, d),
         NEW p, p = Append(Next1(wk), [a |-> c, b |-> d, i |-> 1])
  PROVE  PathOK(p, t) /\ c \in Made /\ d \in Made
<1> DEFINE q == Next1(wk)
           g == [a |-> c, b |-> d, i |-> 1]
<1>1. wk \in Seq(Visiting) /\ wk # <<>>
  BY DEF PathOK
<1>2. /\ n \in Nat /\ n >= 1 /\ wk[n].i \in Nat /\ wk[n].a \in Made /\ wk[n].b \in Made
      /\ \A k \in 1 .. n : wk[k].a \in Made /\ wk[k].b \in Made
  BY <1>1, ChainFacts DEF Visiting
<1>3. /\ q \in Seq(Visiting) /\ Len(q) = n
      /\ \A k \in 1 .. n : q[k].a = wk[k].a /\ q[k].b = wk[k].b
      /\ q[n].i = wk[n].i + 1
  BY <1>1, Advancing
<1>4. PathOK(q, t)
  BY PathAdvances
<1>5. c \in Below(wk[n].a) /\ d \in Below(wk[n].b) /\ c \in Made /\ d \in Made
  BY <1>2, BelowElement DEF Follows
<1>6. g \in Visiting /\ g.a = c /\ g.b = d
  BY <1>5 DEF Visiting
<1> HIDE DEF g, q
<1>7. /\ p \in Seq(Visiting) /\ Len(p) = n + 1 /\ p # <<>>
      /\ p[n + 1] = g /\ \A k \in 1 .. n : p[k] = q[k]
  <2>1. p = Append(q, g)
    BY DEF g, q
  <2>2. /\ p \in Seq(Visiting) /\ Len(p) = Len(q) + 1 /\ p # <<>>
        /\ p[Len(q) + 1] = g /\ \A k \in 1 .. Len(q) : p[k] = q[k]
    <3>1. q \in Seq(Visiting) /\ g \in Visiting
      BY <1>3, <1>6
    <3>2. \A w \in Seq(Visiting), h \in Visiting : \A r : r = Append(w, h) =>
            /\ r \in Seq(Visiting) /\ Len(r) = Len(w) + 1 /\ r # <<>>
            /\ r[Len(w) + 1] = h /\ \A k \in 1 .. Len(w) : r[k] = w[k]
      BY Calling
    <3>3. p \in Seq(Visiting)
      BY <2>1, <3>1, <3>2
    <3>4. Len(p) = Len(q) + 1
      BY <2>1, <3>1, <3>2
    <3>5. p # <<>>
      BY <1>2, <1>3, <3>4, EmptySeq
    <3>6. p[Len(q) + 1] = g
      BY <2>1, <3>1, <3>2
    <3>7. \A k \in 1 .. Len(q) : p[k] = q[k]
      BY <2>1, <3>1, <3>2
    <3> QED
      BY <3>3, <3>4, <3>5, <3>6, <3>7
  <2> QED
    BY <1>3, <2>2
<1>8. t.a = Ref(p[1].a) /\ t.b = Ref(p[1].b)
  BY <1>2, <1>4, <1>7 DEF PathOK
<1>9. ASSUME NEW k \in 1 .. n
      PROVE  /\ Follows(p[k].a, p[k].i - 1, p[k + 1].a)
             /\ Follows(p[k].b, p[k].i - 1, p[k + 1].b)
  <2>1. CASE k = n
    <3>1. p[k].a = wk[n].a /\ p[k].b = wk[n].b /\ p[k].i - 1 = wk[n].i
      BY <1>2, <1>3, <1>7, <2>1
    <3>2. p[k + 1].a = c /\ p[k + 1].b = d
      BY <1>6, <1>7, <2>1
    <3> QED
      BY <3>1, <3>2
  <2>2. CASE k # n
    <3>1. k \in 1 .. n - 1 /\ k + 1 \in 1 .. n
      BY <1>2, <2>2
    <3>2. p[k] = q[k] /\ p[k + 1] = q[k + 1]
      BY <1>7, <3>1
    <3> QED
      BY <1>3, <1>4, <3>1, <3>2 DEF PathOK
  <2> QED
    BY <2>1, <2>2
<1>10. ASSUME NEW j \in 1 .. n + 1, NEW k \in 1 .. n + 1, j < k
       PROVE  p[k].a \in Below(p[j].a) /\ p[k].b \in Below(p[j].b)
  <2>1. j \in 1 .. n /\ p[j].a = wk[j].a /\ p[j].b = wk[j].b
    BY <1>2, <1>3, <1>7, <1>10
  <2>2. CASE k \in 1 .. n
    <3>1. p[k].a = wk[k].a /\ p[k].b = wk[k].b
      BY <1>3, <1>7, <2>2
    <3> QED
      BY <1>10, <2>1, <2>2, <3>1 DEF PathOK
  <2>3. CASE k = n + 1 /\ j = n
    BY <1>5, <1>6, <1>7, <2>1, <2>3
  <2>4. CASE k = n + 1 /\ j # n
    <3>1. wk[n].a \in Below(wk[j].a) /\ wk[n].b \in Below(wk[j].b)
      BY <1>2, <2>1, <2>4 DEF PathOK
    <3>2. wk[j].a \in Made /\ wk[j].b \in Made
      BY <1>2, <2>1
    <3>3. c \in Below(wk[j].a) /\ d \in Below(wk[j].b)
      BY <3>1, <3>2, BelowFurther DEF Follows
    <3> QED
      BY <1>6, <1>7, <2>1, <2>4, <3>3
  <2>5. k \in 1 .. n \/ k = n + 1
    BY <1>2
  <2> QED
    BY <2>2, <2>3, <2>4, <2>5
<1> QED
  BY <1>2, <1>5, <1>7, <1>8, <1>9, <1>10 DEF PathOK

LEMMA PathReturns ==
  ASSUME NEW wk, NEW t, PathOK(wk, t), NEW n, n = Len(wk), n > 1, NEW p, p = Front(wk)
  PROVE  PathOK(p, t)
<1>1. wk \in Seq(Visiting) /\ wk # <<>>
  BY DEF PathOK
<1>2. n \in Nat /\ n >= 1
  BY <1>1, ChainFacts
<1>3. /\ p \in Seq(Visiting) /\ Len(p) = n - 1 /\ p # <<>>
      /\ \A k \in 1 .. n - 1 : p[k] = wk[k]
  BY <1>1, Ending
<1>4. t.a = Ref(p[1].a) /\ t.b = Ref(p[1].b)
  BY <1>2, <1>3 DEF PathOK
<1>5. ASSUME NEW k \in 1 .. Len(p) - 1
      PROVE  /\ Follows(p[k].a, p[k].i - 1, p[k + 1].a)
             /\ Follows(p[k].b, p[k].i - 1, p[k + 1].b)
  <2>1. k \in 1 .. n - 1 /\ p[k] = wk[k] /\ p[k + 1] = wk[k + 1]
    BY <1>2, <1>3
  <2> QED
    BY <2>1 DEF PathOK
<1>6. ASSUME NEW j \in 1 .. Len(p), NEW k \in 1 .. Len(p), j < k
      PROVE  p[k].a \in Below(p[j].a) /\ p[k].b \in Below(p[j].b)
  <2>1. j \in 1 .. n /\ k \in 1 .. n /\ p[k] = wk[k] /\ p[j] = wk[j]
    BY <1>2, <1>3
  <2> QED
    BY <1>6, <2>1 DEF PathOK
<1> QED
  BY <1>3, <1>4, <1>5, <1>6 DEF PathOK

(* Only a path through a cycle is longer than there are cells.             *)
LEMMA Repeats ==
  ASSUME IsFiniteSet(Made), NEW n \in Nat, n > Cardinality(Made), NEW f \in [1 .. n -> Made]
  PROVE  \E j, k \in 1 .. n : j < k /\ f[j] = f[k]
<1>1. IsFiniteSet(1 .. n) /\ Cardinality(1 .. n) = n
  BY FS_Interval
<1>2. PICK j, k \in 1 .. n : j # k /\ f[j] = f[k]
  BY <1>1, FS_PigeonHole, FS_CardinalityType
<1> QED
  BY <1>2

LEMMA LongPath ==
  ASSUME HeapOK, NEW wk, NEW t, PathOK(wk, t), Len(wk) > Cardinality(Made)
  PROVE  Cyclic(t.a[2]) /\ Cyclic(t.b[2])
<1> DEFINE n == Len(wk)
           f == [k \in 1 .. n |-> wk[k].a]
           g == [k \in 1 .. n |-> wk[k].b]
<1>1. wk \in Seq(Visiting) /\ wk # <<>>
  BY DEF PathOK
<1>2. n \in Nat /\ n >= 1 /\ \A k \in 1 .. n : wk[k].a \in Made /\ wk[k].b \in Made
  BY <1>1, ChainFacts DEF Visiting
<1>3. t.a[2] = wk[1].a /\ t.b[2] = wk[1].b
  BY ValueFacts DEF PathOK
<1>4. IsFiniteSet(Made)
  BY DEF HeapOK
<1>5. f \in [1 .. n -> Made] /\ g \in [1 .. n -> Made]
  BY <1>2
<1>6. PICK i, j \in 1 .. n : i < j /\ wk[i].a = wk[j].a
  <2>1. PICK i, j \in 1 .. n : i < j /\ f[i] = f[j]
    <3> HIDE DEF f
    <3> QED
      BY <1>2, <1>4, <1>5, Repeats
  <2> QED
    BY <2>1
<1>7. PICK k, l \in 1 .. n : k < l /\ wk[k].b = wk[l].b
  <2>1. PICK k, l \in 1 .. n : k < l /\ g[k] = g[l]
    <3> HIDE DEF g
    <3> QED
      BY <1>2, <1>4, <1>5, Repeats
  <2> QED
    BY <2>1
<1>8. wk[i].a \in Below(wk[i].a) /\ wk[k].b \in Below(wk[k].b)
  BY <1>6, <1>7 DEF PathOK
<1>9. wk[i].a \in {wk[1].a} \cup Below(wk[1].a) /\ wk[k].b \in {wk[1].b} \cup Below(wk[1].b)
  <2>1. i = 1 \/ (1 \in 1 .. n /\ 1 < i)
    BY <1>2
  <2>2. k = 1 \/ (1 \in 1 .. n /\ 1 < k)
    BY <1>2
  <2> QED
    BY <2>1, <2>2 DEF PathOK
<1> QED
  BY <1>3, <1>8, <1>9 DEF Cyclic
-----------------------------------------------------------------------------
(* Comparison.                                                             *)
LEMMA AnswersRight ==
  ASSUME IInv, heap' = heap, repr' = <<>>, out' = out, work' = <<>>,
         task'.op \in Comparisons, task'.a \in Elements \cup Scalars,
         task'.b \in Elements \cup Scalars, NEW eq \in BOOLEAN,
         eq <=> Same(task'.a, task'.b), answer' = Verdict(task', eq)
  PROVE  IInv'
<1> DEFINE t == task'
<1>1. /\ Comparable(t) => Verdict(t, eq) = Meaning(t)
      /\ Verdict(t, eq) \in Results /\ Verdict(t, eq) # Crash
  <2> HIDE DEF t
  <2>1. \A tt : tt.op \in Comparisons /\ tt.a \in Elements \cup Scalars
                /\ tt.b \in Elements \cup Scalars /\ (eq <=> Same(tt.a, tt.b)) =>
          /\ Comparable(tt) => Verdict(tt, eq) = Meaning(tt)
          /\ Verdict(tt, eq) \in Results /\ Verdict(tt, eq) # Crash
    BY VerdictRight
  <2>2. t.op \in Comparisons /\ t.a \in Elements \cup Scalars
        /\ t.b \in Elements \cup Scalars /\ (eq <=> Same(t.a, t.b))
    BY DEF t
  <2> QED
    BY <2>1, <2>2
<1>2. answer' \in Results /\ answer' # Crash
  BY <1>1
<1>3. \A v, w : Same(v, w)' <=> Same(v, w)
  BY StaysHeap
<1>4. (Meaning(task))' = Meaning(t)
  BY <1>3 DEF Meaning, Truth
<1>5. ComparesRight'
  BY <1>1, <1>4 DEF ComparesRight, Comparable
<1>6. ArithmeticExact'
  BY DEF ArithmeticExact, Comparisons, Operators
<1>7. StackSuffices'
  BY <1>2 DEF StackSuffices
<1>8. DotsOK(out') /\ Len(work') <= CStack
  <2>1. Len(work') = 0
    OBVIOUS
  <2> QED
    BY <2>1, BoundsAssumption DEF IInv
<1> QED
  BY <1>2, <1>5, <1>6, <1>7, <1>8, Ends DEF OperatorsRight

LEMMA ComparesAdvances ==
  ASSUME NEW wk, NEW t, PathOK(wk, t), ComparesOK(wk, t), NEW n, n = Len(wk),
         Same(heap[wk[n].a][wk[n].i], heap[wk[n].b][wk[n].i]), NEW p, p = Next1(wk)
  PROVE  ComparesOK(p, t)
<1>1. wk \in Seq(Visiting) /\ wk # <<>>
  BY DEF PathOK
<1>2. n \in Nat /\ n >= 1 /\ wk[n].i \in Nat /\ wk[n].i >= 1
  BY <1>1, ChainFacts
<1>3. /\ Len(p) = n
      /\ \A k \in 1 .. n : p[k].a = wk[k].a /\ p[k].b = wk[k].b
      /\ \A k \in 1 .. n : k # n => p[k] = wk[k]
      /\ p[n].i = wk[n].i + 1
  BY <1>1, Advancing
<1>4. ASSUME NEW k \in 1 .. n, NEW i \in 1 .. Seen(p, k), i \in DOMAIN heap[p[k].a]
      PROVE  Same(heap[p[k].a][i], heap[p[k].b][i])
  <2>1. CASE k = n
    <3>1. Seen(p, k) = wk[n].i /\ Seen(wk, n) = wk[n].i - 1
      BY <1>2, <1>3, <2>1 DEF Seen
    <3>2. CASE i = wk[n].i
      BY <1>2, <1>3, <2>1, <3>2
    <3>3. CASE i # wk[n].i
      <4>1. i \in 1 .. Seen(wk, n)
        BY <1>2, <3>1, <3>3
      <4>2. p[k].a = wk[n].a /\ p[k].b = wk[n].b /\ n \in 1 .. n
        BY <1>2, <1>3, <2>1
      <4> QED
        BY <1>4, <4>1, <4>2 DEF ComparesOK
    <3> QED
      BY <3>2, <3>3
  <2>2. CASE k # n
    <3>1. p[k] = wk[k]
      BY <1>3, <2>2
    <3>2. Seen(p, k) = Seen(wk, k)
      BY <1>3, <2>2, <3>1 DEF Seen
    <3> QED
      BY <1>4, <3>1, <3>2 DEF ComparesOK
  <2> QED
    BY <2>1, <2>2
<1>5. \A k \in 1 .. n : Descends(Ref(p[k].a), Ref(p[k].b))
  BY <1>3 DEF ComparesOK
<1>6. Same(t.a, t.b) => \A k \in 1 .. n : SameCells(p[k].a, p[k].b)
  BY <1>3 DEF ComparesOK
<1>7. t.op \in Comparisons
  BY DEF ComparesOK
<1> QED
  BY <1>3, <1>4, <1>5, <1>6, <1>7 DEF ComparesOK

LEMMA ComparesDescends ==
  ASSUME HeapOK, NEW wk, NEW t, PathOK(wk, t), ComparesOK(wk, t), NEW n, n = Len(wk),
         NEW c, NEW d, Follows(wk[n].a, wk[n].i, c), Follows(wk[n].b, wk[n].i, d),
         Descends(Ref(c), Ref(d)),
         NEW p, p = Append(Next1(wk), [a |-> c, b |-> d, i |-> 1])
  PROVE  ComparesOK(p, t)
<1> DEFINE q == Next1(wk)
           g == [a |-> c, b |-> d, i |-> 1]
<1>1. wk \in Seq(Visiting) /\ wk # <<>> /\ c \in Made /\ d \in Made
  BY PathDescends DEF PathOK
<1>2. n \in Nat /\ n >= 1 /\ wk[n].i \in Nat /\ wk[n].i >= 1
  BY <1>1, ChainFacts
<1>3. /\ q \in Seq(Visiting) /\ Len(q) = n
      /\ \A k \in 1 .. n : q[k].a = wk[k].a /\ q[k].b = wk[k].b
      /\ \A k \in 1 .. n : k # n => q[k] = wk[k]
      /\ q[n].i = wk[n].i + 1
  BY <1>1, Advancing
<1>4. g \in Visiting /\ g.a = c /\ g.b = d /\ g.i = 1
  BY <1>1 DEF Visiting
<1>5. p = Append(q, g)
  OBVIOUS
<1> HIDE DEF g, q
<1>6. Len(p) = n + 1 /\ p[n + 1] = g /\ \A k \in 1 .. n : p[k] = q[k]
  BY <1>2, <1>3, <1>4, <1>5, Calling
<1>7. ASSUME NEW k \in 1 .. n + 1, NEW i \in 1 .. Seen(p, k), i \in DOMAIN heap[p[k].a]
      PROVE  Same(heap[p[k].a][i], heap[p[k].b][i])
  <2>1. k \in 1 .. n
    <3>1. Seen(p, n + 1) = 0
      BY <1>2, <1>4, <1>6 DEF Seen
    <3>2. k # n + 1
      BY <3>1
    <3> QED
      BY <1>2, <3>2
  <2>2. p[k].a = wk[k].a /\ p[k].b = wk[k].b
    BY <1>3, <1>6, <2>1
  <2>3. Seen(p, k) = p[k].i - 2
    BY <1>2, <1>6, <2>1 DEF Seen
  <2>4. Seen(p, k) = Seen(wk, k)
    <3>1. CASE k = n
      <4>1. p[k].i = wk[n].i + 1
        BY <1>3, <1>6, <2>1, <3>1
      <4>2. Seen(wk, k) = wk[n].i - 1
        BY <3>1 DEF Seen
      <4>3. \A m \in Nat : (m + 1) - 2 = m - 1
        OBVIOUS
      <4> QED
        BY <1>2, <2>3, <4>1, <4>2, <4>3, Zenon
    <3>2. CASE k # n
      <4>1. p[k].i = wk[k].i
        BY <1>3, <1>6, <2>1, <3>2
      <4> QED
        BY <2>3, <3>2, <4>1 DEF Seen
    <3> QED
      BY <3>1, <3>2
  <2> QED
    BY <1>7, <2>1, <2>2, <2>4 DEF ComparesOK
<1>8. ASSUME NEW k \in 1 .. n + 1
      PROVE  /\ Descends(Ref(p[k].a), Ref(p[k].b))
             /\ Same(t.a, t.b) => SameCells(p[k].a, p[k].b)
  <2>1. CASE k \in 1 .. n
    <3>1. p[k].a = wk[k].a /\ p[k].b = wk[k].b
      BY <1>3, <1>6, <2>1
    <3> QED
      BY <2>1, <3>1 DEF ComparesOK
  <2>2. CASE k = n + 1
    <3>1. p[k].a = c /\ p[k].b = d
      BY <1>4, <1>6, <2>2
    <3>2. ASSUME Same(t.a, t.b)
          PROVE  SameCells(c, d)
      <4>1. SameCells(wk[n].a, wk[n].b)
        BY <1>2, <3>2 DEF ComparesOK
      <4>2. Same(heap[wk[n].a][wk[n].i], heap[wk[n].b][wk[n].i])
        BY <4>1, SameElements DEF Follows
      <4> QED
        BY <4>2 DEF Follows, SameCells
    <3> QED
      BY <3>1, <3>2
  <2>3. k \in 1 .. n \/ k = n + 1
    BY <1>2
  <2> QED
    BY <2>1, <2>2, <2>3
<1>9. t.op \in Comparisons
  BY DEF ComparesOK
<1> QED
  BY <1>6, <1>7, <1>8, <1>9 DEF ComparesOK

LEMMA ComparesReturns ==
  ASSUME NEW wk, NEW t, PathOK(wk, t), ComparesOK(wk, t), NEW n, n = Len(wk), n > 1,
         SameCells(wk[n].a, wk[n].b), NEW p, p = Front(wk)
  PROVE  ComparesOK(p, t)
<1>1. wk \in Seq(Visiting) /\ wk # <<>>
  BY DEF PathOK
<1>2. n \in Nat /\ n >= 1
  BY <1>1, ChainFacts
<1>3. /\ p \in Seq(Visiting) /\ Len(p) = n - 1 /\ p # <<>>
      /\ \A k \in 1 .. n - 1 : p[k] = wk[k]
  BY <1>1, Ending
<1>4. ASSUME NEW k \in 1 .. n - 1, NEW i \in 1 .. Seen(p, k), i \in DOMAIN heap[p[k].a]
      PROVE  Same(heap[p[k].a][i], heap[p[k].b][i])
  <2>1. p[k] = wk[k] /\ k \in 1 .. n /\ k # n
    BY <1>2, <1>3
  <2>5. wk[k] \in Visiting
    BY <1>1, <2>1, ChainFacts
  <2>2. Seen(wk, k) = wk[k].i - 2
    BY <2>1 DEF Seen
  <2>3. CASE i \in 1 .. Seen(wk, k)
    BY <1>4, <2>1, <2>3 DEF ComparesOK
  <2>4. CASE i \notin 1 .. Seen(wk, k)
    <3>4. wk[k].i \in Nat
      BY <2>5 DEF Visiting
    <3>1. k = n - 1 /\ i = wk[k].i - 1
      BY <3>4, <1>2, <1>3, <2>1, <2>2, <2>4 DEF Seen
    <3>2. /\ Follows(wk[k].a, wk[k].i - 1, wk[k + 1].a)
          /\ Follows(wk[k].b, wk[k].i - 1, wk[k + 1].b)
      BY DEF PathOK
    <3>3. k + 1 = n
      BY <1>2, <3>1
    <3> QED
      BY <2>1, <3>1, <3>2, <3>3 DEF Follows, SameCells
  <2> QED
    BY <2>3, <2>4
<1>5. \A k \in 1 .. n - 1 : k \in 1 .. n
  BY <1>2
<1>6. \A k \in 1 .. n - 1 : Descends(Ref(p[k].a), Ref(p[k].b))
  BY <1>3, <1>5 DEF ComparesOK
<1>7. Same(t.a, t.b) => \A k \in 1 .. n - 1 : SameCells(p[k].a, p[k].b)
  BY <1>3, <1>5 DEF ComparesOK
<1>8. t.op \in Comparisons
  BY DEF ComparesOK
<1> QED
  BY <1>3, <1>4, <1>6, <1>7, <1>8 DEF ComparesOK

LEMMA CompareFacts ==
  ASSUME IInv, Computing, task.op # "print", NEW n, n = Len(work)
  PROVE  /\ HeapOK /\ DotsOK(out) /\ repr = <<>> /\ PathOK(work, task) /\ ComparesOK(work, task)
         /\ work \in Seq(Visiting) /\ work # <<>> /\ n \in Nat /\ n >= 1 /\ Top = work[n]
         /\ n <= CStack /\ work[n].a \in Made /\ work[n].b \in Made
         /\ work[n].i \in Nat /\ work[n].i >= 1
         /\ DOMAIN heap[work[n].a] = DOMAIN heap[work[n].b]
         /\ DOMAIN heap[work[n].a] = 1 .. Len(heap[work[n].a]) /\ Len(heap[work[n].a]) \in Nat
         /\ Descends(Ref(work[n].a), Ref(work[n].b))
         /\ \A i \in 1 .. work[n].i - 1 : i \in DOMAIN heap[work[n].a] =>
              Same(heap[work[n].a][i], heap[work[n].b][i])
         /\ Same(task.a, task.b) => SameCells(work[n].a, work[n].b)
         /\ task.a = Ref(work[1].a) /\ task.b = Ref(work[1].b)
         /\ task.op \in Comparisons /\ task.a \in Elements /\ task.b \in Elements
<1>1. Going
  BY DEF IInv, Done, Computing
<1>2. HeapOK /\ DotsOK(out) /\ repr = <<>> /\ PathOK(work, task) /\ ComparesOK(work, task)
      /\ Len(work) <= CStack
  BY <1>1 DEF IInv, Going, PrintsOK
<1>3. work \in Seq(Visiting) /\ work # <<>> /\ task.a = Ref(work[1].a) /\ task.b = Ref(work[1].b)
  BY <1>2 DEF PathOK
<1>4. /\ n \in Nat /\ n >= 1 /\ Top = work[n] /\ work[n].a \in Made /\ work[n].b \in Made
      /\ work[n].i \in Nat /\ work[n].i >= 1 /\ \A k \in 1 .. n : work[k] \in Visiting
  BY <1>3, ChainFacts DEF Top
<1>5. Descends(Ref(work[n].a), Ref(work[n].b))
      /\ (Same(task.a, task.b) => SameCells(work[n].a, work[n].b))
  BY <1>2, <1>4 DEF ComparesOK
<1>6. \A i \in 1 .. work[n].i - 1 : i \in DOMAIN heap[work[n].a] =>
        Same(heap[work[n].a][i], heap[work[n].b][i])
  BY <1>2, <1>4 DEF ComparesOK, Seen
<1>7. DOMAIN heap[work[n].a] = DOMAIN heap[work[n].b]
  BY <1>2, <1>4, <1>5, DescendsIs
<1>8. DOMAIN heap[work[n].a] = 1 .. Len(heap[work[n].a]) /\ Len(heap[work[n].a]) \in Nat
  BY <1>2, <1>4, CellElements
<1>9. task.a \in Elements /\ task.b \in Elements
  <2>1. work[1].a \in Made /\ work[1].b \in Made
    BY <1>4 DEF Visiting
  <2> QED
    BY <1>3, <2>1 DEF Elements, Refs
<1>10. task.op \in Comparisons
  BY <1>2 DEF ComparesOK
<1> QED
  BY <1>2, <1>3, <1>4, <1>5, <1>6, <1>7, <1>8, <1>9, <1>10

LEMMA EqStepKeeps == ASSUME IInv, EqStep PROVE IInv'
<1> DEFINE n == Len(work)
           c == work[n].a
           d == work[n].b
           i == work[n].i
           v == heap[c][i]
           w == heap[d][i]
<1>1. Computing /\ task.op # "print"
  BY DEF EqStep
<1>2. /\ HeapOK /\ DotsOK(out) /\ repr = <<>> /\ PathOK(work, task) /\ ComparesOK(work, task)
      /\ work \in Seq(Visiting) /\ work # <<>> /\ n \in Nat /\ n >= 1 /\ Top = work[n]
      /\ n <= CStack /\ c \in Made /\ d \in Made
      /\ i \in Nat /\ i >= 1
      /\ DOMAIN heap[c] = DOMAIN heap[d]
      /\ DOMAIN heap[c] = 1 .. Len(heap[c]) /\ Len(heap[c]) \in Nat
      /\ Descends(Ref(c), Ref(d))
      /\ \A k \in 1 .. i - 1 : k \in DOMAIN heap[c] => Same(heap[c][k], heap[d][k])
      /\ Same(task.a, task.b) => SameCells(c, d)
      /\ task.a = Ref(work[1].a) /\ task.b = Ref(work[1].b)
      /\ task.op \in Comparisons /\ task.a \in Elements /\ task.b \in Elements
  BY <1>1, CompareFacts
<1>3. Advanced = Next1(work)
  BY DEF Advanced, Next1, Top
<1>4. answer = None
  BY <1>1 DEF Computing
<1> HIDE DEF n, c, d, i, v, w
<1>5. ASSUME i > Len(heap[c])
      PROVE  IInv'
  <2>1. SameCells(c, d)
    <3>1. \A k \in DOMAIN heap[c] : k \in 1 .. i - 1
      BY <1>2, <1>5
    <3> QED
      BY <1>2, <3>1, ElementsSame
  <2>2. CASE n = 1
    <3>1. Answers(Verdict(task, TRUE))
      BY <1>2, <1>5, <2>2 DEF EqStep, n, c, i
    <3>2. Same(task.a, task.b)
      BY <1>2, <2>1, <2>2 DEF SameCells, c, d
    <3>3. /\ heap' = heap /\ task' = task /\ repr' = <<>> /\ out' = out /\ work' = <<>>
          /\ answer' = Verdict(task', TRUE)
      BY <1>2, <3>1 DEF Answers
    <3>4. /\ task'.op \in Comparisons /\ task'.a \in Elements \cup Scalars
          /\ task'.b \in Elements \cup Scalars /\ (TRUE <=> Same(task'.a, task'.b))
      BY <1>2, <3>2, <3>3
    <3> QED
      BY <3>3, <3>4, AnswersRight
  <2>3. CASE n > 1
    <3>0. ~(n = 1)
      BY <1>2, <2>3
    <3>1. work' = Front(work) /\ UNCHANGED <<heap, task, repr, out, answer>>
      BY <1>2, <1>5, <3>0 DEF EqStep, n, c, i
    <3>2. PathOK(work', task) /\ ComparesOK(work', task)
      BY <1>2, <2>1, <2>3, <3>1, PathReturns, ComparesReturns DEF n, c, d
    <3>3. Len(work') = n - 1
      BY <1>2, <2>3, <3>1, Ending DEF n
    <3>4. Len(work') <= CStack
      BY <1>2, <3>3, BoundsAssumption
    <3> QED
      BY <1>2, <1>4, <3>1, <3>2, <3>4, Goes
  <2> QED
    BY <1>2, <2>2, <2>3
<1>6. ASSUME ~(i > Len(heap[c]))
      PROVE  IInv'
  <2>1. i \in DOMAIN heap[c] /\ v \in Elements /\ w \in Elements
    <3>1. i \in DOMAIN heap[c] /\ i \in DOMAIN heap[d]
      BY <1>2, <1>6
    <3>2. heap[c][i] \in Elements
      BY <1>2, <3>1, CellElements
    <3>3. heap[d][i] \in Elements
      BY <1>2, <3>1, CellElements
    <3> QED
      BY <3>1, <3>2, <3>3 DEF v, w
  <2>2. \/ Equal(v, w) /\ NextElement
        \/ /\ ~Equal(v, w) /\ Descends(v, w)
           /\ Calls(Advanced, Pair(v, w)) /\ UNCHANGED <<heap, task, repr, out>>
        \/ ~Equal(v, w) /\ ~Descends(v, w) /\ Answers(Verdict(task, FALSE))
    BY <1>2, <1>6 DEF EqStep, c, d, i, v, w
  <2>3. /\ PathOK(Next1(work), task) /\ Len(Next1(work)) = n
    BY <1>2, PathAdvances, Advancing DEF n
  <2>4. ASSUME Equal(v, w), NextElement
        PROVE  IInv'
    <3>1. Same(v, w)
      <4>1. CASE c = d
        BY <1>2, <2>1, <4>1, SameItself DEF v, w
      <4>2. CASE c # d
        BY <1>2, <2>1, <2>4, <4>2, AlikeIsSame DEF Equal, c, d
      <4> QED
        BY <4>1, <4>2
    <3>2. ComparesOK(Next1(work), task)
      BY <1>2, <3>1, ComparesAdvances DEF n, v, w, c, d, i
    <3>3. work' = Next1(work) /\ UNCHANGED <<heap, task, repr, out, answer>>
      BY <1>3, <2>4 DEF NextElement
    <3> QED
      BY <1>2, <1>4, <2>3, <3>2, <3>3, Goes
  <2>5. ASSUME ~Equal(v, w), Descends(v, w), Calls(Advanced, Pair(v, w)),
               UNCHANGED <<heap, task, repr, out>>
        PROVE  IInv'
    <3> DEFINE x == v[2]
               y == w[2]
               p == Append(Next1(work), [a |-> x, b |-> y, i |-> 1])
    <3>1. v = Ref(x) /\ w = Ref(y)
      BY <2>1, <2>5, ElementIs DEF Descends
    <3>2. Follows(c, i, x) /\ Follows(d, i, y)
      BY <1>2, <2>1, <3>1 DEF Follows, v, w
    <3>3. Descends(Ref(x), Ref(y))
      BY <2>5, <3>1
    <3>4. p = Append(Advanced, Pair(v, w))
      BY <1>3 DEF Pair
    <3> HIDE DEF x, y
    <3>5. PathOK(p, task) /\ x \in Made /\ y \in Made
      BY <1>2, <3>2, PathDescends DEF n, c, d, i
    <3>6. ComparesOK(p, task)
      BY <1>2, <3>2, <3>3, ComparesDescends DEF n, c, d, i
    <3>7. Len(p) = n + 1
      <4>1. [a |-> x, b |-> y, i |-> 1] \in Visiting
        BY <3>5 DEF Visiting
      <4>2. Next1(work) \in Seq(Visiting)
        BY <2>3 DEF PathOK
      <4> QED
        BY <2>3, <4>1, <4>2, Calling
    <3> HIDE DEF p
    <3>8. CASE n < CStack
      <4>1. work' = p /\ answer' = None
        BY <1>3, <2>3, <2>5, <3>4, <3>8 DEF Calls
      <4>2. Len(work') <= CStack
        BY <1>2, <3>7, <3>8, <4>1, BoundsAssumption
      <4> QED
        BY <1>2, <2>5, <3>5, <3>6, <4>1, <4>2, Goes
    <3>9. CASE ~(n < CStack)
      <4>1. work' = Next1(work) /\ answer' = Crash
        BY <1>3, <2>3, <2>5, <3>9 DEF Calls
      <4>2. IsFiniteSet(Made) /\ Cardinality(Made) \in Nat
        BY <1>2, FS_CardinalityType DEF HeapOK
      <4>3. \/ CStack < Cardinality(Made)
            \/ Cyclic(task.a[2]) /\ Cyclic(task.b[2])
        <5>1. CASE CStack < Cardinality(Made)
          BY <5>1
        <5>2. CASE ~(CStack < Cardinality(Made))
          <6>1. Len(p) > Cardinality(Made)
            BY <1>2, <3>7, <3>9, <4>2, <5>2, BoundsAssumption
          <6> QED
            BY <1>2, <3>5, <6>1, LongPath
        <5> QED
          BY <5>1, <5>2
      <4>4. Made' = Made /\ \A e : Cyclic(e) <=> Cyclic(e)'
        BY <2>5, StaysHeap
      <4>5. StackSuffices'
        BY <1>2, <2>5, <4>3, <4>4 DEF StackSuffices
      <4>6. OperatorsRight'
        BY <4>1 DEF OperatorsRight, ComparesRight, ArithmeticExact
      <4>7. answer' \in Results /\ answer' = Crash
        BY <4>1, ValueFacts
      <4>8. Len(work') <= CStack
        BY <1>2, <2>3, <4>1
      <4> QED
        BY <1>2, <2>5, <4>5, <4>6, <4>7, <4>8, Ends
    <3> QED
      BY <3>8, <3>9
  <2>6. ASSUME ~Equal(v, w), ~Descends(v, w), Answers(Verdict(task, FALSE))
        PROVE  IInv'
    <3>1. ~Same(v, w)
      <4>1. CASE IsRef(v) /\ IsRef(w)
        <5>1. v = Ref(v[2]) /\ w = Ref(w[2])
          BY <2>1, <4>1, ElementIs
        <5> QED
          BY <2>6, <5>1, SameElements DEF SameCells
      <4>2. CASE ~(IsRef(v) /\ IsRef(w))
        BY <2>1, <2>6, <4>2, AlikeIsSame DEF Equal
      <4> QED
        BY <4>1, <4>2
    <3>2. ~SameCells(c, d)
      BY <2>1, <3>1, SameElements DEF v, w
    <3>3. ~Same(task.a, task.b)
      BY <1>2, <3>2
    <3>4. /\ heap' = heap /\ task' = task /\ repr' = <<>> /\ out' = out /\ work' = <<>>
          /\ answer' = Verdict(task', FALSE)
      BY <1>2, <2>6 DEF Answers
    <3>5. /\ task'.op \in Comparisons /\ task'.a \in Elements \cup Scalars
          /\ task'.b \in Elements \cup Scalars /\ (FALSE <=> Same(task'.a, task'.b))
      BY <1>2, <3>3, <3>4
    <3> QED
      BY <3>4, <3>5, AnswersRight
  <2> QED
    BY <2>2, <2>4, <2>5, <2>6
<1> QED
  BY <1>5, <1>6

LEMMA PathOne ==
  ASSUME NEW c \in Made, NEW d \in Made, NEW t, t.a = Ref(c), t.b = Ref(d),
         NEW p, p = Append(<<>>, [a |-> c, b |-> d, i |-> 1])
  PROVE  /\ PathOK(p, t) /\ Len(p) = 1
         /\ p[1].a = c /\ p[1].b = d /\ p[1].i = 1
<1> DEFINE g == [a |-> c, b |-> d, i |-> 1]
<1>1. g \in Visiting /\ g.a = c /\ g.b = d /\ g.i = 1
  BY DEF Visiting
<1>2. p = Append(<<>>, g) /\ <<>> \in Seq(Visiting) /\ Len(<<>>) = 0
  OBVIOUS
<1> HIDE DEF g
<1>3. p \in Seq(Visiting) /\ Len(p) = 1 /\ p # <<>> /\ p[1] = g
  <2>1. \A w \in Seq(Visiting), h \in Visiting : \A r : r = Append(w, h) =>
          r \in Seq(Visiting) /\ Len(r) = Len(w) + 1 /\ r[Len(w) + 1] = h
    BY Calling
  <2>2. p \in Seq(Visiting) /\ Len(p) = 0 + 1 /\ p[0 + 1] = g
    BY <1>1, <1>2, <2>1
  <2> QED
    BY <2>2, EmptySeq
<1>4. \A k \in 1 .. Len(p) - 1 : FALSE
  BY <1>3
<1>5. \A j, k \in 1 .. Len(p) : ~(j < k)
  BY <1>3
<1> QED
  BY <1>1, <1>3, <1>4, <1>5 DEF PathOK

LEMMA CompareKeeps ==
  ASSUME IInv, NEW op \in Comparisons, NEW v \in Elements \cup Scalars,
         NEW w \in Elements \cup Scalars, Compare(op, v, w)
  PROVE  IInv'
<1>1. /\ HeapOK /\ DotsOK(out) /\ work = <<>> /\ repr = <<>> /\ Len(work) <= CStack
  BY ReadyFacts DEF Compare
<1>2. /\ task' = [op |-> op, a |-> v, b |-> w] /\ UNCHANGED <<heap, repr, out>>
      /\ IF Descends(v, w) THEN Calls(<<>>, Pair(v, w))
         ELSE answer' = Verdict(task', ~IsRef(v) /\ Alike(v, w)) /\ work' = <<>>
  BY DEF Compare
<1>3. task'.op = op /\ task'.a = v /\ task'.b = w
  BY <1>2
<1>4. ASSUME Descends(v, w)
      PROVE  IInv'
  <2> DEFINE c == v[2]
             d == w[2]
             p == Append(<<>>, [a |-> c, b |-> d, i |-> 1])
  <2>1. c \in Made /\ d \in Made /\ v = Ref(c) /\ w = Ref(d)
    BY <1>4, OperandIs DEF Descends
  <2>2. p = Append(<<>>, Pair(v, w))
    BY DEF Pair
  <2>3. Descends(Ref(c), Ref(d))
    BY <1>4, <2>1
  <2> HIDE DEF c, d
  <2>4. PathOK(p, task') /\ Len(p) = 1 /\ p[1].a = c /\ p[1].b = d /\ p[1].i = 1
    BY <1>3, <2>1, PathOne
  <2> HIDE DEF p
  <2>5. ComparesOK(p, task')
    <3>1. \A k \in 1 .. Len(p) : k = 1
      BY <2>4
    <3>2. Seen(p, 1) = 0
      BY <2>4 DEF Seen
    <3>3. \A k \in 1 .. Len(p) : \A i \in 1 .. Seen(p, k) : FALSE
      BY <3>1, <3>2
    <3>4. Same(task'.a, task'.b) => SameCells(c, d)
      BY <1>3, <2>1 DEF SameCells
    <3> QED
      BY <1>3, <2>3, <2>4, <3>1, <3>3, <3>4 DEF ComparesOK
  <2>6. Calls(<<>>, Pair(v, w))
    BY <1>2, <1>4
  <2>7. Len(<<>>) = 0
    OBVIOUS
  <2>8. CASE 0 < CStack
    <3>1. work' = p /\ answer' = None
      BY <2>2, <2>6, <2>7, <2>8 DEF Calls
    <3>2. Len(work') <= CStack
      <4>1. CStack \in Nat
        BY BoundsAssumption
      <4>2. Len(work') = 1
        BY <2>4, <3>1
      <4> QED
        BY <2>8, <4>1, <4>2
    <3> QED
      BY <1>1, <1>2, <2>4, <2>5, <3>1, <3>2, Goes
  <2>9. CASE ~(0 < CStack)
    <3>1. work' = <<>> /\ answer' = Crash
      BY <2>6, <2>7, <2>9 DEF Calls
    <3>2. IsFiniteSet(Made) /\ Cardinality(Made) \in Nat /\ Cardinality(Made) # 0
      BY <1>1, <2>1, FS_CardinalityType, FS_EmptySet DEF HeapOK
    <3>3. CStack < Cardinality(Made)
      BY <2>9, <3>2, BoundsAssumption
    <3>4. Made' = Made
      BY <1>2 DEF Made
    <3>5. StackSuffices'
      BY <3>3, <3>4 DEF StackSuffices
    <3>6. OperatorsRight'
      BY <3>1 DEF OperatorsRight, ComparesRight, ArithmeticExact
    <3>7. answer' \in Results
      BY <3>1, ValueFacts
    <3>8. Len(work') <= CStack
      BY <1>1, <3>1
    <3> QED
      BY <1>1, <1>2, <3>1, <3>5, <3>6, <3>7, <3>8, Ends
  <2> QED
    BY <2>8, <2>9
<1>5. ASSUME ~Descends(v, w)
      PROVE  IInv'
  <2> DEFINE eq == ~IsRef(v) /\ Alike(v, w)
  <2>1. answer' = Verdict(task', eq) /\ work' = <<>>
    BY <1>2, <1>5
  <2>2. eq <=> Same(v, w)
    <3>1. CASE IsRef(v) /\ IsRef(w)
      <4>1. v = Ref(v[2]) /\ w = Ref(w[2])
        BY <3>1, OperandIs
      <4>2. ~Same(v, w)
        BY <1>5, <4>1, SameElements DEF SameCells
      <4> QED
        BY <3>1, <4>2
    <3>2. CASE ~(IsRef(v) /\ IsRef(w))
      BY <3>2, AlikeIsSame
    <3> QED
      BY <3>1, <3>2
  <2>3. eq \in BOOLEAN
    BY DEF Alike
  <2> HIDE DEF eq
  <2>4. /\ task'.op \in Comparisons /\ task'.a \in Elements \cup Scalars
        /\ task'.b \in Elements \cup Scalars /\ (eq <=> Same(task'.a, task'.b))
    BY <1>3, <2>2
  <2>5. heap' = heap /\ repr' = <<>> /\ out' = out
    BY <1>1, <1>2
  <2> QED
    BY <2>1, <2>3, <2>4, <2>5, AnswersRight
<1> QED
  BY <1>4, <1>5
-----------------------------------------------------------------------------
(* Printing.                                                               *)
LEMMA RemoveHead ==
  ASSUME NEW S, NEW s \in Seq(S), NEW c, s # <<>>, s[1] = c
  PROVE  RemoveFirst(s, c) = Tail(s)
<1> DEFINE I == {i \in 1 .. Len(s) : s[i] = c}
<1>1. Len(s) \in Nat /\ Len(s) >= 1
  BY EmptySeq, LenProperties
<1>2. 1 \in I /\ \A i \in I : i \in Nat /\ i >= 1
  BY <1>1
<1>3. SelectInSeq(s, LAMBDA v : v = c) = 1
  <2>1. SelectInSeq(s, LAMBDA v : v = c) = Min(I)
    BY <1>2 DEF SelectInSeq
  <2>2. \A x \in I : (\A y \in I : x <= y) => x = 1
    BY <1>2
  <2>3. \A y \in I : 1 <= y
    BY <1>2
  <2> HIDE DEF I
  <2>4. Min(I) = 1
    BY <1>2, <2>2, <2>3 DEF Min
  <2> QED
    BY <2>1, <2>4
<1>4. RemoveFirst(s, c) = RemoveAt(s, 1)
  BY <1>1, <1>3 DEF RemoveFirst
<1> QED
  BY <1>1, <1>4 DEF RemoveAt

LEMMA PrintedIs ==
  /\ Null \in Printed /\ Truth(TRUE) \in Printed
  /\ \A c \in Cells : /\ <<"open", c>> \in Printed /\ <<"close", c>> \in Printed
                      /\ <<"dots", c>> \in Printed
  /\ \A c, d : /\ Null # <<"close", c>> /\ Truth(TRUE) # <<"close", c>>
               /\ <<"open", c>> # <<"close", d>> /\ <<"dots", c>> # <<"close", d>>
               /\ <<"close", c>> = <<"close", d>> => c = d
  /\ Null[1] # "dots" /\ Truth(TRUE)[1] # "dots"
BY DEF Printed, Null, Truth

(* What is printed grows.                                                  *)
LEMMA Printing ==
  ASSUME NEW o \in Seq(Printed), NEW x \in Printed, NEW p, p = Append(o, x), NEW n, n = Len(o)
  PROVE  /\ n \in Nat /\ p \in Seq(Printed) /\ DOMAIN o = 1 .. n /\ DOMAIN p = 1 .. n + 1
         /\ p[n + 1] = x /\ \A k \in 1 .. n : p[k] = o[k]
BY AppendProperties, LenProperties

LEMMA OpenedStays ==
  ASSUME NEW o \in Seq(Printed), NEW x \in Printed, NEW p, p = Append(o, x),
         NEW c, Opened(c, o), x # <<"close", c>>
  PROVE  Opened(c, p)
<1> DEFINE n == Len(o)
<1>1. /\ n \in Nat /\ DOMAIN o = 1 .. n /\ DOMAIN p = 1 .. n + 1
      /\ p[n + 1] = x /\ \A k \in 1 .. n : p[k] = o[k]
  BY Printing
<1>2. PICK j \in 1 .. n : o[j] = <<"open", c>> /\ \A l \in 1 .. n : l > j => o[l] # <<"close", c>>
  BY <1>1 DEF Opened
<1> HIDE DEF n
<1>3. j \in 1 .. n + 1 /\ p[j] = <<"open", c>>
  BY <1>1, <1>2
<1>4. ASSUME NEW l \in 1 .. n + 1, l > j
      PROVE  p[l] # <<"close", c>>
  <2>1. l \in 1 .. n \/ l = n + 1
    BY <1>1
  <2> QED
    BY <1>1, <1>2, <1>4, <2>1
<1> QED
  BY <1>1, <1>3, <1>4 DEF Opened

LEMMA OpenedNew ==
  ASSUME NEW o \in Seq(Printed), NEW c \in Cells, NEW p, p = Append(o, <<"open", c>>)
  PROVE  Opened(c, p)
<1> DEFINE n == Len(o)
           x == <<"open", c>>
<1>1. x \in Printed
  BY PrintedIs
<1> HIDE DEF x
<1>2. n \in Nat /\ DOMAIN p = 1 .. n + 1 /\ p[n + 1] = x
  BY <1>1, Printing DEF x
<1> HIDE DEF n
<1>3. n + 1 \in 1 .. n + 1 /\ \A l \in 1 .. n + 1 : ~(l > n + 1)
  BY <1>2
<1> QED
  BY <1>2, <1>3 DEF Opened, x

LEMMA DotsAppend ==
  ASSUME NEW o, DotsOK(o), NEW x \in Printed, NEW p, p = Append(o, x),
         x[1] = "dots" => x[2] \in Below(x[2]) /\ Opened(x[2], o)
  PROVE  DotsOK(p)
<1> DEFINE n == Len(o)
<1>1. o \in Seq(Printed)
  BY DEF DotsOK
<1>2. /\ n \in Nat /\ p \in Seq(Printed) /\ DOMAIN o = 1 .. n /\ DOMAIN p = 1 .. n + 1
      /\ p[n + 1] = x /\ \A k \in 1 .. n : p[k] = o[k]
  BY <1>1, Printing
<1> HIDE DEF n
<1>3. ASSUME NEW k \in 1 .. n + 1, p[k][1] = "dots"
      PROVE  /\ \E j \in 1 .. k - 1 :
                  /\ p[j] = <<"open", p[k][2]>>
                  /\ \A l \in j .. k - 1 : p[l] # <<"close", p[k][2]>>
             /\ p[k][2] \in Below(p[k][2])
  <2>1. CASE k \in 1 .. n
    <3> DEFINE c == p[k][2]
    <3>1. o[k] = p[k]
      BY <1>2, <2>1
    <3>2. /\ \E j \in 1 .. k - 1 :
               /\ o[j] = <<"open", c>>
               /\ \A l \in j .. k - 1 : o[l] # <<"close", c>>
          /\ c \in Below(c)
      BY <1>2, <1>3, <2>1, <3>1 DEF DotsOK
    <3> HIDE DEF c
    <3>3. PICK j \in 1 .. k - 1 : /\ o[j] = <<"open", c>>
                                  /\ \A l \in j .. k - 1 : o[l] # <<"close", c>>
      BY <3>2
    <3>4. \A l \in j .. k - 1 : l \in 1 .. n
      BY <1>2, <2>1
    <3>5. p[j] = <<"open", c>> /\ \A l \in j .. k - 1 : p[l] # <<"close", c>>
      BY <1>2, <2>1, <3>3, <3>4
    <3> QED
      BY <3>2, <3>5 DEF c
  <2>2. CASE k = n + 1
    <3> DEFINE c == x[2]
    <3>1. p[k] = x /\ x[1] = "dots"
      BY <1>2, <1>3, <2>2
    <3>2. c \in Below(c) /\ Opened(c, o)
      BY <3>1
    <3> HIDE DEF c
    <3>3. PICK j \in 1 .. n : o[j] = <<"open", c>> /\ \A l \in 1 .. n : l > j => o[l] # <<"close", c>>
      BY <1>2, <3>2 DEF Opened
    <3>4. k - 1 = n /\ \A l \in j .. n : l \in 1 .. n /\ (l > j \/ l = j)
      BY <1>2, <2>2
    <3>5. ASSUME NEW l \in j .. n
          PROVE  p[l] # <<"close", c>>
      <4>1. l \in 1 .. n /\ p[l] = o[l]
        BY <1>2, <3>4
      <4>2. CASE l > j
        BY <3>3, <4>1, <4>2
      <4>3. CASE l = j
        BY <3>3, <4>1, <4>3
      <4> QED
        BY <3>4, <4>2, <4>3
    <3>6. p[j] = <<"open", c>>
      BY <1>2, <3>3
    <3> QED
      BY <3>1, <3>2, <3>4, <3>5, <3>6 DEF c
  <2>3. k \in 1 .. n \/ k = n + 1
    BY <1>2
  <2> QED
    BY <2>1, <2>2, <2>3
<1> QED
  BY <1>2, <1>3 DEF DotsOK

LEMMA PrintsFacts ==
  ASSUME NEW wk, NEW rp, NEW o, NEW t, PrintsOK(wk, rp, o, t), PathOK(wk, t), NEW n, n = Len(wk)
  PROVE  /\ wk \in Seq(Visiting) /\ wk # <<>> /\ n \in Nat /\ n >= 1 /\ Last(wk) = wk[n]
         /\ \A k \in 1 .. n : wk[k] \in Visiting /\ wk[k].a \in Made /\ wk[k].b = wk[k].a
         /\ t.op = "print" /\ rp \in Seq(Made) /\ rp # <<>> /\ Len(rp) = n /\ rp[1] = wk[n].a
         /\ \A k \in 1 .. n : rp[k] = wk[n + 1 - k].a /\ Opened(wk[k].a, o)
<1>1. wk \in Seq(Visiting) /\ wk # <<>>
  BY DEF PathOK
<1>2. /\ n \in Nat /\ n >= 1 /\ Last(wk) = wk[n]
      /\ \A k \in 1 .. n : wk[k] \in Visiting /\ wk[k].a \in Made
  BY <1>1, ChainFacts DEF Visiting
<1>3. t.op = "print" /\ rp \in Seq(Made) /\ Len(rp) = n
  BY DEF PrintsOK
<1>4. \A k \in 1 .. n : wk[k].b = wk[k].a /\ rp[k] = wk[n + 1 - k].a /\ Opened(wk[k].a, o)
  BY DEF PrintsOK
<1>5. rp # <<>> /\ rp[1] = wk[n].a
  BY <1>2, <1>3, <1>4, EmptySeq
<1> QED
  BY <1>1, <1>2, <1>3, <1>4, <1>5

LEMMA PrintsAdvances ==
  ASSUME NEW wk, NEW rp, NEW o, NEW t, PrintsOK(wk, rp, o, t), PathOK(wk, t),
         NEW p, p = Next1(wk)
  PROVE  PrintsOK(p, rp, o, t)
<1> DEFINE n == Len(wk)
<1>1. wk \in Seq(Visiting) /\ wk # <<>> /\ n \in Nat
  BY PrintsFacts
<1>2. Len(p) = n /\ \A k \in 1 .. n : p[k].a = wk[k].a /\ p[k].b = wk[k].b
  BY <1>1, Advancing
<1>3. \A k \in 1 .. n : n + 1 - k \in 1 .. n
  BY <1>1
<1>4. \A k \in 1 .. n : p[k].b = p[k].a /\ rp[k] = p[n + 1 - k].a /\ Opened(p[k].a, o)
  BY <1>2, <1>3 DEF PrintsOK
<1>5. \A j, k \in 1 .. n : j < k => p[j].a # p[k].a
  BY <1>2 DEF PrintsOK
<1> QED
  BY <1>2, <1>4, <1>5 DEF PrintsOK

LEMMA PrintsMore ==
  ASSUME NEW wk, NEW rp, NEW o \in Seq(Printed), NEW t, PrintsOK(wk, rp, o, t),
         NEW x \in Printed, \A k \in 1 .. Len(wk) : x # <<"close", wk[k].a>>,
         NEW p, p = Append(o, x)
  PROVE  PrintsOK(wk, rp, p, t)
<1>1. \A k \in 1 .. Len(wk) : Opened(wk[k].a, p)
  BY OpenedStays DEF PrintsOK
<1> QED
  BY <1>1 DEF PrintsOK

LEMMA PrintsDescends ==
  ASSUME NEW wk, NEW rp, NEW o, NEW t, PrintsOK(wk, rp, o, t), PathOK(wk, t),
         NEW c \in Made, c \notin Range(rp), Opened(c, o),
         NEW p, p = Append(wk, [a |-> c, b |-> c, i |-> 1])
  PROVE  PrintsOK(p, <<c>> \o rp, o, t)
<1> DEFINE n == Len(wk)
           g == [a |-> c, b |-> c, i |-> 1]
           q == <<c>> \o rp
<1>1. /\ wk \in Seq(Visiting) /\ n \in Nat /\ t.op = "print"
      /\ rp \in Seq(Made) /\ Len(rp) = n
      /\ \A k \in 1 .. n : wk[k].b = wk[k].a /\ rp[k] = wk[n + 1 - k].a /\ Opened(wk[k].a, o)
  BY PrintsFacts
<1>2. g \in Visiting /\ g.a = c /\ g.b = c
  BY DEF Visiting
<1>3. q \in Seq(Made) /\ Len(q) = n + 1 /\ q[1] = c /\ \A k \in 1 .. n : q[k + 1] = rp[k]
  BY <1>1
<1> HIDE DEF g, q, n
<1>4. Len(p) = n + 1 /\ p[n + 1] = g /\ \A k \in 1 .. n : p[k] = wk[k]
  <2>1. p = Append(wk, g)
    BY DEF g
  <2> QED
    BY <1>1, <1>2, <2>1, Calling DEF n
<1>5. ASSUME NEW k \in 1 .. n + 1
      PROVE  p[k].b = p[k].a /\ q[k] = p[n + 2 - k].a /\ Opened(p[k].a, o)
  <2>1. p[k].b = p[k].a /\ Opened(p[k].a, o)
    <3>1. k \in 1 .. n \/ k = n + 1
      BY <1>1
    <3> QED
      BY <1>1, <1>2, <1>4, <3>1
  <2>2. CASE k = 1
    <3>1. n + 2 - k = n + 1
      BY <1>1, <2>2
    <3> QED
      BY <1>2, <1>3, <1>4, <2>1, <2>2, <3>1
  <2>3. CASE k # 1
    <3> DEFINE m == k - 1
    <3>1. m \in 1 .. n /\ k = m + 1 /\ n + 2 - k = n + 1 - m /\ n + 1 - m \in 1 .. n
      BY <1>1, <2>3
    <3>2. q[k] = rp[m]
      BY <1>3, <3>1
    <3>3. p[n + 2 - k] = wk[n + 1 - m]
      BY <1>4, <3>1
    <3> QED
      BY <1>1, <2>1, <3>1, <3>2, <3>3
  <2> QED
    BY <2>2, <2>3
<1>6. ASSUME NEW j \in 1 .. n + 1, NEW k \in 1 .. n + 1, j < k
      PROVE  p[j].a # p[k].a
  <2>1. j \in 1 .. n /\ p[j] = wk[j]
    BY <1>1, <1>4, <1>6
  <2>2. CASE k \in 1 .. n
    <3>1. p[k] = wk[k]
      BY <1>4, <2>2
    <3> QED
      BY <1>6, <2>1, <2>2, <3>1 DEF PrintsOK, n
  <2>3. CASE k = n + 1
    <3> DEFINE m == n + 1 - j
    <3>1. m \in 1 .. n /\ n + 1 - m = j
      BY <1>1, <2>1
    <3>2. rp[m] = wk[j].a /\ m \in DOMAIN rp
      BY <1>1, <3>1
    <3>3. wk[j].a \in Range(rp)
      BY <3>2 DEF Range
    <3> QED
      BY <1>2, <1>4, <2>1, <2>3, <3>3
  <2>4. k \in 1 .. n \/ k = n + 1
    BY <1>1
  <2> QED
    BY <2>2, <2>3, <2>4
<1>8. ASSUME NEW k \in 1 .. Len(p)
      PROVE  p[k].b = p[k].a /\ q[k] = p[Len(p) + 1 - k].a /\ Opened(p[k].a, o)
  <2>1. k \in 1 .. n + 1 /\ Len(p) + 1 - k = n + 2 - k
    BY <1>1, <1>4
  <2>2. p[Len(p) + 1 - k] = p[n + 2 - k]
    BY <2>1
  <2> QED
    BY <1>5, <2>1, <2>2
<1>9. \A j, k \in 1 .. Len(p) : j < k => p[j].a # p[k].a
  BY <1>4, <1>6
<1> QED
  BY <1>1, <1>3, <1>4, <1>8, <1>9 DEF PrintsOK, q

LEMMA PrintsReturns ==
  ASSUME NEW wk, NEW rp, NEW o \in Seq(Printed), NEW t, PrintsOK(wk, rp, o, t), PathOK(wk, t),
         NEW n, n = Len(wk), n > 1, Made \subseteq Cells, NEW p, p = Front(wk),
         NEW q, q = Append(o, <<"close", wk[n].a>>)
  PROVE  PrintsOK(p, Tail(rp), q, t)
<1> DEFINE r == Tail(rp)
           x == <<"close", wk[n].a>>
<1>1. /\ wk \in Seq(Visiting) /\ wk # <<>> /\ n \in Nat /\ t.op = "print" /\ wk[n].a \in Made
      /\ rp \in Seq(Made) /\ rp # <<>> /\ Len(rp) = n
      /\ \A k \in 1 .. n : /\ wk[k].a \in Made /\ wk[k].b = wk[k].a
                           /\ rp[k] = wk[n + 1 - k].a /\ Opened(wk[k].a, o)
  <2>1. \A m : m = Len(wk) =>
          /\ wk \in Seq(Visiting) /\ wk # <<>> /\ m \in Nat /\ m >= 1 /\ t.op = "print"
          /\ rp \in Seq(Made) /\ rp # <<>> /\ Len(rp) = m
          /\ \A k \in 1 .. m : /\ wk[k].a \in Made /\ wk[k].b = wk[k].a
                               /\ rp[k] = wk[m + 1 - k].a /\ Opened(wk[k].a, o)
    BY PrintsFacts
  <2>2. n \in Nat /\ n >= 1
    BY <2>1
  <2>3. n \in 1 .. n
    BY <2>2
  <2>4. /\ wk \in Seq(Visiting) /\ wk # <<>> /\ t.op = "print"
        /\ rp \in Seq(Made) /\ rp # <<>> /\ Len(rp) = n
    BY <2>1
  <2>5. \A k \in 1 .. n : /\ wk[k].a \in Made /\ wk[k].b = wk[k].a
                          /\ rp[k] = wk[n + 1 - k].a /\ Opened(wk[k].a, o)
    BY <2>1
  <2>6. wk[n].a \in Made
    BY <2>3, <2>5
  <2> QED
    BY <2>2, <2>4, <2>5, <2>6
<1>2. Len(p) = n - 1 /\ \A k \in 1 .. n - 1 : p[k] = wk[k]
  <2>1. wk \in Seq(Visiting) /\ wk # <<>>
    BY <1>1
  <2> QED
    BY <2>1, Ending
<1>3. r \in Seq(Made) /\ Len(r) = n - 1 /\ \A k \in 1 .. n - 1 : r[k] = rp[k + 1]
  BY <1>1
<1>4. x \in Printed
  BY <1>1, PrintedIs
<1> HIDE DEF r, x
<1>5. ASSUME NEW k \in 1 .. n - 1
      PROVE  p[k].b = p[k].a /\ r[k] = p[n - k].a /\ Opened(p[k].a, q)
  <2>1. k \in 1 .. n /\ k + 1 \in 1 .. n /\ n - k \in 1 .. n - 1 /\ n + 1 - (k + 1) = n - k
    BY <1>1
  <2>2. r[k] = wk[n - k].a /\ p[n - k] = wk[n - k] /\ p[k] = wk[k]
    BY <1>1, <1>2, <1>3, <2>1
  <2>3. wk[k].a # wk[n].a
    BY <1>1, <2>1 DEF PrintsOK
  <2>4. x # <<"close", wk[k].a>>
    BY <2>3 DEF x
  <2>5. Opened(wk[k].a, q)
    <3>1. \A y \in Printed : \A e : Opened(e, o) /\ y # <<"close", e>> => Opened(e, Append(o, y))
      BY OpenedStays
    <3>2. q = Append(o, x)
      BY DEF x
    <3> QED
      BY <1>1, <1>4, <2>1, <2>4, <3>1, <3>2
  <2> QED
    BY <1>1, <2>1, <2>2, <2>5
<1>6. ASSUME NEW j \in 1 .. n - 1, NEW k \in 1 .. n - 1, j < k
      PROVE  p[j].a # p[k].a
  <2>0. n \in Nat
    BY <1>1
  <2>1. j \in 1 .. n /\ k \in 1 .. n
    BY <2>0
  <2>2. p[j] = wk[j] /\ p[k] = wk[k]
    BY <1>2
  <2> QED
    BY <1>6, <2>1, <2>2 DEF PrintsOK
<1>7. \A k \in 1 .. n - 1 : n - 1 + 1 - k = n - k
  BY <1>1
<1>8. \A k \in 1 .. Len(p) : p[k].b = p[k].a /\ r[k] = p[Len(p) + 1 - k].a /\ Opened(p[k].a, q)
  BY <1>2, <1>5, <1>7
<1>9. \A j, k \in 1 .. Len(p) : j < k => p[j].a # p[k].a
  BY <1>2, <1>6
<1> QED
  BY <1>1, <1>2, <1>3, <1>8, <1>9 DEF PrintsOK, r

(* Printing is no deeper than there are cells.                             *)
LEMMA PrintsBounded ==
  ASSUME HeapOK, NEW wk, NEW rp, NEW o, NEW t, PathOK(wk, t), PrintsOK(wk, rp, o, t)
  PROVE  Len(wk) <= Cardinality(Made)
<1> DEFINE n == Len(wk)
           f == [k \in 1 .. n |-> wk[k].a]
<1>1. n \in Nat /\ \A k \in 1 .. n : wk[k].a \in Made
  BY PrintsFacts
<1>2. f \in [1 .. n -> Made]
  BY <1>1
<1>3. IsFiniteSet(Made) /\ Cardinality(Made) \in Nat
  BY FS_CardinalityType DEF HeapOK
<1>4. \A j, k \in 1 .. n : j < k => f[j] # f[k]
  BY DEF PrintsOK
<1> HIDE DEF f, n
<1>5. ~(n > Cardinality(Made))
  BY <1>1, <1>2, <1>3, <1>4, Repeats
<1> QED
  BY <1>1, <1>3, <1>5 DEF n

LEMMA PrintFacts ==
  ASSUME IInv, Computing, task.op = "print", NEW n, n = Len(work)
  PROVE  /\ HeapOK /\ DotsOK(out) /\ out \in Seq(Printed) /\ answer = None
         /\ PathOK(work, task) /\ PrintsOK(work, repr, out, task)
         /\ work \in Seq(Visiting) /\ work # <<>> /\ n \in Nat /\ n >= 1 /\ Top = work[n]
         /\ n <= CStack /\ work[n].a \in Made /\ work[n].a \in Cells /\ work[n].b = work[n].a
         /\ work[n].i \in Nat /\ work[n].i >= 1
         /\ DOMAIN heap[work[n].a] = 1 .. Len(heap[work[n].a]) /\ Len(heap[work[n].a]) \in Nat
<1>1. Going
  BY DEF IInv, Done, Computing
<1>2. HeapOK /\ DotsOK(out) /\ Len(work) <= CStack /\ out \in Seq(Printed) /\ answer = None
  BY <1>1 DEF IInv, DotsOK, Going
<1>3. PathOK(work, task) /\ PrintsOK(work, repr, out, task)
  BY <1>1 DEF Going, ComparesOK, Comparisons
<1>4. work \in Seq(Visiting) /\ work # <<>>
  BY <1>3 DEF PathOK
<1>5. /\ n \in Nat /\ n >= 1 /\ Top = work[n] /\ work[n].a \in Made
      /\ work[n].i \in Nat /\ work[n].i >= 1
  BY <1>4, ChainFacts DEF Top
<1>6. work[n].b = work[n].a /\ work[n].a \in Cells
  BY <1>2, <1>3, <1>5 DEF PrintsOK, HeapOK
<1>7. DOMAIN heap[work[n].a] = 1 .. Len(heap[work[n].a]) /\ Len(heap[work[n].a]) \in Nat
  BY <1>2, <1>5, CellElements
<1> QED
  BY <1>2, <1>3, <1>4, <1>5, <1>6, <1>7

(* What is not an operator or a comparison has nothing to be right about.  *)
LEMMA PrintAnswers ==
  ASSUME IInv, heap' = heap, task'.op = "print", Len(work') <= CStack, DotsOK(out'),
         \/ answer' = Null /\ work' = <<>> /\ repr' = <<>>
         \/ answer' = Crash /\ CStack < Cardinality(Made)
  PROVE  IInv'
<1>1. Made' = Made
  BY DEF Made
<1>2. StackSuffices'
  BY <1>1, ValueFacts DEF StackSuffices
<1>3. OperatorsRight'
  BY DEF OperatorsRight, ComparesRight, ArithmeticExact, Comparisons, Operators
<1>4. answer' \in Results /\ (answer' # Crash => work' = <<>> /\ repr' = <<>>)
  BY ValueFacts
<1> QED
  BY <1>2, <1>3, <1>4, Ends

LEMMA PrintValueKeeps ==
  ASSUME IInv, NEW v \in Refs, PrintValue(v)
  PROVE  IInv'
<1> DEFINE c == v[2]
           g == [a |-> c, b |-> c, i |-> 1]
           p == Append(<<>>, g)
           x == <<"open", c>>
           o == Append(<<>>, x)
           q == <<c>> \o <<>>
<1>1. HeapOK /\ work = <<>> /\ repr = <<>> /\ Len(work) <= CStack
  BY ReadyFacts DEF PrintValue
<1>2. c \in Made /\ v = Ref(c) /\ IsRef(v) /\ c \in Cells
  BY <1>1, ValueFacts DEF Refs, HeapOK
<1>3. ~ReprEnter(c)
  BY <1>1 DEF ReprEnter, Range
<1>4. /\ heap' = heap /\ task' = [op |-> "print", a |-> v, b |-> v]
      /\ out' = o /\ repr' = q /\ Calls(<<>>, Pair(v, v))
  BY <1>1, <1>2, <1>3 DEF PrintValue, Visit
<1>5. g = Pair(v, v) /\ task'.op = "print" /\ task'.a = Ref(c) /\ task'.b = Ref(c)
  BY <1>2, <1>4 DEF Pair
<1>6. q \in Seq(Made) /\ Len(q) = 1 /\ q[1] = c
  BY <1>2
<1>7. x \in Printed /\ x[1] # "dots"
  BY <1>2, PrintedIs
<1>8. DotsOK(o)
  <2>1. DotsOK(<<>>)
    BY DEF DotsOK
  <2> HIDE DEF x
  <2>2. \A u : DotsOK(u) => DotsOK(Append(u, x))
    BY <1>7, DotsAppend
  <2> QED
    BY <2>1, <2>2
<1>9. Opened(c, o)
  <2>1. \A e \in Cells, u \in Seq(Printed) : Opened(e, Append(u, <<"open", e>>))
    BY OpenedNew
  <2>2. <<>> \in Seq(Printed)
    OBVIOUS
  <2> HIDE DEF c
  <2> QED
    BY <1>2, <2>1, <2>2
<1> HIDE DEF c, o, q
<1>10. PathOK(p, task') /\ Len(p) = 1 /\ p[1].a = c /\ p[1].b = c
  BY <1>2, <1>5, PathOne
<1> HIDE DEF p
<1>11. PrintsOK(p, q, o, task')
  <2>1. \A k \in 1 .. Len(p) : k = 1 /\ Len(p) + 1 - k = 1
    BY <1>10
  <2>2. \A j, k \in 1 .. Len(p) : ~(j < k)
    BY <1>10
  <2> QED
    BY <1>5, <1>6, <1>9, <1>10, <2>1, <2>2 DEF PrintsOK
<1>12. CASE 0 < CStack
  <2>1. work' = p /\ answer' = None
    BY <1>4, <1>5, <1>12 DEF Calls, p
  <2>2. Len(work') <= CStack
    <3>1. CStack \in Nat /\ Len(work') = 1
      BY <1>10, <2>1, BoundsAssumption
    <3> QED
      BY <1>12, <3>1
  <2> QED
    BY <1>4, <1>8, <1>10, <1>11, <2>1, <2>2, Goes
<1>13. CASE ~(0 < CStack)
  <2>1. work' = <<>> /\ answer' = Crash
    BY <1>4, <1>13 DEF Calls
  <2>2. IsFiniteSet(Made) /\ Cardinality(Made) \in Nat /\ Cardinality(Made) # 0
    BY <1>1, <1>2, FS_CardinalityType, FS_EmptySet DEF HeapOK
  <2>3. CStack < Cardinality(Made)
    BY <1>13, <2>2, BoundsAssumption
  <2>4. Len(work') <= CStack
    BY <1>1, <2>1
  <2> QED
    BY <1>4, <1>5, <1>8, <2>1, <2>3, <2>4, PrintAnswers
<1> QED
  BY <1>12, <1>13

LEMMA PrintStepKeeps == ASSUME IInv, PrintStep PROVE IInv'
<1> DEFINE n == Len(work)
           c == work[n].a
           i == work[n].i
           v == heap[c][i]
           cs == Next1(work)
<1>1. Computing /\ task.op = "print"
  BY DEF PrintStep
<1>2. /\ HeapOK /\ DotsOK(out) /\ out \in Seq(Printed) /\ answer = None
      /\ PathOK(work, task) /\ PrintsOK(work, repr, out, task)
      /\ work \in Seq(Visiting) /\ work # <<>> /\ n \in Nat /\ n >= 1 /\ Top = work[n]
      /\ n <= CStack /\ c \in Made /\ c \in Cells /\ work[n].b = c
      /\ i \in Nat /\ i >= 1
      /\ DOMAIN heap[c] = 1 .. Len(heap[c]) /\ Len(heap[c]) \in Nat
  BY <1>1, PrintFacts
<1>3. Advanced = cs
  BY DEF Advanced, Next1, Top
<1>4. heap' = heap /\ task' = task
  BY DEF PrintStep
<1>5. CStack \in Nat
  BY BoundsAssumption
<1>6. PathOK(cs, task) /\ PrintsOK(cs, repr, out, task)
  BY <1>2, PathAdvances, PrintsAdvances
<1>7. cs \in Seq(Visiting) /\ Len(cs) = n /\ cs # <<>>
  BY <1>2, Advancing
<1> HIDE DEF n, c, i, v, cs
<1>8. ASSUME ~(i <= Len(heap[c]))
      PROVE  IInv'
  <2> DEFINE x == <<"close", c>>
             q == Append(out, x)
  <2>1. /\ repr' = ReprLeave(c) /\ work' = Front(work) /\ out' = q
        /\ answer' = IF n = 1 THEN Null ELSE None
    BY <1>2, <1>8 DEF PrintStep, n, c, i
  <2>2. repr' = Tail(repr) /\ repr \in Seq(Made) /\ Len(repr) = n
    <3>1. repr \in Seq(Made) /\ repr # <<>> /\ Len(repr) = n /\ repr[1] = c
      BY <1>2, PrintsFacts DEF n, c
    <3> QED
      BY <2>1, <3>1, RemoveHead DEF ReprLeave
  <2>3. DotsOK(q)
    <3>1. x \in Printed /\ x[1] # "dots"
      BY <1>2, PrintedIs
    <3> HIDE DEF x
    <3> QED
      BY <1>2, <3>1, DotsAppend
  <2>4. CASE n = 1
    <3>1. repr' = <<>>
      BY <2>2, <2>4
    <3>2. work' = <<>>
      BY <1>2, <2>1, <2>4 DEF Front, n
    <3>3. Len(work') <= CStack
      BY <1>5, <3>2
    <3>4. answer' = Null
      BY <2>1, <2>4
    <3> QED
      BY <1>1, <1>4, <2>1, <2>3, <3>1, <3>2, <3>3, <3>4, PrintAnswers
  <2>5. CASE n > 1
    <3>0. ~(n = 1)
      BY <1>2, <2>5
    <3>1. answer' = None
      BY <2>1, <3>0
    <3>2. PathOK(work', task)
      BY <1>2, <2>1, <2>5, PathReturns DEF n
    <3>3. PrintsOK(work', repr', out', task)
      <4>1. Made \subseteq Cells
        BY <1>2 DEF HeapOK
      <4> QED
        BY <1>2, <2>1, <2>2, <2>5, <4>1, PrintsReturns DEF n, c
    <3>4. Len(work') = n - 1
      BY <1>2, <2>1, <2>5, Ending DEF n
    <3>5. Len(work') <= CStack
      BY <1>2, <1>5, <3>4
    <3> QED
      BY <1>4, <2>1, <2>3, <3>1, <3>2, <3>3, <3>5, Goes
  <2> QED
    BY <1>2, <2>4, <2>5
<1>9. ASSUME i <= Len(heap[c])
      PROVE  IInv'
  <2>1. i \in DOMAIN heap[c]
    BY <1>2, <1>9
  <2>2. v \in Elements
    BY <1>2, <2>1, CellElements DEF v
  <2>3. Visit(v, cs, out)
    BY <1>2, <1>3, <1>9 DEF PrintStep, n, c, i, v
  <2>4. ASSUME ~IsRef(v)
        PROVE  IInv'
    <3>1. out' = Append(out, v) /\ work' = cs /\ repr' = repr /\ answer' = None
      BY <1>7, <2>3, <2>4 DEF Visit
    <3>2. v \in Printed /\ v[1] # "dots" /\ \A e : v # <<"close", e>>
      BY <2>2, <2>4, ElementIs, PrintedIs
    <3>3. DotsOK(out')
      BY <1>2, <3>1, <3>2, DotsAppend
    <3>4. PrintsOK(work', repr', out', task)
      BY <1>2, <1>6, <3>1, <3>2, PrintsMore
    <3>5. Len(work') <= CStack
      BY <1>2, <1>7, <3>1
    <3> QED
      BY <1>4, <1>6, <3>1, <3>3, <3>4, <3>5, Goes
  <2>5. ASSUME IsRef(v)
        PROVE  IInv'
    <3> DEFINE d == v[2]
    <3>1. d \in Made /\ v = Ref(d) /\ d \in Cells
      BY <1>2, <2>2, <2>5, ElementIs DEF HeapOK
    <3>2. d \in Below(c)
      BY <1>2, <2>1, <3>1, BelowElement DEF v
    <3> HIDE DEF d
    <3>3. ASSUME ReprEnter(d)
          PROVE  IInv'
      <4> DEFINE x == <<"dots", d>>
      <4>1. out' = Append(out, x) /\ work' = cs /\ repr' = repr /\ answer' = None
        BY <1>2, <2>3, <2>5, <3>3 DEF Visit, d
      <4>2. x \in Printed /\ x[2] = d /\ \A e : x # <<"close", e>>
        BY <3>1, PrintedIs
      <4>3. d \in Below(d) /\ Opened(d, out)
        <5>1. PICK k \in 1 .. n : repr[k] = d
          <6>1. repr \in Seq(Made) /\ Len(repr) = n
            BY <1>2 DEF PrintsOK, n
          <6>2. DOMAIN repr = 1 .. n
            BY <6>1, LenProperties
          <6> QED
            BY <3>3, <6>2 DEF ReprEnter, Range
        <5> DEFINE m == n + 1 - k
        <5>2. m \in 1 .. n
          BY <1>2
        <5>3. work[m].a = d /\ Opened(work[m].a, out)
          BY <1>2, <5>1, <5>2 DEF PrintsOK, n
        <5> HIDE DEF m
        <5>4. CASE m = n
          BY <3>2, <5>3, <5>4 DEF c
        <5>5. CASE m # n
          <6>1. c \in Below(d)
            <7>1. n \in 1 .. n /\ m < n
              BY <1>2, <5>2, <5>5
            <7> QED
              BY <1>2, <5>2, <5>3, <7>1 DEF PathOK, n, c
          <6> QED
            BY <1>2, <2>1, <3>1, <5>3, <6>1, BelowFurther DEF v
        <5> QED
          BY <5>4, <5>5
      <4> HIDE DEF x
      <4>4. DotsOK(out')
        BY <1>2, <4>1, <4>2, <4>3, DotsAppend
      <4>5. PrintsOK(work', repr', out', task)
        BY <1>2, <1>6, <4>1, <4>2, PrintsMore
      <4>6. Len(work') <= CStack
        BY <1>2, <1>7, <4>1
      <4> QED
        BY <1>4, <1>6, <4>1, <4>4, <4>5, <4>6, Goes
    <3>4. ASSUME ~ReprEnter(d)
          PROVE  IInv'
      <4> DEFINE x == <<"open", d>>
                 p == Append(cs, [a |-> d, b |-> d, i |-> 1])
      <4>1. out' = Append(out, x) /\ repr' = <<d>> \o repr /\ Calls(cs, Pair(v, v))
        BY <2>3, <2>5, <3>4 DEF Visit, d
      <4>2. x \in Printed /\ x[1] # "dots" /\ \A e : x # <<"close", e>>
        BY <3>1, PrintedIs
      <4>3. Opened(d, out')
        BY <1>2, <3>1, <4>1, OpenedNew
      <4> HIDE DEF x
      <4>4. DotsOK(out')
        BY <1>2, <4>1, <4>2, DotsAppend
      <4>5. PrintsOK(cs, repr, out', task)
        BY <1>2, <1>6, <4>1, <4>2, PrintsMore
      <4>6. d \notin Range(repr)
        BY <3>4 DEF ReprEnter
      <4>7. PrintsOK(p, repr', out', task)
        BY <1>6, <3>1, <4>1, <4>3, <4>5, <4>6, PrintsDescends
      <4>8. PathOK(p, task)
        <5>1. Follows(c, i, d) /\ work[n].b = c
          BY <1>2, <2>1, <3>1 DEF Follows, v
        <5> QED
          BY <1>2, <5>1, PathDescends DEF n, c, i, cs
      <4>9. Len(p) = n + 1
        <5>1. [a |-> d, b |-> d, i |-> 1] \in Visiting
          BY <3>1 DEF Visiting
        <5> QED
          BY <1>7, <5>1, Calling
      <4>10. p = Append(cs, Pair(v, v))
        BY DEF Pair, d
      <4> HIDE DEF p
      <4>11. CASE n < CStack
        <5>1. work' = p /\ answer' = None
          BY <1>7, <4>1, <4>10, <4>11 DEF Calls
        <5>2. Len(work') <= CStack
          BY <1>2, <1>5, <4>9, <4>11, <5>1
        <5> QED
          BY <1>4, <4>4, <4>7, <4>8, <5>1, <5>2, Goes
      <4>12. CASE ~(n < CStack)
        <5>1. work' = cs /\ answer' = Crash
          BY <1>7, <4>1, <4>12 DEF Calls
        <5>2. Len(p) <= Cardinality(Made)
          BY <1>2, <4>7, <4>8, PrintsBounded
        <5>3. Cardinality(Made) \in Nat
          BY <1>2, FS_CardinalityType DEF HeapOK
        <5>4. CStack < Cardinality(Made)
          BY <1>2, <1>5, <4>9, <4>12, <5>2, <5>3
        <5>5. Len(work') <= CStack
          BY <1>2, <1>7, <5>1
        <5> QED
          BY <1>1, <1>4, <4>4, <5>1, <5>4, <5>5, PrintAnswers
      <4> QED
        BY <4>11, <4>12
    <3> QED
      BY <3>3, <3>4
  <2> QED
    BY <2>4, <2>5
<1> QED
  BY <1>8, <1>9
-----------------------------------------------------------------------------
(* Values are made and stored between the evaluations.                     *)
LEMMA IdlesKeeps ==
  ASSUME IInv, Idle, NEW h, Idles(h), IsFiniteSet(DOMAIN h), DOMAIN h \subseteq Cells,
         \A c \in DOMAIN h : /\ h[c] \in Seq({Null, Truth(TRUE)} \cup {Ref(d) : d \in DOMAIN h})
                             /\ Len(h[c]) <= MaxLen[c]
  PROVE  IInv'
<1>1. /\ heap' = h /\ task' = None /\ answer' = Null /\ out' = <<>>
      /\ work' = work /\ repr' = repr
  BY DEF Idles
<1>2. work = <<>> /\ repr = <<>> /\ Len(work) <= CStack
  BY DEF IInv, Going, Done, Idle
<1>3. Made' = DOMAIN h /\ Elements' = {Null, Truth(TRUE)} \cup {Ref(d) : d \in DOMAIN h}
  BY <1>1 DEF Made, Elements, Refs
<1>4. HeapOK'
  BY <1>1, <1>3 DEF HeapOK
<1>5. DotsOK(out)'
  <2>1. <<>> \in Seq(Printed) /\ \A k \in DOMAIN <<>> : FALSE
    OBVIOUS
  <2>2. Printed' = Printed
    BY DEF Printed
  <2> QED
    BY <1>1, <2>1, <2>2 DEF DotsOK
<1>6. Done'
  BY <1>1, <1>2, ValueFacts DEF Done
<1>7. StackSuffices' /\ OperatorsRight'
  BY <1>1, ValueFacts DEF StackSuffices, OperatorsRight, ComparesRight, ArithmeticExact
<1>8. (Len(work) <= CStack)'
  BY <1>1, <1>2
<1> QED
  BY <1>4, <1>5, <1>6, <1>7, <1>8 DEF IInv

LEMMA NewKeeps ==
  ASSUME IInv, NEW c \in Cells, New(c)
  PROVE  IInv'
<1> DEFINE M == Made \cup {c}
           E == {Null, Truth(TRUE)} \cup {Ref(d) : d \in M}
<1>1. HeapOK /\ Idle
  BY DEF IInv, New
<1>2. PICK n \in (IF Type[c] = "array" THEN 0 ELSE MaxLen[c]) .. MaxLen[c] :
        \E vs \in [1 .. n -> IF Type[c] = "array" THEN Elements ELSE {Null}] :
          Idles([d \in M |-> IF d = c THEN vs ELSE heap[d]])
  BY DEF New
<1>3. PICK vs \in [1 .. n -> IF Type[c] = "array" THEN Elements ELSE {Null}] :
        Idles([d \in M |-> IF d = c THEN vs ELSE heap[d]])
  BY <1>2
<1>4. n \in Nat /\ n <= MaxLen[c]
  BY BoundsAssumption
<1>5. Elements \subseteq E
  BY DEF Elements, Refs
<1>6. vs \in [1 .. n -> E]
  <2>1. Null \in E
    OBVIOUS
  <2> HIDE DEF E
  <2>2. \A k \in 1 .. n : vs[k] \in E
    BY <1>5, <2>1
  <2> QED
    BY <2>2
<1>7. vs \in Seq(E) /\ Len(vs) = n
  <2> HIDE DEF E
  <2>1. DOMAIN vs = 1 .. n
    OBVIOUS
  <2>2. vs \in Seq(E)
    BY <1>4, <1>6, SeqDef
  <2> QED
    BY <1>4, <2>1, <2>2, LenProperties
<1> DEFINE h == [d \in M |-> IF d = c THEN vs ELSE heap[d]]
<1> HIDE DEF E
<1>8. ASSUME NEW d \in M
      PROVE  h[d] \in Seq(E) /\ Len(h[d]) <= MaxLen[d]
  <2>1. CASE d = c
    BY <1>4, <1>7, <2>1
  <2>2. CASE d # c
    <3>1. heap[d] \in Seq(Elements) /\ Len(heap[d]) <= MaxLen[d]
      BY <1>1, <2>2 DEF HeapOK
    <3>2. heap[d] \in Seq(E)
      BY <1>5, <3>1
    <3> QED
      BY <2>2, <3>1, <3>2
  <2> QED
    BY <2>1, <2>2
<1>9. IsFiniteSet(M) /\ M \subseteq Cells
  BY <1>1, FS_AddElement DEF HeapOK
<1>10. DOMAIN h = M
  OBVIOUS
<1> HIDE DEF h
<1>11. Idles(h)
  BY <1>3 DEF h
<1> QED
  BY <1>1, <1>8, <1>9, <1>10, <1>11, IdlesKeeps DEF E

LEMMA StoreKeeps ==
  ASSUME IInv, NEW c \in Made, Store(c)
  PROVE  IInv'
<1>1. HeapOK /\ Idle
  BY DEF IInv, Store
<1>2. PICK i \in DOMAIN heap[c], v \in Elements : Idles([heap EXCEPT ![c][i] = v])
  BY DEF Store
<1> DEFINE s == [heap[c] EXCEPT ![i] = v]
           h == [heap EXCEPT ![c] = s]
<1>3. heap[c] \in Seq(Elements)
  BY <1>1 DEF HeapOK
<1>4. s \in Seq(Elements) /\ Len(s) = Len(heap[c])
  BY <1>3, ExceptSeq
<1>5. Idles(h)
  BY <1>2
<1> HIDE DEF s
<1>6. DOMAIN h = Made /\ \A d \in Made : h[d] = IF d = c THEN s ELSE heap[d]
  BY DEF Made
<1> HIDE DEF h
<1>7. ASSUME NEW d \in Made
      PROVE  h[d] \in Seq(Elements) /\ Len(h[d]) <= MaxLen[d]
  <2>1. heap[d] \in Seq(Elements) /\ Len(heap[d]) <= MaxLen[d]
    BY <1>1 DEF HeapOK
  <2> QED
    BY <1>4, <1>6, <2>1
<1>8. IsFiniteSet(Made) /\ Made \subseteq Cells
  BY <1>1 DEF HeapOK
<1>9. Elements = {Null, Truth(TRUE)} \cup {Ref(d) : d \in DOMAIN h}
  BY <1>6 DEF Elements, Refs
<1> QED
  BY <1>1, <1>5, <1>6, <1>7, <1>8, <1>9, IdlesKeeps
-----------------------------------------------------------------------------
LEMMA InitIInv == Init => IInv
<1> SUFFICES ASSUME Init PROVE IInv
  OBVIOUS
<1>1. Made = {} /\ Len(work) = 0
  BY DEF Init, Made
<1>2. HeapOK
  BY <1>1, FS_EmptySet DEF HeapOK
<1>3. DotsOK(out)
  <2>1. <<>> \in Seq(Printed) /\ \A k \in DOMAIN <<>> : FALSE
    OBVIOUS
  <2> QED
    BY <2>1 DEF Init, DotsOK
<1>4. Done
  BY ValueFacts DEF Init, Done
<1>5. StackSuffices /\ OperatorsRight
  BY ValueFacts DEF Init, StackSuffices, OperatorsRight, ComparesRight, ArithmeticExact
<1> QED
  BY <1>1, <1>2, <1>3, <1>4, <1>5, BoundsAssumption DEF IInv

LEMMA StutterIInv == IInv /\ UNCHANGED vars => IInv'
<1> SUFFICES ASSUME IInv, UNCHANGED vars PROVE IInv'
  OBVIOUS
<1>1. /\ heap' = heap /\ task' = task /\ work' = work /\ repr' = repr /\ out' = out
      /\ answer' = answer
  BY DEF vars
<1>2. Made' = Made /\ HeapOK'
  BY <1>1, StaysHeap DEF IInv
<1>3. DotsOK(out)'
  BY <1>1, StaysDots DEF IInv
<1>4. Going \/ Done => (Going \/ Done)'
  <2>1. Going => Going'
    BY <1>1, StaysPath, StaysComparing, StaysPrinting DEF Going
  <2>2. Done => Done'
    BY <1>1 DEF Done
  <2> QED
    BY <2>1, <2>2
<1>5. StackSuffices'
  BY <1>1, <1>2, StaysHeap DEF IInv, StackSuffices
<1>6. OperatorsRight'
  <2>1. Meaning(task)' = Meaning(task)
    BY <1>1, StaysHeap DEF Meaning, Truth
  <2>2. ComparesRight'
    BY <1>1, <2>1 DEF IInv, OperatorsRight, ComparesRight, Comparable
  <2>3. ArithmeticExact'
    BY <1>1 DEF IInv, OperatorsRight, ArithmeticExact
  <2> QED
    BY <2>2, <2>3 DEF OperatorsRight
<1> QED
  BY <1>1, <1>2, <1>3, <1>4, <1>5, <1>6 DEF IInv

LEMMA StepIInv == IInv /\ [Next]_vars => IInv'
<1> SUFFICES ASSUME IInv, [Next]_vars PROVE IInv'
  OBVIOUS
<1>1. ASSUME NEW c \in Cells, New(c) PROVE IInv'
  BY <1>1, NewKeeps
<1>2. ASSUME NEW c \in Made, Store(c) PROVE IInv'
  BY <1>2, StoreKeeps
<1>3. ASSUME NEW op \in Comparisons, NEW v \in Elements, NEW w \in Elements, Compare(op, v, w)
      PROVE  IInv'
  BY <1>3, CompareKeeps
<1>4. ASSUME NEW op \in Comparisons, NEW v \in Scalars, NEW w \in Scalars, Compare(op, v, w)
      PROVE  IInv'
  BY <1>4, CompareKeeps
<1>5. ASSUME NEW v \in Refs, PrintValue(v) PROVE IInv'
  BY <1>5, PrintValueKeeps
<1>6. ASSUME NEW op \in Operators, NEW v \in Scalars, NEW w \in Scalars, Operate(op, v, w)
      PROVE  IInv'
  BY <1>6, OperateKeeps
<1>7. CASE Step
  BY <1>7, EqStepKeeps, PrintStepKeeps DEF Step
<1>8. CASE Crashed
  BY <1>8, StutterIInv DEF Crashed
<1>9. CASE UNCHANGED vars
  BY <1>9, StutterIInv
<1> QED
  BY <1>1, <1>2, <1>3, <1>4, <1>5, <1>6, <1>7, <1>8, <1>9 DEF Next

LEMMA Invariance == Spec => []IInv
BY InitIInv, StepIInv, PTL DEF Spec

(* The heap holds values of the program, the C functions that were called  *)
(* fit on their stack, and repr_stack is empty between the evaluations.    *)
THEOREM TypesKept == Spec => []TypeOK
<1>1. IInv => TypeOK
  <2> SUFFICES ASSUME IInv PROVE TypeOK
    OBVIOUS
  <2>1. Made \subseteq Cells /\ Len(work) <= CStack
    BY DEF IInv, HeapOK
  <2>2. ASSUME NEW c \in Made
        PROVE  Len(heap[c]) <= MaxLen[c] /\ Range(heap[c]) \subseteq Elements
    BY DEF IInv, HeapOK, Range
  <2>3. answer = None <=> work # <<>> /\ answer # Crash
    <3>1. CASE Going
      BY <3>1, ValueFacts DEF Going, PathOK
    <3>2. CASE Done
      BY <3>2 DEF Done
    <3> QED
      BY <3>1, <3>2 DEF IInv
  <2>4. answer # None /\ answer # Crash => repr = <<>>
    BY DEF IInv, Going, Done
  <2> QED
    BY <2>1, <2>2, <2>3, <2>4 DEF TypeOK
<1> QED
  BY <1>1, Invariance, PTL

(* cb_value_eq and cb_value_cmp, called for each element that differs in   *)
(* its slot, and the printing functions with their repr_stack, go no       *)
(* deeper than there are cells, unless two cyclic values are compared; and *)
(* nothing else crashes but a division that traps.                         *)
THEOREM StackAlwaysSuffices == Spec => []StackSuffices
<1>1. IInv => StackSuffices
  BY DEF IInv
<1> QED
  BY <1>1, Invariance, PTL

(* repr_enter finds exactly the cells that are inside themselves: "..." is *)
(* printed for a cell that is open, and has a path to itself.              *)
THEOREM DotsAlwaysInside == Spec => []DotsOnlyInside
<1>1. IInv => DotsOnlyInside
  BY DEF IInv, DotsOK, DotsOnlyInside
<1> QED
  BY <1>1, Invariance, PTL

(* Comparison gives the verdict of the largest relation that agrees with   *)
(* the heap, whatever is shared or cyclic; arithmetic of integers is exact *)
(* or an error, for every width, and division is the one of C.             *)
THEOREM OperatorsAlwaysRight == Spec => []OperatorsRight
<1>1. IInv => OperatorsRight
  BY DEF IInv
<1> QED
  BY <1>1, Invariance, PTL
=============================================================================
