------------------------------ MODULE GcProofs ------------------------------
(***************************************************************************)
(* What holds of the collector of gc.c for every heap, every kind and size *)
(* of object and every bound: nothing reachable is freed, everything else  *)
(* is, no mark is left over, and a function is freed before its code.      *)
(***************************************************************************)
EXTENDS Gc, SequenceTheorems, FiniteSetTheorems, TLAPS

Marking == phase \in {"roots", "queue"}

(* The objects the sweep under way leaves.                                 *)
Kept == Range(swept) \cup mark

(* What each phase leaves empty.                                           *)
PhaseInv ==
  /\ phase # "sweep" => swept = <<>>
  /\ phase # "roots" => scan = {}
  /\ ~Marking => queue = <<>>
  /\ phase = "run" => mark = {}

(* The two parts of the list hold every allocated object once.             *)
Distinct(s) == \A i, j \in DOMAIN s : s[i] = s[j] => i = j
ListInv ==
  /\ Range(swept) \cup Range(allocated) = Live
  /\ Range(swept) \cap Range(allocated) = {}
  /\ Distinct(swept) /\ Distinct(allocated)

(* A function's first reference is its code.                               *)
HasCode(o, r) == Kind[o] = "function" => 1 \in DOMAIN r /\ Kind[r[1]] = "code"
CodeInv == \A o \in Live : HasCode(o, refs[o])

(* The allocation that waits refers to reachable objects only, and its     *)
(* address is free.                                                        *)
PendingInv ==
  pending # None =>
    /\ pending.obj \notin Live
    /\ HasCode(pending.obj, pending.refs)
    /\ Range(pending.refs) \subseteq Reach(roots)

(* No reference dangles; while a sweep runs, none of what it leaves.       *)
NoDangling ==
  /\ roots \subseteq Live
  /\ phase # "sweep" => Closed(Live)

(* The marks are between what the roots need and what they reach, and what *)
(* a marked object refers to is marked or queued.                          *)
MarkInv ==
  Marking =>
    /\ mark \subseteq Reach(roots) /\ Range(queue) \subseteq Reach(roots)
    /\ scan \subseteq roots /\ roots \subseteq mark \cup scan
    /\ \A o \in mark : Children(o) \subseteq mark \cup Range(queue)

SweepInv ==
  phase = "sweep" =>
    /\ Kept = Reach(roots) /\ roots \subseteq Kept /\ Closed(Kept)
    /\ mark \subseteq Range(allocated)

(* The list is newest first, so a function's code comes after it.          *)
After(o, s, i) == \E j \in DOMAIN s : j > i /\ s[j] = o
OrderInv ==
  /\ \A i \in DOMAIN allocated : Kind[allocated[i]] = "function" =>
       After(refs[allocated[i]][1], allocated, i)
  /\ \A i \in DOMAIN swept : Kind[swept[i]] = "function" =>
       \/ After(refs[swept[i]][1], swept, i)
       \/ refs[swept[i]][1] \in Range(allocated)

IInv ==
  /\ Typed /\ PhaseInv /\ ListInv /\ CodeInv /\ PendingInv
  /\ NoDangling /\ MarkInv /\ SweepInv /\ OrderInv

-----------------------------------------------------------------------------
(* Sequences: what the list and the queue operations do to the set of      *)
(* their elements.                                                         *)
LEMMA ConcatRange ==
  ASSUME NEW S, NEW s \in Seq(S), NEW t \in Seq(S)
  PROVE  /\ s \o t \in Seq(S)
         /\ Range(s \o t) = Range(s) \cup Range(t)
<1>1. /\ s \o t \in Seq(S)
      /\ Len(s \o t) = Len(s) + Len(t)
      /\ \A i \in 1 .. Len(s) : (s \o t)[i] = s[i]
      /\ \A i \in 1 .. Len(t) : (s \o t)[Len(s) + i] = t[i]
  OBVIOUS
<1>2. ASSUME NEW i \in DOMAIN (s \o t)  PROVE (s \o t)[i] \in Range(s) \cup Range(t)
  <2>1. CASE i \in 1 .. Len(s)
    BY <1>1, <2>1 DEF Range
  <2>2. CASE i \notin 1 .. Len(s)
    <3>1. i - Len(s) \in 1 .. Len(t) /\ i = Len(s) + (i - Len(s))
      BY <1>1, <2>2
    <3>2. (s \o t)[i] = t[i - Len(s)]
      BY <1>1, <3>1
    <3> QED BY <3>1, <3>2 DEF Range
  <2> QED BY <2>1, <2>2
<1>3. ASSUME NEW i \in DOMAIN s  PROVE s[i] \in Range(s \o t)
  <2>1. i \in DOMAIN (s \o t)
    BY <1>1
  <2> QED BY <1>1, <2>1 DEF Range
<1>4. ASSUME NEW i \in DOMAIN t  PROVE t[i] \in Range(s \o t)
  <2>1. Len(s) + i \in DOMAIN (s \o t)
    BY <1>1
  <2> QED BY <1>1, <2>1 DEF Range
<1> QED BY <1>1, <1>2, <1>3, <1>4 DEF Range

LEMMA RangeOf ==
  ASSUME NEW S, NEW s \in Seq(S)
  PROVE  Range(s) \subseteq S /\ (s # <<>> => Head(s) \in Range(s))
<1>1. Range(s) \subseteq S
  BY DEF Range
<1>2. ASSUME s # <<>>  PROVE Head(s) \in Range(s)
  <2>1. 1 \in DOMAIN s /\ Head(s) = s[1]
    BY <1>2
  <2> QED BY <2>1 DEF Range
<1> QED BY <1>1, <1>2

LEMMA TailRange ==
  ASSUME NEW S, NEW s \in Seq(S), s # <<>>
  PROVE  /\ Tail(s) \in Seq(S) /\ Head(s) \in S
         /\ Range(s) = {Head(s)} \cup Range(Tail(s))
         /\ Distinct(s) => Distinct(Tail(s)) /\ Head(s) \notin Range(Tail(s))
<1>1. /\ Tail(s) \in Seq(S) /\ Len(s) \in Nat /\ Len(s) >= 1
      /\ Len(Tail(s)) = Len(s) - 1 /\ Head(s) = s[1]
      /\ \A i \in 1 .. Len(Tail(s)) : Tail(s)[i] = s[i + 1]
  OBVIOUS
<1>2. 1 \in DOMAIN s /\ s[1] \in S
  BY <1>1
<1>3. ASSUME NEW i \in DOMAIN Tail(s)  PROVE i + 1 \in DOMAIN s /\ Tail(s)[i] = s[i + 1]
  BY <1>1
<1>4. ASSUME NEW i \in DOMAIN s, i # 1
      PROVE  i - 1 \in DOMAIN Tail(s) /\ Tail(s)[i - 1] = s[i]
  <2>1. i - 1 \in 1 .. Len(Tail(s)) /\ (i - 1) + 1 = i
    BY <1>1, <1>4
  <2> QED BY <1>1, <2>1
<1>5. Range(s) = {Head(s)} \cup Range(Tail(s))
  <2>1. ASSUME NEW i \in DOMAIN s  PROVE s[i] \in {Head(s)} \cup Range(Tail(s))
    BY <1>1, <1>4 DEF Range
  <2>2. ASSUME NEW i \in DOMAIN Tail(s)  PROVE Tail(s)[i] \in Range(s)
    BY <1>3 DEF Range
  <2> QED BY <1>1, <1>2, <2>1, <2>2 DEF Range
<1>6. ASSUME Distinct(s)  PROVE Distinct(Tail(s)) /\ Head(s) \notin Range(Tail(s))
  <2>1. ASSUME NEW i \in DOMAIN Tail(s), NEW j \in DOMAIN Tail(s), Tail(s)[i] = Tail(s)[j]
        PROVE  i = j
    <3>1. i \in Nat /\ j \in Nat
      BY <1>1
    <3>2. i + 1 = j + 1
      BY <1>3, <1>6, <2>1 DEF Distinct
    <3> QED BY <3>1, <3>2
  <2>2. ASSUME NEW i \in DOMAIN Tail(s), Tail(s)[i] = Head(s)  PROVE FALSE
    <3>1. i \in Nat /\ i >= 1
      BY <1>1
    <3>2. i + 1 = 1
      BY <1>1, <1>2, <1>3, <1>6, <2>2 DEF Distinct
    <3> QED BY <3>1, <3>2
  <2> QED BY <2>1, <2>2 DEF Distinct, Range
<1> QED BY <1>1, <1>2, <1>5, <1>6

LEMMA AppendRange ==
  ASSUME NEW S, NEW s \in Seq(S), NEW x \in S
  PROVE  /\ Append(s, x) \in Seq(S)
         /\ Range(Append(s, x)) = Range(s) \cup {x}
         /\ Distinct(s) /\ x \notin Range(s) => Distinct(Append(s, x))
<1>1. /\ Append(s, x) \in Seq(S) /\ Len(s) \in Nat
      /\ Len(Append(s, x)) = Len(s) + 1
      /\ Append(s, x)[Len(s) + 1] = x
      /\ \A i \in 1 .. Len(s) : Append(s, x)[i] = s[i]
  OBVIOUS
<1>2. DOMAIN Append(s, x) = DOMAIN s \cup {Len(s) + 1}
  BY <1>1
<1>3. \A i \in DOMAIN s : Append(s, x)[i] = s[i]
  BY <1>1
<1>4. Range(Append(s, x)) = Range(s) \cup {x}
  BY <1>1, <1>2, <1>3 DEF Range
<1>5. ASSUME Distinct(s), x \notin Range(s)  PROVE Distinct(Append(s, x))
  BY <1>1, <1>2, <1>3, <1>5 DEF Distinct, Range
<1> QED BY <1>1, <1>4, <1>5

LEMMA EmptyRange == Range(<<>>) = {} /\ Distinct(<<>>)
BY DEF Range, Distinct

LEMMA ConsRange ==
  ASSUME NEW S, NEW s \in Seq(S), NEW x \in S
  PROVE  /\ <<x>> \o s \in Seq(S)
         /\ Range(<<x>> \o s) = {x} \cup Range(s)
         /\ Distinct(s) /\ x \notin Range(s) => Distinct(<<x>> \o s)
<1> DEFINE t == <<x>> \o s
<1>1. /\ t \in Seq(S) /\ Len(s) \in Nat /\ Len(t) = 1 + Len(s) /\ t[1] = x
      /\ \A i \in 1 .. Len(s) : t[1 + i] = s[i]
  OBVIOUS
<1>2. 1 \in DOMAIN t /\ \A i \in DOMAIN s : i + 1 \in DOMAIN t /\ t[i + 1] = s[i]
  BY <1>1
<1>3. ASSUME NEW i \in DOMAIN t, i # 1  PROVE i - 1 \in DOMAIN s /\ t[i] = s[i - 1]
  <2>1. i - 1 \in 1 .. Len(s) /\ i = 1 + (i - 1)
    BY <1>1, <1>3
  <2> QED BY <1>1, <2>1
<1>4. Range(t) = {x} \cup Range(s)
  <2>1. ASSUME NEW i \in DOMAIN t  PROVE t[i] \in {x} \cup Range(s)
    BY <1>1, <1>3 DEF Range
  <2>2. x \in Range(t)
    BY <1>1, <1>2 DEF Range
  <2>3. ASSUME NEW i \in DOMAIN s  PROVE s[i] \in Range(t)
    BY <1>2 DEF Range
  <2> QED BY <2>1, <2>2, <2>3 DEF Range
<1>5. ASSUME Distinct(s), x \notin Range(s)  PROVE Distinct(t)
  <2> SUFFICES ASSUME NEW i \in DOMAIN t, NEW j \in DOMAIN t, t[i] = t[j]  PROVE i = j
    BY DEF Distinct
  <2>0. i \in Nat /\ j \in Nat
    BY <1>1
  <2>1. CASE i = 1 /\ j # 1
    BY <1>1, <1>3, <1>5, <2>1 DEF Range
  <2>2. CASE i # 1 /\ j = 1
    BY <1>1, <1>3, <1>5, <2>2 DEF Range
  <2>3. CASE i # 1 /\ j # 1
    <3>1. i - 1 = j - 1
      BY <1>3, <1>5, <2>3 DEF Distinct
    <3> QED BY <2>0, <3>1
  <2> QED BY <2>1, <2>2, <2>3
<1> QED BY <1>1, <1>4, <1>5
-----------------------------------------------------------------------------
(* Reachability over any heap, so that it can be compared before and after *)
(* a step.                                                                 *)
ClosedUnder(r, C) == \A o \in C \cap DOMAIN r : Range(r[o]) \subseteq C
ReachIn(r, S) ==
  {o \in Objs : \A C \in SUBSET Objs : (S \subseteq C /\ ClosedUnder(r, C)) => o \in C}

LEMMA ReachIs == \A S : Reach(S) = ReachIn(refs, S) /\ Closed(S) = ClosedUnder(refs, S)
BY DEF Reach, ReachIn, Closed, ClosedUnder, Children, Live

LEMMA ReachContains ==
  ASSUME NEW r, NEW S \in SUBSET Objs
  PROVE  S \subseteq ReachIn(r, S) /\ ReachIn(r, S) \subseteq Objs
BY DEF ReachIn

LEMMA ReachClosed ==
  ASSUME NEW r, NEW S, \A o \in DOMAIN r : Range(r[o]) \subseteq Objs
  PROVE  ClosedUnder(r, ReachIn(r, S))
<1> SUFFICES ASSUME NEW o \in ReachIn(r, S) \cap DOMAIN r, NEW p \in Range(r[o])
             PROVE  p \in ReachIn(r, S)
  BY DEF ClosedUnder
<1>1. p \in Objs
  OBVIOUS
<1>2. ASSUME NEW C \in SUBSET Objs, S \subseteq C, ClosedUnder(r, C)  PROVE p \in C
  <2>1. o \in C
    BY <1>2 DEF ReachIn
  <2> QED BY <1>2, <2>1 DEF ClosedUnder
<1> QED BY <1>1, <1>2 DEF ReachIn

LEMMA ReachLeast ==
  ASSUME NEW r, NEW S, NEW C \in SUBSET Objs, S \subseteq C, ClosedUnder(r, C)
  PROVE  ReachIn(r, S) \subseteq C
BY DEF ReachIn

(* What is reachable depends only on the references of reachable objects.   *)
LEMMA ReachLocal ==
  ASSUME NEW r1, NEW r2, NEW S \in SUBSET Objs, NEW D \in SUBSET Objs,
         S \subseteq D, ClosedUnder(r1, D),
         \A o \in D : o \in DOMAIN r1 <=> o \in DOMAIN r2,
         \A o \in D \cap DOMAIN r1 : r1[o] = r2[o]
  PROVE  ReachIn(r1, S) = ReachIn(r2, S)
<1>1. ClosedUnder(r2, D)
  BY DEF ClosedUnder
<1>2. ASSUME NEW o \in ReachIn(r1, S), NEW C \in SUBSET Objs, S \subseteq C, ClosedUnder(r2, C)
      PROVE  o \in C
  <2>1. S \subseteq C \cap D
    BY <1>2
  <2>2. ClosedUnder(r1, C \cap D)
    BY <1>2 DEF ClosedUnder
  <2> QED BY <2>1, <2>2 DEF ReachIn
<1>3. ASSUME NEW o \in ReachIn(r2, S), NEW C \in SUBSET Objs, S \subseteq C, ClosedUnder(r1, C)
      PROVE  o \in C
  <2>1. S \subseteq C \cap D
    BY <1>3
  <2>2. ClosedUnder(r2, C \cap D)
    BY <1>3, <1>1 DEF ClosedUnder
  <2> QED BY <2>1, <2>2 DEF ReachIn
<1>4. ReachIn(r1, S) \subseteq Objs /\ ReachIn(r2, S) \subseteq Objs
  BY DEF ReachIn
<1>5. ReachIn(r1, S) \subseteq ReachIn(r2, S)
  BY <1>2, <1>4 DEF ReachIn
<1>6. ReachIn(r2, S) \subseteq ReachIn(r1, S)
  BY <1>3, <1>4 DEF ReachIn
<1> QED BY <1>5, <1>6
-----------------------------------------------------------------------------
LEMMA HeapFacts ==
  ASSUME IInv
  PROVE  /\ roots \subseteq Objs /\ Live \subseteq Objs /\ Reach(roots) \subseteq Live
         /\ roots \subseteq Reach(roots) /\ Closed(Reach(roots))
         /\ \A o \in Live : refs[o] \in Seq(Objs) /\ Children(o) \subseteq Objs
<1>1. roots \subseteq Objs /\ Live \subseteq Objs /\ \A o \in Live : refs[o] \in Seq(Objs)
  BY DEF IInv, Typed
<1>2. \A o \in Live : Children(o) \subseteq Objs
  BY <1>1, RangeOf DEF Children
<1>3. Reach(roots) = ReachIn(refs, roots) /\ \A S : Closed(S) = ClosedUnder(refs, S)
  BY ReachIs
<1>4. roots \subseteq Reach(roots)
  BY <1>1, <1>3, ReachContains
<1>5. Closed(Reach(roots))
  BY <1>2, <1>3, ReachClosed DEF Children, Live
<1>6. Reach(roots) \subseteq Live
  <2>1. CASE phase = "sweep"
    BY <2>1 DEF IInv, SweepInv, Kept, ListInv
  <2>2. CASE phase # "sweep"
    BY <2>2, <1>1, <1>3, ReachLeast DEF IInv, NoDangling
  <2> QED BY <2>1, <2>2
<1> QED BY <1>1, <1>2, <1>4, <1>5, <1>6

LEMMA InitOK == Init => IInv
<1> SUFFICES ASSUME Init  PROVE IInv
  OBVIOUS
<1> USE DEF Init
<1>0. Live = {} /\ Range(allocated) = {} /\ Range(swept) = {}
  BY DEF Live, Range
<1>1. Typed
  <2>1. refs \in [Live -> Seq(Objs)]
    BY DEF Live
  <2>2. allocated \in Seq(Objs) /\ swept \in Seq(Objs) /\ queue \in Seq(Objs)
    OBVIOUS
  <2>3. amount \in Int /\ threshold \in Int
    BY ObjAssumption
  <2>5. enabled \in BOOLEAN
    BY Zenon
  <2>4. pending \in {None} \cup [obj : Objs, refs : Seq(Objs)]
    OBVIOUS
  <2> QED BY <1>0, <2>1, <2>2, <2>3, <2>4, <2>5 DEF Typed
<1>2. PhaseInv
  BY DEF PhaseInv, Marking
<1>3. ListInv
  BY <1>0 DEF ListInv, Distinct
<1>4. CodeInv /\ NoDangling /\ PendingInv
  BY <1>0 DEF CodeInv, NoDangling, PendingInv, Closed
<1>5. MarkInv /\ SweepInv
  BY DEF MarkInv, SweepInv, Marking
<1>6. OrderInv
  BY DEF OrderInv
<1> QED BY <1>1, <1>2, <1>3, <1>4, <1>5, <1>6 DEF IInv

(* A new object enters the heap with references the program holds.          *)
LEMMA RegisterOK ==
  ASSUME IInv, Running, NEW o \in Objs \ Live, NEW rs \in Seq(Objs),
         HasCode(o, rs), Range(rs) \subseteq Reach(roots),
         Register(o, rs), UNCHANGED <<collector, threshold, enabled>>
  PROVE  IInv'
<1> USE DEF Running
<1>0. /\ swept = <<>> /\ scan = {} /\ queue = <<>> /\ mark = {} /\ pending' = None
      /\ swept' = <<>> /\ scan' = {} /\ queue' = <<>> /\ mark' = {} /\ phase' = "run"
      /\ phase = "run" /\ threshold' = threshold /\ enabled' = enabled
      /\ roots' = roots \cup {o} /\ amount' = amount + Size[o]
      /\ allocated' = <<o>> \o allocated
  BY DEF IInv, PhaseInv, Marking, Register, collector
<1>1. /\ Live' = Live \cup {o} /\ Live \subseteq Objs /\ o \notin Live
      /\ \A p \in Live : refs'[p] = refs[p] /\ refs[p] \in Seq(Objs)
      /\ refs'[o] = rs /\ refs' = [p \in Live' |-> refs'[p]]
  BY DEF Register, Live, IInv, Typed
<1>2. /\ allocated \in Seq(Objs) /\ allocated' \in Seq(Objs)
      /\ Range(allocated') = {o} \cup Range(allocated)
      /\ Range(allocated) = Live /\ Distinct(allocated')
  <2>1. allocated \in Seq(Objs) /\ Range(allocated) = Live /\ Distinct(allocated)
    BY <1>0, EmptyRange DEF IInv, Typed, ListInv
  <2> QED BY <2>1, <1>0, <1>1, ConsRange
<1>3. Typed'
  <2>1. refs' \in [Live' -> Seq(Objs)]
    BY <1>1
  <2>2. amount' \in Int
    BY <1>0, ObjAssumption DEF IInv, Typed
  <2>3. <<>> \in Seq(Objs)
    OBVIOUS
  <2> QED BY <1>0, <1>1, <1>2, <2>1, <2>2, <2>3 DEF IInv, Typed
<1>4. PhaseInv' /\ MarkInv' /\ SweepInv'
  BY <1>0 DEF PhaseInv, MarkInv, SweepInv, Marking
<1>5. ListInv'
  BY <1>0, <1>1, <1>2, EmptyRange DEF ListInv
<1>6. CodeInv'
  BY <1>1 DEF CodeInv, IInv, HasCode
<1>7. PendingInv'
  BY <1>0 DEF PendingInv
<1>8. NoDangling'
  <2>1. \A p \in Live' : Range(refs'[p]) \subseteq Live'
    BY <1>0, <1>1, HeapFacts DEF IInv, NoDangling, Closed, Children
  <2>2. roots' \subseteq Live'
    BY <1>0, <1>1 DEF IInv, NoDangling
  <2> QED BY <2>1, <2>2 DEF NoDangling, Closed, Children
<1>9. OrderInv'
  <2>1. /\ DOMAIN allocated' = {1} \cup {i + 1 : i \in DOMAIN allocated}
        /\ allocated'[1] = o
        /\ \A i \in DOMAIN allocated : i \in Nat /\ i >= 1 /\ allocated'[i + 1] = allocated[i]
    <3>1. /\ Len(allocated') = 1 + Len(allocated) /\ Len(allocated) \in Nat
          /\ \A i \in 1 .. Len(allocated) : allocated'[1 + i] = allocated[i]
          /\ allocated'[1] = o
      BY <1>0, <1>2
    <3>2. \A i \in 1 .. Len(allocated') : i = 1 \/ i - 1 \in 1 .. Len(allocated)
      BY <3>1
    <3>3. DOMAIN allocated' = 1 .. Len(allocated') /\ DOMAIN allocated = 1 .. Len(allocated)
      BY <1>2
    <3>4. \A i \in DOMAIN allocated' : i \in {1} \cup {j + 1 : j \in DOMAIN allocated}
      <4> SUFFICES ASSUME NEW i \in DOMAIN allocated', i # 1
                   PROVE  \E j \in DOMAIN allocated : i = j + 1
        OBVIOUS
      <4>1. i - 1 \in DOMAIN allocated /\ i = (i - 1) + 1
        BY <3>1, <3>2, <3>3
      <4> QED BY <4>1
    <3>5. \A i \in DOMAIN allocated : i + 1 \in DOMAIN allocated'
      BY <3>1, <3>3
    <3>6. 1 \in DOMAIN allocated'
      BY <3>1, <3>3
    <3> QED BY <3>1, <3>3, <3>4, <3>5, <3>6
  <2>2. ASSUME Kind[o] = "function"  PROVE After(rs[1], allocated', 1)
    <3>1. rs[1] \in Live
      BY <2>2, HeapFacts DEF HasCode, Range
    <3>2. PICK j \in DOMAIN allocated : allocated[j] = rs[1]
      BY <3>1, <1>2 DEF Range
    <3>3. j + 1 \in DOMAIN allocated' /\ j + 1 > 1 /\ allocated'[j + 1] = rs[1]
      BY <2>1, <3>2
    <3> QED BY <3>3 DEF After
  <2>3. ASSUME NEW i \in DOMAIN allocated, Kind[allocated[i]] = "function"
        PROVE  After(refs'[allocated[i]][1], allocated', i + 1)
    <3>1. allocated[i] \in Live
      BY <1>2 DEF Range
    <3>2. PICK j \in DOMAIN allocated : j > i /\ allocated[j] = refs[allocated[i]][1]
      BY <2>3 DEF IInv, OrderInv, After
    <3>3. j + 1 \in DOMAIN allocated' /\ j + 1 > i + 1 /\ allocated'[j + 1] = allocated[j]
      BY <2>1, <3>2
    <3> QED BY <1>1, <3>1, <3>2, <3>3 DEF After
  <2>4. \A i \in DOMAIN allocated' : Kind[allocated'[i]] = "function" =>
          After(refs'[allocated'[i]][1], allocated', i)
    BY <1>1, <2>1, <2>2, <2>3
  <2>5. DOMAIN swept' = {}
    BY <1>0
  <2> QED BY <2>4, <2>5 DEF OrderInv, After
<1> QED BY <1>3, <1>4, <1>5, <1>6, <1>7, <1>8, <1>9 DEF IInv
(* A collection starts; the allocation it may run in is as PendingInv asks. *)
LEMMA BeginMarkOK ==
  ASSUME IInv, Running, BeginMark, UNCHANGED <<threshold, enabled>>,
         PendingInv', pending' \in {None} \cup [obj : Objs, refs : Seq(Objs)]
  PROVE  IInv'
<1> USE DEF Running, BeginMark
<1>0. /\ swept = <<>> /\ queue = <<>> /\ mark = {}
      /\ Live' = Live /\ Closed(Live)' = Closed(Live)
  BY DEF IInv, PhaseInv, Marking, Live, Closed, Children
<1>1. Typed'
  BY <1>0 DEF IInv, Typed
<1>2. PhaseInv'
  BY <1>0 DEF PhaseInv, Marking
<1>3. ListInv'
  BY <1>0 DEF IInv, ListInv
<1>4. CodeInv' /\ NoDangling'
  BY <1>0 DEF IInv, CodeInv, NoDangling
<1>5. MarkInv' /\ SweepInv'
  BY <1>0, EmptyRange DEF MarkInv, SweepInv, Marking
<1>6. OrderInv'
  BY <1>0 DEF IInv, OrderInv, After
<1> QED BY <1>1, <1>2, <1>3, <1>4, <1>5, <1>6 DEF IInv

(* The program changes its roots, to objects that are allocated.           *)
LEMMA RootsOK ==
  ASSUME IInv, Running, pending = None, roots' \subseteq Live,
         UNCHANGED <<refs, allocated, amount, threshold, enabled, pending, collector>>
  PROVE  IInv'
<1> USE DEF Running, collector
<1>0. Live' = Live /\ Closed(Live)' = Closed(Live)
  BY DEF Live, Closed, Children
<1>1. Typed' /\ PhaseInv' /\ ListInv' /\ CodeInv'
  BY <1>0 DEF IInv, Typed, PhaseInv, Marking, ListInv, CodeInv
<1>2. PendingInv' /\ NoDangling' /\ MarkInv' /\ SweepInv'
  BY <1>0 DEF IInv, PendingInv, NoDangling, MarkInv, SweepInv, Marking
<1>3. OrderInv'
  BY DEF IInv, OrderInv, After
<1> QED BY <1>1, <1>2, <1>3 DEF IInv

(* The program changes the references of one object.                       *)
LEMMA StoreOK ==
  ASSUME IInv, Running, pending = None, NEW o \in Live, NEW rs \in Seq(Objs),
         Range(rs) \subseteq Live,
         Kind[o] = "function" => 1 \in DOMAIN rs /\ rs[1] = refs[o][1],
         refs' = [refs EXCEPT ![o] = rs],
         UNCHANGED <<roots, allocated, amount, threshold, enabled, pending, collector>>
  PROVE  IInv'
<1> USE DEF Running, collector
<1>0. /\ Live' = Live /\ refs'[o] = rs /\ refs' \in [Live -> Seq(Objs)]
      /\ \A p \in Live \ {o} : refs'[p] = refs[p]
  BY DEF Live, IInv, Typed
<1>1. \A p \in Live : Kind[p] = "function" => refs'[p][1] = refs[p][1]
  BY <1>0
<1>2. Typed' /\ PhaseInv' /\ ListInv'
  BY <1>0 DEF IInv, Typed, PhaseInv, Marking, ListInv
<1>3. CodeInv'
  BY <1>0 DEF IInv, CodeInv, HasCode
<1>4. PendingInv' /\ MarkInv' /\ SweepInv'
  BY <1>0 DEF PendingInv, MarkInv, SweepInv, Marking
<1>5. NoDangling'
  BY <1>0 DEF IInv, NoDangling, Closed, Children
<1>6. OrderInv'
  <2>1. \A i \in DOMAIN allocated : allocated[i] \in Live
    BY DEF IInv, ListInv, Range
  <2>2. \A i \in DOMAIN swept : swept[i] \in Live
    BY DEF IInv, ListInv, Range
  <2> QED BY <1>1, <2>1, <2>2 DEF IInv, OrderInv, After
<1> QED BY <1>2, <1>3, <1>4, <1>5, <1>6 DEF IInv

LEMMA LinkOK ==
  ASSUME IInv, NEW o \in Objs, NEW p \in Objs, Link(o, p)
  PROVE  IInv'
<1>1. o \in Live /\ p \in Live /\ refs[o] \in Seq(Objs)
  BY HeapFacts DEF Link
<1>2. /\ Append(refs[o], p) \in Seq(Objs)
      /\ Range(Append(refs[o], p)) = Children(o) \cup {p}
  BY <1>1, AppendRange DEF Children
<1>3. Range(Append(refs[o], p)) \subseteq Live
  BY <1>1, <1>2 DEF IInv, NoDangling, Closed, Link, Running
<1>4. Kind[o] = "function" =>
        1 \in DOMAIN Append(refs[o], p) /\ Append(refs[o], p)[1] = refs[o][1]
  <2> SUFFICES ASSUME Kind[o] = "function"
               PROVE  1 \in DOMAIN Append(refs[o], p) /\ Append(refs[o], p)[1] = refs[o][1]
    OBVIOUS
  <2>1. 1 \in DOMAIN refs[o]
    BY <1>1 DEF IInv, CodeInv, HasCode
  <2> QED BY <1>1, <2>1
<1> QED BY <1>1, <1>2, <1>3, <1>4, StoreOK DEF Link

LEMMA UnlinkOK ==
  ASSUME IInv, NEW o \in roots, Unlink(o)
  PROVE  IInv'
<1> DEFINE rs == SubSeq(refs[o], 1, Len(refs[o]) - 1)
<1>1. o \in Live /\ refs[o] \in Seq(Objs)
  BY HeapFacts DEF Unlink
<1>2. /\ rs \in Seq(Objs) /\ DOMAIN rs \subseteq DOMAIN refs[o]
      /\ \A i \in DOMAIN rs : rs[i] = refs[o][i]
  BY <1>1 DEF Unlink
<1>3. Range(rs) \subseteq Live
  BY <1>1, <1>2 DEF Range, IInv, NoDangling, Closed, Children, Unlink, Running
<1>4. Kind[o] = "function" => 1 \in DOMAIN rs /\ rs[1] = refs[o][1]
  BY <1>1, <1>2 DEF Unlink
<1> QED BY <1>1, <1>2, <1>3, <1>4, StoreOK DEF Unlink
-----------------------------------------------------------------------------
(* Visiting a reachable object.                                            *)
LEMMA VisitOK ==
  ASSUME IInv, Marking, NEW o \in Reach(roots), NEW q \in Seq(Objs),
         Range(q) \subseteq Reach(roots), Range(queue) \subseteq Range(q) \cup {o},
         Visit(o, q)
  PROVE  /\ mark' \subseteq Reach(roots) /\ mark \cup {o} \subseteq mark'
         /\ queue' \in Seq(Objs) /\ Range(queue') \subseteq Reach(roots)
         /\ \A m \in mark' : Children(m) \subseteq mark' \cup Range(queue')
<1>1. /\ o \in Live /\ refs[o] \in Seq(Objs) /\ Children(o) \subseteq Reach(roots)
      /\ Reach(roots) \subseteq Live
  BY HeapFacts DEF Closed
<1>2. /\ mark \subseteq Reach(roots)
      /\ \A m \in mark : Children(m) \subseteq mark \cup Range(queue)
  BY DEF IInv, MarkInv
<1>3. CASE TestsMark(o) /\ o \in mark
  BY <1>2, <1>3 DEF Visit
<1>4. CASE ~(TestsMark(o) /\ o \in mark)
  <2>1. mark' = mark \cup {o} /\ queue' = refs[o] \o q
    BY <1>4 DEF Visit
  <2>2. queue' \in Seq(Objs) /\ Range(queue') = Children(o) \cup Range(q)
    BY <1>1, <2>1, ConcatRange DEF Children
  <2> QED BY <1>1, <1>2, <2>1, <2>2
<1> QED BY <1>3, <1>4

(* Every step of the marking phase.                                        *)
LEMMA MarkingOK ==
  ASSUME IInv, Marking, UNCHANGED marking, phase' \in {"roots", "queue"},
         mark' \subseteq Reach(roots), queue' \in Seq(Objs),
         Range(queue') \subseteq Reach(roots),
         scan' \subseteq roots, phase' # "roots" => scan' = {},
         roots \subseteq mark' \cup scan',
         \A m \in mark' : Children(m) \subseteq mark' \cup Range(queue')
  PROVE  IInv'
<1> USE DEF marking
<1>0. /\ Live' = Live /\ Reach(roots)' = Reach(roots) /\ Closed(Live)' = Closed(Live)
      /\ \A m : Children(m)' = Children(m)
      /\ phase # "sweep" /\ swept = <<>> /\ Marking'
  BY DEF Live, Reach, Closed, Children, Marking, IInv, PhaseInv
<1>1. Typed'
  BY <1>0, HeapFacts DEF IInv, Typed
<1>2. PhaseInv'
  BY <1>0 DEF PhaseInv, Marking
<1>3. ListInv' /\ CodeInv' /\ PendingInv'
  BY <1>0 DEF IInv, ListInv, CodeInv, PendingInv
<1>4. NoDangling'
  BY <1>0 DEF IInv, NoDangling
<1>5. MarkInv' /\ SweepInv'
  BY <1>0 DEF MarkInv, SweepInv
<1>6. OrderInv'
  BY DEF IInv, OrderInv, After
<1> QED BY <1>1, <1>2, <1>3, <1>4, <1>5, <1>6 DEF IInv

LEMMA MarkRootOK == ASSUME IInv, MarkRoot  PROVE IInv'
<1>1. PICK o \in scan : Visit(o, queue) /\ scan' = scan \ {o}
  BY DEF MarkRoot
<1>2. /\ phase = "roots" /\ phase' = "roots" /\ UNCHANGED marking /\ Marking
  BY DEF MarkRoot, Marking
<1>3. /\ scan \subseteq roots /\ roots \subseteq mark \cup scan
      /\ queue \in Seq(Objs) /\ Range(queue) \subseteq Reach(roots)
      /\ o \in Reach(roots)
  BY <1>2, HeapFacts DEF IInv, MarkInv, Typed
<1>4. /\ mark' \subseteq Reach(roots) /\ mark \cup {o} \subseteq mark'
      /\ queue' \in Seq(Objs) /\ Range(queue') \subseteq Reach(roots)
      /\ \A m \in mark' : Children(m) \subseteq mark' \cup Range(queue')
  BY <1>1, <1>2, <1>3, VisitOK
<1> QED BY <1>1, <1>2, <1>3, <1>4, MarkingOK

LEMMA RootsDoneOK == ASSUME IInv, RootsDone  PROVE IInv'
<1>1. Marking /\ UNCHANGED marking /\ phase' = "queue"
      /\ mark' = mark /\ queue' = queue /\ scan' = {} /\ scan = {}
  BY DEF RootsDone, Marking
<1> QED BY <1>1, MarkingOK DEF IInv, MarkInv, Typed

LEMMA EvaluateQueueOK == ASSUME IInv, EvaluateQueue  PROVE IInv'
<1> DEFINE o == Head(queue)
           q == Tail(queue)
<1>1. /\ Marking /\ UNCHANGED marking /\ phase' = "queue" /\ scan' = scan
      /\ Visit(o, q)
  BY DEF EvaluateQueue, Marking
<1>2. /\ Range(queue) \subseteq Reach(roots) /\ roots \subseteq mark \cup scan
      /\ scan = {}
  BY <1>1 DEF IInv, MarkInv, PhaseInv, EvaluateQueue
<1>3. /\ q \in Seq(Objs) /\ Range(queue) = {o} \cup Range(q)
  BY TailRange DEF IInv, Typed, EvaluateQueue
<1>4. /\ mark' \subseteq Reach(roots) /\ mark \cup {o} \subseteq mark'
      /\ queue' \in Seq(Objs) /\ Range(queue') \subseteq Reach(roots)
      /\ \A m \in mark' : Children(m) \subseteq mark' \cup Range(queue')
  <2> HIDE DEF o, q
  <2> QED BY <1>1, <1>2, <1>3, VisitOK
<1> QED BY <1>1, <1>2, <1>4, MarkingOK

LEMMA MarkDoneOK == ASSUME IInv, MarkDone  PROVE IInv'
<1> USE DEF marking
<1>0. /\ Live' = Live /\ Reach(roots)' = Reach(roots)
      /\ \A m : Children(m)' = Children(m)
      /\ Marking /\ UNCHANGED marking /\ phase = "queue" /\ phase' = "sweep"
      /\ mark' = mark /\ queue = <<>> /\ queue' = <<>> /\ scan = {} /\ scan' = {}
      /\ swept = <<>> /\ swept' = <<>>
  BY DEF Live, Reach, Closed, Children, Marking, MarkDone, IInv, PhaseInv
<1>1. Typed'
  BY <1>0 DEF IInv, Typed
<1>2. PhaseInv'
  BY <1>0 DEF PhaseInv, Marking
<1>3. ListInv' /\ CodeInv' /\ PendingInv' /\ NoDangling' /\ MarkInv'
  BY <1>0 DEF IInv, ListInv, CodeInv, PendingInv, NoDangling, MarkInv, Marking
<1>4. SweepInv'
  <2>1. roots \subseteq mark /\ mark \subseteq Reach(roots) /\ Closed(mark)
    BY <1>0, EmptyRange DEF IInv, MarkInv, Closed
  <2>2. mark \in SUBSET Objs
    BY DEF IInv, Typed
  <2>3. Reach(roots) \subseteq mark
    BY <2>1, <2>2, ReachIs, ReachLeast
  <2>4. Range(swept') = {} /\ Range(allocated) = Live
    BY <1>0, EmptyRange DEF IInv, ListInv
  <2>5. mark \subseteq Live
    BY <2>1, HeapFacts
  <2> QED BY <1>0, <2>1, <2>3, <2>4, <2>5 DEF SweepInv, Kept, Closed
<1>5. OrderInv'
  BY DEF IInv, OrderInv, After, MarkDone
<1> QED BY <1>1, <1>2, <1>3, <1>4, <1>5 DEF IInv
-----------------------------------------------------------------------------
(* The positions of a list whose head is taken off.                        *)
LEMMA AfterTail ==
  ASSUME NEW s \in Seq(Objs), s # <<>>, NEW i \in DOMAIN s, NEW o, After(o, s, i)
  PROVE  /\ o \in Range(Tail(s))
         /\ i - 1 \in DOMAIN Tail(s) => After(o, Tail(s), i - 1)
<1>1. PICK j \in DOMAIN s : j > i /\ s[j] = o
  BY DEF After
<1>2. j - 1 \in DOMAIN Tail(s) /\ Tail(s)[j - 1] = o /\ j - 1 > i - 1
  BY <1>1
<1> QED BY <1>2 DEF After, Range

(* What the rest of the list keeps of the order.                           *)
LEMMA TailOrder ==
  ASSUME NEW s \in Seq(Objs), s # <<>>, NEW r,
         \A i \in DOMAIN s : Kind[s[i]] = "function" => After(r[s[i]][1], s, i)
  PROVE  \A i \in DOMAIN Tail(s) : Kind[Tail(s)[i]] = "function" =>
           After(r[Tail(s)[i]][1], Tail(s), i)
<1> SUFFICES ASSUME NEW i \in DOMAIN Tail(s), Kind[Tail(s)[i]] = "function"
             PROVE  After(r[Tail(s)[i]][1], Tail(s), i)
  OBVIOUS
<1>1. i + 1 \in DOMAIN s /\ s[i + 1] = Tail(s)[i] /\ (i + 1) - 1 = i
  OBVIOUS
<1>2. After(r[s[i + 1]][1], s, i + 1)
  BY <1>1
<1>3. After(r[s[i + 1]][1], Tail(s), (i + 1) - 1)
  BY <1>1, <1>2, AfterTail
<1> QED BY <1>1, <1>3

LEMMA SweepKeepOK == ASSUME IInv, SweepKeep  PROVE IInv'
<1> DEFINE h == Head(allocated)
<1> USE DEF SweepKeep, sweeping
<1>0. /\ phase = "sweep" /\ phase' = "sweep" /\ h \in mark
      /\ mark' = mark \ {h} /\ swept' = Append(swept, h) /\ allocated' = Tail(allocated)
      /\ queue' = queue /\ scan' = scan /\ queue = <<>> /\ scan = {}
      /\ UNCHANGED <<refs, roots, amount, threshold, enabled, pending>>
  BY DEF IInv, PhaseInv, Marking
<1>1. /\ Live' = Live /\ Reach(roots)' = Reach(roots)
      /\ \A m : Children(m)' = Children(m)
  BY DEF Live, Reach, Closed, Children
<1>2. /\ allocated \in Seq(Objs) /\ allocated # <<>> /\ swept \in Seq(Objs)
      /\ Distinct(swept) /\ Distinct(allocated)
      /\ Range(swept) \cup Range(allocated) = Live
      /\ Range(swept) \cap Range(allocated) = {}
  BY DEF IInv, Typed, ListInv
<1>3. /\ allocated' \in Seq(Objs) /\ h \in Objs /\ Distinct(allocated')
      /\ Range(allocated) = {h} \cup Range(allocated') /\ h \notin Range(allocated')
  BY <1>0, <1>2, TailRange
<1>4. /\ swept' \in Seq(Objs) /\ Range(swept') = Range(swept) \cup {h}
      /\ Distinct(swept')
  BY <1>0, <1>2, <1>3, AppendRange
<1>5. Typed'
  <2> HIDE DEF h
  <2> QED BY <1>0, <1>1, <1>3, <1>4 DEF IInv, Typed
<1>6. PhaseInv' /\ MarkInv'
  BY <1>0 DEF PhaseInv, MarkInv, Marking
<1>7. ListInv'
  BY <1>1, <1>2, <1>3, <1>4 DEF ListInv
<1>8. CodeInv' /\ PendingInv' /\ NoDangling'
  BY <1>0, <1>1 DEF IInv, CodeInv, PendingInv, NoDangling
<1>9. SweepInv'
  <2> HIDE DEF h
  <2>1. Range(swept') \cup mark' = Range(swept) \cup mark
    BY <1>0, <1>4
  <2> QED BY <1>0, <1>1, <1>3, <2>1 DEF IInv, SweepInv, Kept, Closed
<1>10. OrderInv'
  <2>1. \A i \in DOMAIN allocated' : Kind[allocated'[i]] = "function" =>
          After(refs[allocated'[i]][1], allocated', i)
    BY <1>0, <1>2, TailOrder DEF IInv, OrderInv
  <2>2. /\ DOMAIN swept' = DOMAIN swept \cup {Len(swept) + 1} /\ swept'[Len(swept) + 1] = h
        /\ \A i \in DOMAIN swept : swept'[i] = swept[i] /\ i \in Nat /\ Len(swept) + 1 > i
    <3> HIDE DEF h
    <3> QED BY <1>0, <1>2, <1>3
  <2>3. ASSUME NEW i \in DOMAIN swept, Kind[swept[i]] = "function"
        PROVE  \/ After(refs[swept[i]][1], swept', i)
               \/ refs[swept[i]][1] \in Range(allocated')
    <3> DEFINE c == refs[swept[i]][1]
    <3>1. CASE After(c, swept, i)
      BY <2>2, <3>1 DEF After
    <3>2. CASE c \in Range(allocated)
      BY <1>3, <2>2, <3>2 DEF After
    <3> QED BY <2>3, <3>1, <3>2 DEF IInv, OrderInv
  <2>4. Kind[h] = "function" => refs[h][1] \in Range(allocated')
    <3> SUFFICES ASSUME Kind[h] = "function"  PROVE refs[h][1] \in Range(allocated')
      OBVIOUS
    <3>1. 1 \in DOMAIN allocated /\ allocated[1] = h
      BY <1>2
    <3>2. After(refs[h][1], allocated, 1)
      BY <3>1 DEF IInv, OrderInv
    <3> QED BY <1>0, <1>2, <3>1, <3>2, AfterTail
  <2> HIDE DEF h
  <2>5. \A i \in DOMAIN swept' : Kind[swept'[i]] = "function" =>
          \/ After(refs[swept'[i]][1], swept', i)
          \/ refs[swept'[i]][1] \in Range(allocated')
    BY <2>2, <2>3, <2>4
  <2> QED BY <1>0, <2>1, <2>5 DEF OrderInv, After
<1> QED BY <1>5, <1>6, <1>7, <1>8, <1>9, <1>10 DEF IInv

LEMMA SweepFreeOK == ASSUME IInv, SweepFree  PROVE IInv'
<1> DEFINE h == Head(allocated)
<1> USE DEF SweepFree, sweeping
<1>0. /\ phase = "sweep" /\ phase' = "sweep" /\ h \notin mark /\ mark' = mark
      /\ swept' = swept /\ allocated' = Tail(allocated)
      /\ queue' = queue /\ scan' = scan /\ queue = <<>> /\ scan = {}
      /\ amount' = amount - Size[h] /\ refs' = Restrict(refs, Live \ {h})
      /\ UNCHANGED <<roots, threshold, enabled, pending>>
  BY DEF IInv, PhaseInv, Marking
<1>1. /\ Live' = Live \ {h} /\ Live \subseteq Objs /\ refs' \in [Live' -> Seq(Objs)]
      /\ \A p \in Live' : refs'[p] = refs[p]
  <2> HIDE DEF h
  <2> QED BY <1>0 DEF Live, Restrict, IInv, Typed
<1>2. /\ allocated \in Seq(Objs) /\ allocated # <<>> /\ swept \in Seq(Objs)
      /\ Distinct(swept) /\ Distinct(allocated)
      /\ Range(swept) \cup Range(allocated) = Live
      /\ Range(swept) \cap Range(allocated) = {}
  BY DEF IInv, Typed, ListInv
<1>3. /\ allocated' \in Seq(Objs) /\ h \in Objs /\ Distinct(allocated')
      /\ Range(allocated) = {h} \cup Range(allocated') /\ h \notin Range(allocated')
  BY <1>0, <1>2, TailRange
<1> HIDE DEF h
<1>4. /\ Kept' = Kept /\ h \notin Kept /\ Kept \subseteq Live'
      /\ Kept = Reach(roots) /\ roots \subseteq Kept /\ Closed(Kept)
  BY <1>0, <1>1, <1>2, <1>3 DEF Kept, IInv, SweepInv
<1>5. Reach(roots)' = Reach(roots)
  <2>1. ClosedUnder(refs, Kept) /\ Kept \in SUBSET Objs /\ roots \in SUBSET Objs
    BY <1>1, <1>4, ReachIs, HeapFacts
  <2>2. /\ \A o \in Kept : o \in DOMAIN refs <=> o \in DOMAIN refs'
        /\ \A o \in Kept \cap DOMAIN refs : refs[o] = refs'[o]
    BY <1>1, <1>4 DEF Live
  <2>3. ReachIn(refs, roots) = ReachIn(refs', roots)
    <3> DEFINE D == Kept
               r2 == refs'
    <3>1. /\ D \in SUBSET Objs /\ roots \subseteq D /\ ClosedUnder(refs, D)
          /\ \A o \in D : o \in DOMAIN refs <=> o \in DOMAIN r2
          /\ \A o \in D \cap DOMAIN refs : refs[o] = r2[o]
      BY <1>4, <2>1, <2>2
    <3> HIDE DEF D, r2
    <3>2. ReachIn(refs, roots) = ReachIn(r2, roots)
      BY <2>1, <3>1, ReachLocal
    <3> QED BY <3>2 DEF r2
  <2>4. Reach(roots)' = ReachIn(refs', roots')
    BY DEF Reach, ReachIn, Closed, ClosedUnder, Children, Live
  <2> QED BY <1>0, <2>3, <2>4, ReachIs
<1>6. Typed'
  <2>1. amount' \in Int
    BY <1>0, <1>3, ObjAssumption DEF IInv, Typed
  <2> QED BY <1>0, <1>1, <1>3, <2>1 DEF IInv, Typed
<1>7. PhaseInv' /\ MarkInv'
  BY <1>0 DEF PhaseInv, MarkInv, Marking
<1>8. ListInv'
  <2>1. Range(swept) \cup Range(allocated') = Live \ {h}
    BY <1>2, <1>3
  <2>2. Range(swept) \cap Range(allocated') = {}
    BY <1>2, <1>3
  <2> QED BY <1>0, <1>1, <1>2, <1>3, <2>1, <2>2 DEF ListInv
<1>9. CodeInv' /\ PendingInv'
  <2>1. CodeInv'
    BY <1>1 DEF IInv, CodeInv
  <2>2. PendingInv'
    BY <1>0, <1>1, <1>5 DEF IInv, PendingInv
  <2> QED BY <2>1, <2>2
<1>10. NoDangling'
  BY <1>0, <1>4 DEF NoDangling
<1>11. SweepInv'
  <2>1. Closed(Kept)'
    BY <1>1, <1>4 DEF Closed, Children
  <2>2. mark \subseteq Range(allocated')
    BY <1>0, <1>3 DEF IInv, SweepInv
  <2> QED BY <1>0, <1>4, <1>5, <2>1, <2>2 DEF SweepInv
<1>12. OrderInv'
  <2>0. \A i \in DOMAIN allocated' : Kind[allocated'[i]] = "function" =>
          After(refs[allocated'[i]][1], allocated', i)
    BY <1>0, <1>2, TailOrder DEF IInv, OrderInv
  <2>1. \A i \in DOMAIN allocated' : allocated'[i] \in Live'
    BY <1>1, <1>2, <1>3 DEF Range
  <2>2. \A i \in DOMAIN allocated' : Kind[allocated'[i]] = "function" =>
          After(refs'[allocated'[i]][1], allocated', i)
    BY <1>1, <2>0, <2>1
  <2>3. ASSUME NEW i \in DOMAIN swept, Kind[swept[i]] = "function"
        PROVE  \/ After(refs'[swept[i]][1], swept, i)
               \/ refs'[swept[i]][1] \in Range(allocated')
    <3>1. swept[i] \in Kept /\ swept[i] \in Live'
      BY <1>4 DEF Kept, Range
    <3>2. swept[i] \in Live /\ refs'[swept[i]] = refs[swept[i]]
      BY <1>1, <3>1
    <3>3. refs[swept[i]][1] \in Kept
      BY <1>4, <2>3, <3>1, <3>2 DEF Closed, Children, Range, IInv, CodeInv, HasCode
    <3>4. refs[swept[i]][1] # h
      BY <1>4, <3>3
    <3>5. \/ After(refs[swept[i]][1], swept, i)
          \/ refs[swept[i]][1] \in Range(allocated)
      BY <2>3 DEF IInv, OrderInv
    <3> QED BY <1>3, <3>2, <3>4, <3>5
  <2> QED BY <1>0, <2>2, <2>3 DEF OrderInv, After
<1> QED BY <1>6, <1>7, <1>8, <1>9, <1>10, <1>11, <1>12 DEF IInv

LEMMA EndCollectionOK == ASSUME IInv, EndCollection  PROVE IInv' /\ Live = Reach(roots)
<1> USE DEF EndCollection
<1>0. /\ phase = "sweep" /\ phase' = "run" /\ allocated = <<>>
      /\ allocated' = swept /\ swept' = <<>> /\ queue' = <<>> /\ scan' = {}
      /\ UNCHANGED <<refs, roots, amount, enabled, mark, pending>>
  BY DEF IInv, PhaseInv, Marking
<1>1. /\ Live' = Live /\ Reach(roots)' = Reach(roots) /\ Closed(Live)' = Closed(Live)
  BY DEF Live, Reach, Closed, Children
<1>2. /\ mark = {} /\ Range(swept) = Live /\ Live = Reach(roots) /\ Closed(Live)
      /\ roots \subseteq Live
  BY <1>0, EmptyRange DEF IInv, SweepInv, ListInv, Kept
<1>3. Typed'
  <2>1. threshold' \in Int
    BY ObjAssumption DEF IInv, Typed
  <2> QED BY <1>0, <1>1, <2>1 DEF IInv, Typed
<1>4. PhaseInv' /\ MarkInv' /\ SweepInv'
  BY <1>0, <1>2 DEF PhaseInv, MarkInv, SweepInv, Marking
<1>5. ListInv'
  BY <1>0, <1>1, <1>2, EmptyRange DEF IInv, ListInv
<1>6. CodeInv' /\ PendingInv' /\ NoDangling'
  BY <1>0, <1>1, <1>2 DEF IInv, CodeInv, PendingInv, NoDangling
<1>7. OrderInv'
  <2>1. \A i \in DOMAIN swept : Kind[swept[i]] = "function" =>
          After(refs[swept[i]][1], swept, i)
    BY <1>0, EmptyRange DEF IInv, OrderInv
  <2> QED BY <1>0, <2>1 DEF OrderInv, After
<1> QED BY <1>2, <1>3, <1>4, <1>5, <1>6, <1>7 DEF IInv
-----------------------------------------------------------------------------
LEMMA AllocOK ==
  ASSUME IInv, NEW o \in Objs, NEW rs \in {<<>>} \cup [1 .. 1 -> Reach(roots)], Alloc(o, rs)
  PROVE  IInv'
<1>1. o \notin Live /\ Running /\ pending = None /\ Creates(o, rs)
  BY DEF Alloc
<1>2. rs \in Seq(Objs) /\ Range(rs) \subseteq Reach(roots)
  <2>1. CASE rs = <<>>
    BY <2>1, EmptyRange
  <2>2. CASE rs \in [1 .. 1 -> Reach(roots)]
    <3>1. Reach(roots) \subseteq Objs
      BY HeapFacts
    <3>2. rs \in [1 .. 1 -> Objs] /\ 1 \in Nat
      BY <2>2, <3>1
    <3>3. rs \in Seq(Objs)
      BY <3>2, SeqDef
    <3> QED BY <2>2, <3>3 DEF Range
  <2> QED BY <2>1, <2>2
<1>3. HasCode(o, rs)
  BY <1>1, <1>2 DEF Creates, HasCode
<1>4. CASE ShouldCollect
  <2>1. BeginMark /\ pending' = [obj |-> o, refs |-> rs] /\ UNCHANGED <<threshold, enabled>>
    BY <1>4 DEF Alloc
  <2>2. pending' \in {None} \cup [obj : Objs, refs : Seq(Objs)]
    BY <1>2, <2>1
  <2>3. Live' = Live /\ Reach(roots)' = Reach(roots)
    BY <2>1 DEF BeginMark, Live, Reach, Closed, Children
  <2>4. PendingInv'
    BY <1>1, <1>2, <1>3, <2>1, <2>3 DEF PendingInv
  <2> QED BY <1>1, <2>1, <2>2, <2>4, BeginMarkOK
<1>5. CASE ~ShouldCollect
  <2>1. Register(o, rs) /\ UNCHANGED <<collector, threshold, enabled>>
    BY <1>5 DEF Alloc
  <2> QED BY <1>1, <1>2, <1>3, <2>1, RegisterOK
<1> QED BY <1>4, <1>5

LEMMA FinishAllocOK == ASSUME IInv, FinishAlloc  PROVE IInv'
<1>1. /\ pending \in [obj : Objs, refs : Seq(Objs)]
      /\ Register(pending.obj, pending.refs) /\ Running
      /\ UNCHANGED <<collector, threshold, enabled>>
  BY DEF FinishAlloc, IInv, Typed
<1>2. /\ pending.obj \in Objs \ Live /\ pending.refs \in Seq(Objs)
      /\ HasCode(pending.obj, pending.refs) /\ Range(pending.refs) \subseteq Reach(roots)
  BY <1>1 DEF FinishAlloc, IInv, PendingInv
<1> QED BY <1>1, <1>2, RegisterOK

LEMMA CollectOK == ASSUME IInv, Collect  PROVE IInv'
<1>1. BeginMark /\ Running /\ pending = None /\ pending' = None /\ UNCHANGED <<threshold, enabled>>
  BY DEF Collect
<1>2. PendingInv'
  BY <1>1 DEF PendingInv
<1> QED BY <1>1, <1>2, BeginMarkOK

LEMMA EnableOK == ASSUME IInv, Enable  PROVE IInv'
<1> USE DEF Enable, collector
<1>1. Live' = Live /\ Closed(Live)' = Closed(Live)
  BY DEF Live, Closed, Children
<1>2. Typed' /\ PhaseInv' /\ ListInv' /\ CodeInv'
  <2>1. enabled' \in BOOLEAN
    <3>1. enabled' = TRUE
      BY Zenon
    <3> HIDE DEF Enable
    <3> QED BY <3>1, Zenon
  <2>2. UNCHANGED <<refs, roots, allocated, swept, amount, threshold, mark, scan, queue, pending, phase>>
    OBVIOUS
  <2> HIDE DEF Enable
  <2>3. Typed'
    BY <1>1, <2>1, <2>2 DEF IInv, Typed
  <2>4. PhaseInv'
    BY <2>2 DEF IInv, PhaseInv, Marking
  <2>5. ListInv' /\ CodeInv'
    BY <1>1, <2>2 DEF IInv, ListInv, CodeInv
  <2> QED BY <2>3, <2>4, <2>5
<1>3. PendingInv' /\ NoDangling' /\ MarkInv' /\ SweepInv'
  BY <1>1 DEF IInv, PendingInv, NoDangling, MarkInv, SweepInv, Marking, Running
<1>4. OrderInv'
  BY DEF IInv, OrderInv, After
<1> QED BY <1>2, <1>3, <1>4 DEF IInv

LEMMA StutterOK == ASSUME IInv, UNCHANGED vars  PROVE IInv'
<1> USE DEF vars
<1>1. Live' = Live /\ Reach(roots)' = Reach(roots) /\ Closed(Live)' = Closed(Live)
  BY DEF Live, Reach, Closed, Children
<1>2. Typed' /\ PhaseInv' /\ ListInv' /\ CodeInv'
  BY <1>1 DEF IInv, Typed, PhaseInv, Marking, ListInv, CodeInv
<1>3. PendingInv' /\ NoDangling' /\ MarkInv' /\ SweepInv'
  BY <1>1 DEF IInv, PendingInv, NoDangling, MarkInv, SweepInv, Marking, Closed, Children, Kept
<1>4. OrderInv'
  BY DEF IInv, OrderInv, After
<1> QED BY <1>2, <1>3, <1>4 DEF IInv

LEMMA NextOK == IInv /\ [Next]_vars => IInv'
<1> SUFFICES ASSUME IInv, [Next]_vars  PROVE IInv'
  OBVIOUS
<1>1. CASE \E o \in Objs : \E rs \in {<<>>} \cup [1 .. 1 -> Reach(roots)] : Alloc(o, rs)
  BY <1>1, AllocOK
<1>2. CASE Collect
  BY <1>2, CollectOK
<1>3. CASE Enable
  BY <1>3, EnableOK
<1>4. CASE \E o \in Objs : Push(o) \/ Drop(o)
  <2>1. PICK o \in Objs : Push(o) \/ Drop(o)
    BY <1>4
  <2>2. roots' \subseteq Live
    BY <2>1, HeapFacts DEF Push, Drop
  <2> QED BY <2>1, <2>2, RootsOK DEF Push, Drop
<1>5. CASE \E o, p \in Objs : Link(o, p)
  BY <1>5, LinkOK
<1>6. CASE \E o \in roots : Unlink(o)
  BY <1>6, UnlinkOK
<1>7. CASE Collector
  BY <1>7, MarkRootOK, RootsDoneOK, EvaluateQueueOK, MarkDoneOK, SweepFreeOK,
     SweepKeepOK, EndCollectionOK, FinishAllocOK DEF Collector
<1>8. CASE UNCHANGED vars
  BY <1>8, StutterOK
<1> QED BY <1>1, <1>2, <1>3, <1>4, <1>5, <1>6, <1>7, <1>8 DEF Next, Mutate

(* The inductive invariant holds in every behaviour.                       *)
THEOREM Inductive == Spec => []IInv
BY InitOK, NextOK, PTL DEF Spec

(* Heap, list, marks and queue are always well typed, in gc.c's phases.    *)
THEOREM TypeCorrect == Spec => []TypeOK
<1>1. IInv => TypeOK
  BY DEF IInv, TypeOK, PhaseInv, Marking, Typed
<1> QED BY <1>1, Inductive, PTL

(* For any heap and any order of roots and sweep, nothing the program can  *)
(* reach is freed, during a collection or after it.                        *)
THEOREM ReachableAlwaysKept == Spec => []ReachableKept
<1> DEFINE held == IF pending = None THEN {} ELSE Range(pending.refs)
<1>1. ASSUME IInv  PROVE ReachableKept
  <2>1. held \subseteq Reach(roots)
    BY <1>1 DEF IInv, PendingInv
  <2>2. /\ Reach(roots) \subseteq Live /\ roots \subseteq Reach(roots) /\ Live \subseteq Objs
        /\ Closed(Reach(roots))
    BY <1>1, HeapFacts
  <2> HIDE DEF held
  <2>3. ReachIn(refs, roots \cup held) \subseteq Reach(roots)
    <3>1. Reach(roots) \in SUBSET Objs /\ roots \cup held \subseteq Reach(roots)
          /\ ClosedUnder(refs, Reach(roots))
      BY <2>1, <2>2, ReachIs
    <3> QED BY <3>1, ReachLeast
  <2>4. Reach(roots \cup held) \subseteq Live
    BY <2>2, <2>3, ReachIs
  <2> QED BY <2>4 DEF ReachableKept, held
<1> QED BY <1>1, Inductive, PTL

(* The list of objects, in the middle of a sweep too, has every allocated  *)
(* object once.                                                            *)
THEOREM ListAlwaysExact == Spec => []ListExact
<1>1. ASSUME IInv  PROVE ListExact
  <2> DEFINE list == swept \o allocated
  <2>1. /\ swept \in Seq(Objs) /\ allocated \in Seq(Objs)
        /\ Range(swept) \cup Range(allocated) = Live
        /\ Range(swept) \cap Range(allocated) = {}
        /\ Distinct(swept) /\ Distinct(allocated)
    BY <1>1 DEF IInv, Typed, ListInv
  <2>2. Range(list) = Live
    BY <2>1, ConcatRange
  <2>3. ASSUME NEW i \in DOMAIN list
        PROVE  \/ i \in DOMAIN swept /\ list[i] = swept[i]
               \/ i \notin DOMAIN swept /\ i - Len(swept) \in DOMAIN allocated /\ list[i] = allocated[i - Len(swept)]
    BY <2>1
  <2>4. ASSUME NEW i \in DOMAIN list, NEW j \in DOMAIN list, list[i] = list[j]
        PROVE  i = j
    <3>0. i \in Nat /\ j \in Nat /\ Len(swept) \in Nat
      BY <2>1
    <3> HIDE DEF list
    <3>1. CASE i \in DOMAIN swept /\ j \in DOMAIN swept
      BY <2>1, <2>3, <2>4, <3>1 DEF Distinct
    <3>2. CASE i \in DOMAIN swept /\ j \notin DOMAIN swept
      <4>1. list[i] \in Range(swept) /\ list[j] \in Range(allocated)
        BY <2>3, <3>2 DEF Range
      <4> QED BY <2>1, <2>4, <4>1
    <3>3. CASE i \notin DOMAIN swept /\ j \in DOMAIN swept
      <4>1. list[j] \in Range(swept) /\ list[i] \in Range(allocated)
        BY <2>3, <3>3 DEF Range
      <4> QED BY <2>1, <2>4, <4>1
    <3>4. CASE i \notin DOMAIN swept /\ j \notin DOMAIN swept
      <4>1. i - Len(swept) = j - Len(swept)
        BY <2>1, <2>3, <2>4, <3>4 DEF Distinct
      <4> QED BY <3>0, <4>1
    <3> QED BY <3>1, <3>2, <3>3, <3>4
  <2> QED BY <2>2, <2>4 DEF ListExact
<1> QED BY <1>1, Inductive, PTL

(* Between collections no mark is set.                                     *)
THEOREM MarksAlwaysCleared == Spec => []MarksCleared
<1>1. IInv => MarksCleared
  BY DEF IInv, PhaseInv, MarksCleared, Running
<1> QED BY <1>1, Inductive, PTL

(* Every collection that ends has freed exactly what was unreachable.      *)
THEOREM GarbageAlwaysFreed == Spec => GarbageFreed
<1>1. IInv /\ [Next]_vars => [EndCollection => Live = Reach(roots)]_vars
  BY EndCollectionOK
<1> QED BY <1>1, Inductive, PTL DEF Spec, GarbageFreed

(* A function is freed in a state where its code still is allocated, so    *)
(* that cb_function_deinit may read it.                                    *)
THEOREM CodeAlwaysOutlives == Spec => CodeOutlivesFunction
<1> DEFINE A == \A o \in Live : (o \notin DOMAIN refs' /\ Kind[o] = "function") =>
                  refs[o][1] \in Live
<1>1. ASSUME IInv, [Next]_vars  PROVE [A]_vars
  <2> SUFFICES ASSUME NEW o \in Live, o \notin DOMAIN refs', Kind[o] = "function"
               PROVE  refs[o][1] \in Live
    OBVIOUS
  <2>1. refs[o] \in Seq(Objs) /\ 1 \in DOMAIN refs[o] /\ refs[o][1] \in Children(o)
    BY <1>1, HeapFacts DEF IInv, CodeInv, HasCode, Children, Range
  <2>2. CASE phase # "sweep"
    BY <1>1, <2>1, <2>2 DEF IInv, NoDangling, Closed
  <2>3. CASE phase = "sweep"
    <3>1. SweepFree
      BY <1>1, <2>3 DEF Next, Mutate, Collector, vars, Alloc, Collect, Enable, Push,
         Drop, Link, Unlink, Running, MarkRoot, RootsDone, EvaluateQueue, MarkDone,
         SweepKeep, EndCollection, FinishAlloc, Live, marking, sweeping
    <3>2. o = Head(allocated) /\ allocated \in Seq(Objs) /\ allocated # <<>>
      BY <1>1, <3>1 DEF SweepFree, Restrict, Live, IInv, Typed
    <3>3. 1 \in DOMAIN allocated /\ allocated[1] = o
      BY <3>2
    <3>4. After(refs[o][1], allocated, 1)
      BY <1>1, <3>3 DEF IInv, OrderInv
    <3> QED BY <1>1, <3>4 DEF After, Range, IInv, ListInv
  <2> QED BY <2>2, <2>3
<1> QED BY <1>1, Inductive, PTL DEF Spec, CodeOutlivesFunction

-----------------------------------------------------------------------------
(* The books: what is counted is finite, and counted exactly.               *)
BooksInv == IsFiniteSet(UnitsOf(Live)) /\ amount = Cardinality(UnitsOf(Live))

LEMMA UnitsOfOne ==
  ASSUME NEW o \in Objs
  PROVE  IsFiniteSet({o} \X (1 .. Size[o])) /\ Cardinality({o} \X (1 .. Size[o])) = Size[o]
<1>1. Size[o] \in Nat
  BY ObjAssumption
<1>2. IsFiniteSet(1 .. Size[o]) /\ Cardinality(1 .. Size[o]) = Size[o]
  BY <1>1, FS_Interval
<1>3. IsFiniteSet({o}) /\ Cardinality({o}) = 1
  BY FS_Singleton
<1>4. Cardinality({o} \X (1 .. Size[o])) = 1 * Size[o]
  BY <1>2, <1>3, FS_Product
<1>5. IsFiniteSet({o} \X (1 .. Size[o]))
  BY <1>2, <1>3, FS_Product
<1>6. 1 * Size[o] = Size[o]
  BY <1>1
<1> QED BY <1>4, <1>5, <1>6

(* An object is counted once.                                               *)
LEMMA UnitsAdd ==
  ASSUME NEW S, NEW o \in Objs, o \notin S, IsFiniteSet(UnitsOf(S))
  PROVE  /\ IsFiniteSet(UnitsOf(S \cup {o}))
         /\ Cardinality(UnitsOf(S \cup {o})) = Cardinality(UnitsOf(S)) + Size[o]
<1> DEFINE U == {o} \X (1 .. Size[o])
<1>1. UnitsOf(S \cup {o}) = UnitsOf(S) \cup U /\ UnitsOf(S) \cap U = {}
  BY DEF UnitsOf
<1>2. IsFiniteSet(U) /\ Cardinality(U) = Size[o]
  BY UnitsOfOne
<1> HIDE DEF U
<1>3. /\ IsFiniteSet(UnitsOf(S) \cup U)
      /\ Cardinality(UnitsOf(S) \cup U)
           = Cardinality(UnitsOf(S)) + Cardinality(U) - Cardinality(UnitsOf(S) \cap U)
  BY <1>2, FS_Union
<1>4. Cardinality(UnitsOf(S) \cap U) = 0
  BY <1>1, FS_EmptySet
<1>5. Cardinality(UnitsOf(S)) \in Nat /\ Size[o] \in Nat
  BY FS_CardinalityType, ObjAssumption
<1>6. Cardinality(UnitsOf(S) \cup U) = Cardinality(UnitsOf(S)) + Size[o]
  BY <1>2, <1>3, <1>4, <1>5
<1> QED BY <1>1, <1>3, <1>6

LEMMA UnitsRemove ==
  ASSUME NEW S, NEW o \in Objs, o \in S, IsFiniteSet(UnitsOf(S))
  PROVE  /\ IsFiniteSet(UnitsOf(S \ {o}))
         /\ Cardinality(UnitsOf(S \ {o})) = Cardinality(UnitsOf(S)) - Size[o]
<1>1. UnitsOf(S \ {o}) \subseteq UnitsOf(S)
  BY DEF UnitsOf
<1>2. IsFiniteSet(UnitsOf(S \ {o}))
  BY <1>1, FS_Subset
<1>3. (S \ {o}) \cup {o} = S /\ o \notin S \ {o}
  OBVIOUS
<1>4. Cardinality(UnitsOf(S)) = Cardinality(UnitsOf(S \ {o})) + Size[o]
  BY <1>2, <1>3, UnitsAdd
<1>5. Cardinality(UnitsOf(S \ {o})) \in Nat /\ Size[o] \in Nat
  BY <1>2, FS_CardinalityType, ObjAssumption
<1> QED BY <1>2, <1>4, <1>5

LEMMA BooksInit == Init => BooksInv
<1> SUFFICES ASSUME Init PROVE BooksInv
  OBVIOUS
<1>1. Live = {} /\ amount = 0
  BY DEF Init, Live
<1>2. UnitsOf(Live) = {}
  BY <1>1 DEF UnitsOf
<1> QED BY <1>1, <1>2, FS_EmptySet DEF BooksInv

LEMMA BooksRegister ==
  ASSUME BooksInv, NEW o \in Objs, o \notin Live, NEW rs, Register(o, rs)
  PROVE  BooksInv'
<1>1. Live' = Live \cup {o} /\ amount' = amount + Size[o]
  BY DEF Register, Live
<1> QED BY <1>1, UnitsAdd DEF BooksInv

LEMMA BooksStep == IInv /\ BooksInv /\ [Next]_vars => BooksInv'
<1> SUFFICES ASSUME IInv, BooksInv, [Next]_vars PROVE BooksInv'
  OBVIOUS
<1>s. ASSUME amount' = amount, Live' = Live PROVE BooksInv'
  BY <1>s DEF BooksInv
<1>1. ASSUME NEW o \in Objs, NEW rs, Alloc(o, rs)
      PROVE  BooksInv'
  <2>1. CASE ShouldCollect
    BY <1>1, <1>s, <2>1 DEF Alloc, BeginMark, Live
  <2>2. CASE ~ShouldCollect
    BY <1>1, <2>2, BooksRegister DEF Alloc
  <2> QED BY <2>1, <2>2
<1>2. CASE FinishAlloc
  <2>1. pending.obj \in Objs \ Live
    BY <1>2, ObjAssumption DEF FinishAlloc, IInv, PendingInv, Typed
  <2> QED BY <1>2, <2>1, BooksRegister DEF FinishAlloc
<1>3. CASE SweepFree
  <2> DEFINE h == Head(allocated)
  <2>1. h \in Live /\ h \in Objs
    <3>1. allocated \in Seq(Objs) /\ allocated # <<>>
      BY <1>3 DEF SweepFree, IInv, Typed
    <3>2. h \in Range(allocated) /\ h \in Objs
      BY <3>1, TailRange DEF IInv, ListInv
    <3> QED BY <3>2 DEF IInv, ListInv
  <2>2. amount' = amount - Size[h] /\ refs' = Restrict(refs, Live \ {h})
    BY <1>3 DEF SweepFree
  <2> HIDE DEF h
  <2>3. Live' = Live \ {h}
    BY <2>2 DEF Live, Restrict
  <2> QED BY <2>1, <2>2, <2>3, UnitsRemove DEF BooksInv
<1>4. CASE Collect \/ Enable \/ \E o \in Objs : Push(o) \/ Drop(o)
  BY <1>4, <1>s DEF Collect, BeginMark, Enable, Push, Drop, Live
<1>5. CASE \/ \E o, p \in Objs : Link(o, p)
           \/ \E o \in roots : Unlink(o)
  BY <1>5, <1>s DEF Link, Unlink, Live
<1>6. CASE MarkRoot \/ RootsDone \/ EvaluateQueue \/ MarkDone \/ SweepKeep \/ EndCollection
  BY <1>6, <1>s DEF MarkRoot, RootsDone, EvaluateQueue, MarkDone, SweepKeep,
     EndCollection, marking, sweeping, Live
<1>7. CASE UNCHANGED vars
  BY <1>7, <1>s DEF vars, Live
<1> QED BY <1>1, <1>2, <1>3, <1>4, <1>5, <1>6, <1>7 DEF Next, Mutate, Collector

(* The books agree with the heap at every point of a collection: the list  *)
(* is the heap, and amount_allocated its size.                             *)
THEOREM AccountsAlwaysExact == Spec => []AccountsExact
<1>1. BooksInv => AmountExact
  BY DEF BooksInv, AmountExact
<1> QED BY <1>1, BooksInit, BooksStep, Inductive, ListAlwaysExact, PTL DEF Spec, AccountsExact
=============================================================================
