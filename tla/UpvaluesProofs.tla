--------------------------- MODULE UpvaluesProofs ---------------------------
(***************************************************************************)
(* What holds of closures for every number of variables, closures, frames  *)
(* and captures: whatever a program does, an upvalue has one reference for *)
(* each capture that uses it; and unless it does one of the Features, a    *)
(* variable is one place, and functions that close over it share it.       *)
(***************************************************************************)
EXTENDS Upvalues, SequenceTheorems, FiniteSetTheorems, WellFoundedInduction, TLAPS

(* Where the slots of the d-th frame begin.                                *)
Bp(d) == (d - 1) * MaxLocals

(* Frames follow one another, and the slots in use are those of variables   *)
(* in scope.                                                               *)
FrameInv ==
  /\ \A d \in DOMAIN frames : frames[d].bp = Bp(d)
                              /\ frames[d].self \in DOMAIN closures \cup {None}
  /\ \A s \in Slots : holder[s] # None <=>
       \E d \in DOMAIN frames : s \in frames[d].bp .. frames[d].bp + frames[d].num - 1

ClosuresInv ==
  /\ IsFiniteSet(DOMAIN closures)
  /\ \A c \in DOMAIN closures : Len(captured[c]) = Len(closures[c])
                                /\ Len(closures[c]) <= MaxCaptures

BuildInv == building # None =>
  /\ InFunction /\ building = [fn |-> building.fn, todo |-> building.todo]
  /\ building.fn \in DOMAIN closures
  /\ building.todo \in Seq(Captures) /\ building.todo # <<>>
  /\ Len(closures[building.fn]) + Len(building.todo) <= MaxCaptures
  /\ \A d \in DOMAIN frames : frames[d].self # building.fn

OpenInv == \A i \in DOMAIN open : open[i] # None => open[i] \in DOMAIN upvals

(* The captures that use an upvalue.                                       *)
Users(u) == {r \in (DOMAIN closures) \X (1 .. MaxCaptures) :
               r[2] \in DOMAIN closures[r[1]] /\ closures[r[1]][r[2]] = u}
CountInv == \A u \in Upvals :
  IF u \in DOMAIN upvals
  THEN Cardinality(Users(u)) = upvals[u].refcount /\ upvals[u].refcount > 0
  ELSE Cardinality(Users(u)) = 0

IInv == TypeOK /\ FrameInv /\ ClosuresInv /\ BuildInv /\ OpenInv /\ CountInv
-----------------------------------------------------------------------------
LEMMA FramesApart ==
  /\ MaxFrames * MaxLocals \in Nat
  /\ \A d \in 1 .. MaxFrames : Bp(d) \in Nat /\ Bp(d) + MaxLocals <= MaxFrames * MaxLocals
  /\ \A d, e \in 1 .. MaxFrames : d < e => Bp(d) + MaxLocals <= Bp(e)
<1>1. MaxFrames \in Nat /\ MaxLocals \in Nat
  BY BoundsAssumption
<1>2. \A a, b, m \in Nat : a < b => a * m + m <= b * m
  <2> TAKE a, b, m \in Nat
  <2> HAVE a < b
  <2>1. PICK k \in Nat : b = a + 1 + k
    <3>1. b - a - 1 \in Nat
      OBVIOUS
    <3> QED
      BY <3>1
  <2>2. b * m = a * m + m + k * m
    BY <2>1
  <2>3. k * m \in Nat /\ a * m \in Nat
    OBVIOUS
  <2> QED
    BY <2>2, <2>3
<1>3. ASSUME NEW d \in 1 .. MaxFrames
      PROVE  Bp(d) \in Nat /\ Bp(d) + MaxLocals <= MaxFrames * MaxLocals
  <2>1. d - 1 \in Nat /\ d - 1 < MaxFrames
    BY <1>1
  <2>2. (d - 1) * MaxLocals \in Nat
    BY <1>1, <2>1
  <2> QED
    BY <1>1, <1>2, <2>1, <2>2 DEF Bp
<1>4. ASSUME NEW d \in 1 .. MaxFrames, NEW e \in 1 .. MaxFrames, d < e
      PROVE  Bp(d) + MaxLocals <= Bp(e)
  <2>1. d - 1 \in Nat /\ e - 1 \in Nat /\ d - 1 < e - 1
    BY <1>1, <1>4
  <2> QED
    BY <1>1, <1>2, <2>1 DEF Bp
<1>5. MaxFrames * MaxLocals \in Nat
  BY <1>1
<1> QED
  BY <1>3, <1>4, <1>5

(* The frame that runs has the uppermost slots.                            *)
LEMMA TopFrame ==
  ASSUME TypeOK, FrameInv, InFunction
  PROVE  /\ Len(frames) \in 1 .. MaxFrames /\ Top \in Frame
         /\ Top.bp = Bp(Len(frames)) /\ Top.num \in 0 .. MaxLocals
         /\ Top.self \in DOMAIN closures \cup {None}
         /\ \A n \in 0 .. MaxLocals - 1 : Top.bp + n \in Slots
         /\ InScope \subseteq Held
         /\ \A s \in Held : s >= Top.bp => s \in InScope
         /\ \A d \in DOMAIN frames : d # Len(frames) =>
              frames[d].num \in Nat /\ frames[d].bp \in Nat
              /\ frames[d].bp + frames[d].num <= Top.bp
<1>1. frames \in Seq(Frame) /\ Len(frames) \in Nat /\ Len(frames) # 0
        /\ Len(frames) <= MaxFrames /\ DOMAIN frames = 1 .. Len(frames) /\ MaxFrames \in Nat
        /\ MaxLocals \in Nat
  BY BoundsAssumption DEF TypeOK, InFunction
<1>2. Len(frames) \in 1 .. MaxFrames /\ Len(frames) \in DOMAIN frames
  BY <1>1
<1>3. ASSUME NEW d \in DOMAIN frames
      PROVE  frames[d] \in Frame /\ frames[d].num \in 0 .. MaxLocals
             /\ frames[d].bp = Bp(d) /\ d \in 1 .. MaxFrames
  <2>1. frames[d] \in Frame
    BY <1>1
  <2>2. frames[d].num \in 0 .. MaxLocals
    BY <2>1 DEF Frame
  <2>3. frames[d].bp = Bp(d)
    BY DEF FrameInv
  <2> QED
    BY <1>1, <2>1, <2>2, <2>3
<1>4. Top \in Frame /\ Top.bp = Bp(Len(frames)) /\ Top.num \in 0 .. MaxLocals
        /\ Top.self \in DOMAIN closures \cup {None}
  BY <1>2, <1>3 DEF Top, FrameInv
<1>5. \A n \in 0 .. MaxLocals - 1 : Top.bp + n \in Slots
  BY <1>1, <1>2, <1>4, FramesApart DEF Slots
<1>6. \A d \in DOMAIN frames : d # Len(frames) =>
              frames[d].num \in Nat /\ frames[d].bp \in Nat
              /\ frames[d].bp + frames[d].num <= Top.bp
  <2> TAKE d \in DOMAIN frames
  <2> HAVE d # Len(frames)
  <2>1. d \in 1 .. MaxFrames /\ d < Len(frames)
    BY <1>1, <1>3
  <2>2. Bp(d) \in Nat /\ Bp(d) + MaxLocals <= Bp(Len(frames)) /\ Bp(Len(frames)) \in Nat
    BY <1>2, <2>1, FramesApart
  <2> QED
    BY <1>1, <1>3, <1>4, <2>2
<1>7. Top.bp \in Nat
  BY <1>2, <1>4, FramesApart
<1>8. InScope \subseteq Held
  <2> SUFFICES ASSUME NEW n \in 0 .. Top.num - 1 PROVE Top.bp + n \in Held
    BY DEF InScope
  <2>1. Top.bp + n \in Slots
    BY <1>1, <1>4, <1>5
  <2>2. Top.bp + n \in frames[Len(frames)].bp .. frames[Len(frames)].bp + frames[Len(frames)].num - 1
    BY <1>4, <1>7 DEF Top
  <2> QED
    BY <1>2, <2>1, <2>2 DEF Held, FrameInv
<1>9. ASSUME NEW s \in Held, s >= Top.bp PROVE s \in InScope
  <2>1. s \in Slots /\ s \in Nat
    BY FramesApart DEF Held, Slots
  <2>2. PICK d \in DOMAIN frames : s \in frames[d].bp .. frames[d].bp + frames[d].num - 1
    BY <2>1 DEF Held, FrameInv
  <2>3. d = Len(frames)
    BY <1>6, <1>7, <1>9, <2>1, <2>2
  <2>4. s - Top.bp \in 0 .. Top.num - 1 /\ s = Top.bp + (s - Top.bp)
    BY <1>4, <1>7, <2>1, <2>2, <2>3 DEF Top
  <2> QED
    BY <2>4 DEF InScope
<1> QED
  BY <1>2, <1>4, <1>5, <1>6, <1>8, <1>9
-----------------------------------------------------------------------------
LEMMA LocalsAreSlots ==
  ASSUME NEW d \in 1 .. MaxFrames
  PROVE  \A n \in 0 .. MaxLocals - 1 : Bp(d) + n \in Slots
<1>1. MaxLocals \in Nat /\ Bp(d) \in Nat /\ Bp(d) + MaxLocals <= MaxFrames * MaxLocals
        /\ MaxFrames * MaxLocals \in Nat
  BY FramesApart, BoundsAssumption
<1> QED
  BY <1>1 DEF Slots

(* A set of indices that is not empty has a greatest one.                  *)
LEMMA GreatestIndex ==
  ASSUME NEW n \in Nat, NEW S \in SUBSET (1 .. n), S # {}
  PROVE  \E i \in S : \A j \in S : j <= i
<1> DEFINE Less == {ss \in Nat \X Nat : ss[1] < ss[2]}
           T == {n - i : i \in S}
<1>1. IsWellFoundedOn(Less, Nat)
  BY NatLessThanWellFounded DEF OpToRel
<1>2. T \subseteq Nat /\ T # {}
  OBVIOUS
<1>3. \A a, b \in Nat : <<b, a>> \in Less <=> b < a
  OBVIOUS
<1> HIDE DEF Less, T
<1>4. \E a \in T : \A b \in T : ~(<<b, a>> \in Less)
  BY <1>1, <1>2, WFMin, Zenon
<1>5. PICK a \in T : \A b \in T : ~(b < a)
  BY <1>2, <1>3, <1>4
<1>6. PICK i \in S : a = n - i
  BY DEF T
<1>7. \A j \in S : n - j \in T
  BY DEF T
<1>8. \A j \in S : j <= i
  BY <1>5, <1>6, <1>7
<1> QED
  BY <1>8

(* The search of the open upvalues stops at the last one it may not pass.   *)
LEMMA SearchStops ==
  ASSUME TypeOK, NEW at
  PROVE  LET i == SearchStop(at) IN
           /\ i \in 0 .. Len(open)
           /\ i # 0 => open[i] = None \/ upvals[open[i]].idx <= at
           /\ \A j \in DOMAIN open : j > i => open[j] # None /\ ~(upvals[open[j]].idx <= at)
<1> DEFINE stops == {i \in DOMAIN open : open[i] = None \/ upvals[open[i]].idx <= at}
           k == SearchStop(at)
<1>1. Len(open) \in Nat /\ DOMAIN open = 1 .. Len(open)
  BY DEF TypeOK
<1>2. CASE stops = {}
  <2>1. k = 0
    BY <1>2 DEF SearchStop
  <2> QED
    BY <1>1, <1>2, <2>1
<1>3. CASE stops # {}
  <2>1. k = CHOOSE i \in stops : \A j \in stops : j <= i
    BY <1>3 DEF SearchStop
  <2>2. \E i \in stops : \A j \in stops : j <= i
    <3>1. stops \in SUBSET (1 .. Len(open))
      BY <1>1
    <3> HIDE DEF stops
    <3> QED
      BY <1>1, <1>3, <3>1, GreatestIndex
  <2> HIDE DEF k
  <2>3. k \in stops /\ \A j \in stops : j <= k
    <3> HIDE DEF stops
    <3> QED
      BY <2>1, <2>2
  <2>4. \A j \in DOMAIN open : j > k => j \notin stops
    <3> HIDE DEF stops
    <3> SUFFICES ASSUME NEW j \in DOMAIN open, j > k, j \in stops PROVE FALSE
      OBVIOUS
    <3>1. j <= k /\ j \in Nat
      BY <1>1, <2>3
    <3>2. k \in Nat
      BY <1>1, <2>3 DEF stops
    <3> QED
      BY <3>1, <3>2
  <2>5. k \in 0 .. Len(open) /\ (open[k] = None \/ upvals[open[k]].idx <= at)
    BY <1>1, <2>3
  <2>6. \A j \in DOMAIN open : j > k => open[j] # None /\ ~(upvals[open[j]].idx <= at)
    BY <2>4
  <2> QED
    BY <2>5, <2>6 DEF k
<1> QED
  BY <1>2, <1>3
-----------------------------------------------------------------------------
(* Counts depend on nothing but which captures use an upvalue.             *)
LEMMA CountKept ==
  ASSUME CountInv, closures' = closures, DOMAIN upvals' = DOMAIN upvals,
         \A u \in DOMAIN upvals : upvals'[u].refcount = upvals[u].refcount
  PROVE  CountInv'
BY DEF CountInv, Users

(* An upvalue that a closure uses is allocated.                            *)
LEMMA UsedIsAllocated ==
  ASSUME TypeOK, ClosuresInv, CountInv, NEW c \in DOMAIN closures,
         NEW i \in DOMAIN closures[c]
  PROVE  closures[c][i] \in DOMAIN upvals /\ i \in 1 .. MaxCaptures
         /\ captured[c][i] \in Vars \cup {None}
<1> DEFINE u == closures[c][i]
<1>1. closures[c] \in Seq(Upvals) /\ Len(closures[c]) \in Nat
        /\ DOMAIN closures[c] = 1 .. Len(closures[c])
  BY DEF TypeOK
<1>2. captured[c] \in Seq(Vars \cup {None}) /\ Len(captured[c]) = Len(closures[c])
  BY DEF TypeOK, ClosuresInv
<1>3. i \in 1 .. MaxCaptures /\ u \in Upvals /\ captured[c][i] \in Vars \cup {None}
  BY <1>1, <1>2, BoundsAssumption DEF ClosuresInv
<1>4. <<c, i>> \in Users(u)
  BY <1>3 DEF Users
<1>5. IsFiniteSet(Users(u))
  <2>1. IsFiniteSet(1 .. MaxCaptures)
    BY FS_Interval, BoundsAssumption
  <2>2. IsFiniteSet((DOMAIN closures) \X (1 .. MaxCaptures))
    BY <2>1, FS_Product DEF ClosuresInv
  <2> QED
    BY <2>2, FS_Subset DEF Users
<1>6. Cardinality(Users(u)) # 0
  <2> HIDE DEF u
  <2> QED
    BY <1>4, <1>5, FS_EmptySet
<1> QED
  BY <1>3, <1>6 DEF CountInv

LEMMA InitIInv == Init => IInv
<1> SUFFICES ASSUME Init PROVE IInv
  OBVIOUS
<1> USE DEF Init
<1>1. TypeOK
  <2>1. DOMAIN upvals = {} /\ DOMAIN closures = {} /\ DOMAIN captured = {}
    OBVIOUS
  <2>2. stack \in [Slots -> Values] /\ holder \in [Slots -> Vars \cup {None}]
    BY BoundsAssumption
  <2>3. frames \in Seq(Frame) /\ open \in Seq(Upvals \cup {None})
    OBVIOUS
  <2>4. Len(frames) <= MaxFrames
    BY BoundsAssumption
  <2> QED
    BY <2>1, <2>2, <2>3, <2>4, Zenon DEF TypeOK
<1>2. FrameInv /\ ClosuresInv /\ BuildInv /\ OpenInv
  BY FS_EmptySet DEF FrameInv, ClosuresInv, BuildInv, OpenInv
<1>3. CountInv
  <2>1. ASSUME NEW u \in Upvals PROVE Users(u) = {}
    BY DEF Users
  <2>2. DOMAIN upvals = {} /\ Cardinality({}) = 0
    BY FS_EmptySet
  <2> QED
    BY <2>1, <2>2 DEF CountInv
<1> QED
  BY <1>1, <1>2, <1>3 DEF IInv

LEMMA CallIInv ==
  ASSUME IInv, NEW self \in DOMAIN closures \cup {None}, Call(self)
  PROVE  IInv'
<1> DEFINE n == Len(frames)
           f == [bp |-> n * MaxLocals, num |-> 0, self |-> self]
<1>1. Ready /\ n < MaxFrames /\ frames' = Append(frames, f)
        /\ stack' = [s \in Slots |-> IF s \in n * MaxLocals .. n * MaxLocals + MaxLocals - 1
                                    THEN Null ELSE stack[s]]
        /\ upvals' = upvals /\ open' = open /\ closures' = closures /\ building' = building
        /\ aborted' = aborted /\ holder' = holder /\ captured' = captured
  BY DEF Call
<1>2. TypeOK /\ FrameInv /\ frames \in Seq(Frame) /\ n \in Nat /\ MaxFrames \in Nat
        /\ MaxLocals \in Nat /\ DOMAIN frames = 1 .. n
  BY BoundsAssumption DEF IInv, TypeOK
<1>3. f \in Frame /\ f.bp = Bp(n + 1)
  <2>1. n \in 0 .. MaxFrames - 1 /\ 0 \in 0 .. MaxLocals /\ (n + 1) - 1 = n
    BY <1>1, <1>2
  <2>2. self \in Closures \cup {None}
    BY <1>2 DEF TypeOK
  <2>3. n * MaxLocals \in {d * MaxLocals : d \in 0 .. MaxFrames - 1}
    BY <2>1
  <2> QED
    BY <2>1, <2>2, <2>3 DEF Frame, Bp
<1> HIDE DEF f
<1>4. frames' \in Seq(Frame) /\ Len(frames') = n + 1 /\ DOMAIN frames' = 1 .. n + 1
        /\ frames'[n + 1] = f /\ \A d \in DOMAIN frames : frames'[d] = frames[d]
  BY <1>1, <1>2, <1>3, AppendProperties
<1>5. TypeOK'
  <2>1. stack' \in [Slots -> Values]
    BY <1>1, BoundsAssumption DEF IInv, TypeOK
  <2> QED
    BY <1>1, <1>2, <1>4, <2>1 DEF TypeOK
<1>6. FrameInv'
  <2>1. \A d \in DOMAIN frames' : frames'[d].bp = Bp(d)
                              /\ frames'[d].self \in DOMAIN closures' \cup {None}
    BY <1>1, <1>2, <1>3, <1>4 DEF FrameInv, f
  <2>2. ASSUME NEW s \in Slots
        PROVE  (\E d \in DOMAIN frames' : s \in frames'[d].bp .. frames'[d].bp + frames'[d].num - 1)
                 <=> \E d \in DOMAIN frames : s \in frames[d].bp .. frames[d].bp + frames[d].num - 1
    <3>1. Bp(n + 1) \in Nat
      BY <1>1, <1>2, FramesApart
    <3>2. f.bp .. f.bp + f.num - 1 = {}
      BY <1>3, <3>1 DEF f
    <3>3. \A d \in DOMAIN frames' : d \in DOMAIN frames \/ d = n + 1
      BY <1>2, <1>4
    <3>4. DOMAIN frames \subseteq DOMAIN frames'
      BY <1>2, <1>4
    <3> QED
      BY <1>4, <3>2, <3>3, <3>4
  <2> QED
    BY <1>1, <1>2, <2>1, <2>2 DEF FrameInv
<1>7. ClosuresInv' /\ BuildInv' /\ OpenInv' /\ CountInv'
  <2>1. building' = None
    BY <1>1 DEF Ready
  <2>2. CountInv'
    BY <1>1, CountKept DEF IInv
  <2> QED
    BY <1>1, <2>1, <2>2 DEF IInv, ClosuresInv, BuildInv, OpenInv
<1> QED
  BY <1>5, <1>6, <1>7 DEF IInv
-----------------------------------------------------------------------------
(* The slots in use when the running frame has m locals in scope.          *)
LEMMA TopResized ==
  ASSUME TypeOK, FrameInv, InFunction, NEW m \in 0 .. MaxLocals, NEW F,
         F = [frames EXCEPT ![Len(frames)].num = m]
  PROVE  /\ F \in Seq(Frame) /\ Len(F) = Len(frames) /\ DOMAIN F = DOMAIN frames
         /\ \A d \in DOMAIN frames : F[d].bp = frames[d].bp /\ F[d].self = frames[d].self
         /\ \A s \in Slots :
              (\E d \in DOMAIN F : s \in F[d].bp .. F[d].bp + F[d].num - 1) <=>
              \/ s \in Top.bp .. Top.bp + m - 1
              \/ \E d \in DOMAIN frames : d # Len(frames)
                   /\ s \in frames[d].bp .. frames[d].bp + frames[d].num - 1
<1> DEFINE n == Len(frames)
           t == [bp |-> Top.bp, num |-> m, self |-> Top.self]
<1>1. n \in DOMAIN frames /\ DOMAIN frames = 1 .. n /\ n \in Nat /\ frames \in Seq(Frame)
  BY TopFrame DEF TypeOK
<1>2. Top \in Frame /\ Top = frames[n] /\ DOMAIN Top = {"bp", "num", "self"}
  BY TopFrame DEF Top, Frame
<1>3. [frames[n] EXCEPT !.num = m] = t
  BY <1>2
<1>4. t \in Frame
  BY <1>2 DEF Frame
<1>5. F = [frames EXCEPT ![n] = t]
  BY <1>3
<1> HIDE DEF t
<1>6. F \in Seq(Frame) /\ Len(F) = n /\ DOMAIN F = DOMAIN frames
  BY <1>1, <1>4, <1>5, ExceptSeq
<1>7. F[n] = t /\ \A d \in DOMAIN frames : d # n => F[d] = frames[d]
  BY <1>1, <1>5
<1>8. t.bp = Top.bp /\ t.num = m /\ t.self = Top.self
  BY DEF t
<1>9. \A d \in DOMAIN frames : F[d].bp = frames[d].bp /\ F[d].self = frames[d].self
  BY <1>2, <1>7, <1>8
<1>10. ASSUME NEW s \in Slots
       PROVE (\E d \in DOMAIN F : s \in F[d].bp .. F[d].bp + F[d].num - 1) <=>
              \/ s \in Top.bp .. Top.bp + m - 1
              \/ \E d \in DOMAIN frames : d # n
                   /\ s \in frames[d].bp .. frames[d].bp + frames[d].num - 1
  BY <1>1, <1>6, <1>7, <1>8, Zenon
<1> QED
  BY <1>6, <1>9, <1>10

(* Only locals change hands: what is left to show is the types of the      *)
(* stack and of the history, and which slots are in use.                   *)
LEMMA LocalsStep ==
  ASSUME IInv, Ready, UNCHANGED <<upvals, open, closures, building, aborted, captured>>,
         stack' \in [Slots -> Values], holder' \in [Slots -> Vars \cup {None}],
         frames' \in Seq(Frame), Len(frames') <= MaxFrames, FrameInv'
  PROVE  IInv'
<1>1. building' = None
  BY DEF Ready
<1>2. CountInv'
  BY CountKept DEF IInv
<1>3. TypeOK' /\ ClosuresInv' /\ OpenInv'
  BY DEF IInv, TypeOK, ClosuresInv, OpenInv
<1> QED
  BY <1>1, <1>2, <1>3 DEF IInv, BuildInv

LEMMA DeclareIInv ==
  ASSUME IInv, NEW x \in Vars, NEW v \in Values, Declare(x, v)
  PROVE  IInv'
<1> DEFINE n == Len(frames)
           k == Top.bp + Top.num
           m == Top.num + 1
<1>1. /\ Ready /\ InFunction /\ Top.num < MaxLocals /\ MaxLocals \in Nat
      /\ stack' = [stack EXCEPT ![k] = v] /\ holder' = [holder EXCEPT ![k] = x]
      /\ frames' = [frames EXCEPT ![n].num = Top.num + 1]
      /\ UNCHANGED <<upvals, open, closures, building, aborted, captured>>
  BY BoundsAssumption DEF Declare, Top
<1>2. TypeOK /\ FrameInv /\ Len(frames) <= MaxFrames
  BY DEF IInv, TypeOK
<1>3. Top.num \in 0 .. MaxLocals /\ Top.num + 1 \in 0 .. MaxLocals
        /\ Top.num \in 0 .. MaxLocals - 1
  BY <1>1, <1>2, TopFrame
<1>4. k \in Slots /\ Top.bp \in Nat
  BY <1>1, <1>2, <1>3, TopFrame, FramesApart
<1>5. /\ frames' \in Seq(Frame) /\ Len(frames') = n /\ DOMAIN frames' = DOMAIN frames
      /\ \A d \in DOMAIN frames : frames'[d].bp = frames[d].bp /\ frames'[d].self = frames[d].self
      /\ \A s \in Slots :
           (\E d \in DOMAIN frames' : s \in frames'[d].bp .. frames'[d].bp + frames'[d].num - 1) <=>
              \/ s \in Top.bp .. Top.bp + m - 1
              \/ \E d \in DOMAIN frames : d # n
                   /\ s \in frames[d].bp .. frames[d].bp + frames[d].num - 1
  <2>1. frames' = [frames EXCEPT ![Len(frames)].num = m] /\ m \in 0 .. MaxLocals
    BY <1>1, <1>3
  <2> HIDE DEF m
  <2> QED
    BY <1>1, <1>2, <2>1, TopResized, Zenon
<1>6. FrameInv'
  <2>1. ASSUME NEW s \in Slots
        PROVE  holder'[s] # None <=>
          \E d \in DOMAIN frames' : s \in frames'[d].bp .. frames'[d].bp + frames'[d].num - 1
    <3>1. s \in Int
      BY FramesApart DEF Slots
    <3>2. s \in Top.bp .. Top.bp + m - 1 <=> s \in Top.bp .. Top.bp + Top.num - 1 \/ s = k
      BY <1>3, <1>4, <3>1
    <3>3. holder[s] # None <=> \/ s \in Top.bp .. Top.bp + Top.num - 1
                               \/ \E d \in DOMAIN frames : d # n
                                    /\ s \in frames[d].bp .. frames[d].bp + frames[d].num - 1
      <4>1. n \in DOMAIN frames /\ Top = frames[n]
        BY <1>1, <1>2, TopFrame DEF TypeOK, Top
      <4> QED
        BY <1>2, <4>1, Zenon DEF FrameInv
    <3>4. holder'[s] = IF s = k THEN x ELSE holder[s]
      BY <1>1, <1>2 DEF TypeOK
    <3>5. x # None
      BY BoundsAssumption
    <3> HIDE DEF k, m
    <3> QED
      BY <1>5, <3>2, <3>3, <3>4, <3>5, Zenon
  <2> QED
    BY <1>1, <1>2, <1>5, <2>1 DEF FrameInv
<1>7. stack' \in [Slots -> Values] /\ holder' \in [Slots -> Vars \cup {None}]
  BY <1>1, <1>2 DEF TypeOK
<1> QED
  BY <1>1, <1>2, <1>5, <1>6, <1>7, LocalsStep

LEMMA StoreLocalIInv ==
  ASSUME IInv, NEW s \in Slots, NEW v \in Values, StoreLocal(s, v)
  PROVE  IInv'
<1>1. TypeOK' /\ CountInv'
  BY CountKept DEF IInv, TypeOK, StoreLocal
<1>2. FrameInv' /\ ClosuresInv' /\ OpenInv'
  BY DEF IInv, FrameInv, ClosuresInv, OpenInv, StoreLocal
<1>3. BuildInv'
  BY DEF BuildInv, StoreLocal, Ready
<1> QED
  BY <1>1, <1>2, <1>3 DEF IInv

LEMMA EndScopeIInv == ASSUME IInv, EndScope PROVE IInv'
<1> DEFINE n == Len(frames)
           k == Top.bp + Top.num - 1
           m == Top.num - 1
<1>1. /\ Ready /\ InFunction /\ Top.num > 0
      /\ holder' = [holder EXCEPT ![k] = None]
      /\ frames' = [frames EXCEPT ![n].num = Top.num - 1]
      /\ UNCHANGED <<stack, upvals, open, closures, building, aborted, captured>>
  BY DEF EndScope, Top
<1>2. TypeOK /\ FrameInv /\ Len(frames) <= MaxFrames /\ MaxLocals \in Nat
  BY BoundsAssumption DEF IInv, TypeOK
<1>3. Top.num \in 0 .. MaxLocals /\ Top.num - 1 \in 0 .. MaxLocals
        /\ Top.num - 1 \in 0 .. MaxLocals - 1
  BY <1>1, <1>2, TopFrame
<1>4. k \in Slots /\ Top.bp \in Nat
  BY <1>1, <1>2, <1>3, TopFrame, FramesApart
<1>5. /\ frames' \in Seq(Frame) /\ Len(frames') = n /\ DOMAIN frames' = DOMAIN frames
      /\ \A d \in DOMAIN frames : frames'[d].bp = frames[d].bp /\ frames'[d].self = frames[d].self
      /\ \A s \in Slots :
           (\E d \in DOMAIN frames' : s \in frames'[d].bp .. frames'[d].bp + frames'[d].num - 1) <=>
              \/ s \in Top.bp .. Top.bp + m - 1
              \/ \E d \in DOMAIN frames : d # n
                   /\ s \in frames[d].bp .. frames[d].bp + frames[d].num - 1
  <2>1. frames' = [frames EXCEPT ![Len(frames)].num = m] /\ m \in 0 .. MaxLocals
    BY <1>1, <1>3
  <2> HIDE DEF m
  <2> QED
    BY <1>1, <1>2, <2>1, TopResized, Zenon
<1>6. FrameInv'
  <2>1. ASSUME NEW s \in Slots
        PROVE  holder'[s] # None <=>
          \E d \in DOMAIN frames' : s \in frames'[d].bp .. frames'[d].bp + frames'[d].num - 1
    <3>1. s \in Int
      BY FramesApart DEF Slots
    <3>2. s \in Top.bp .. Top.bp + m - 1 <=> s \in Top.bp .. Top.bp + Top.num - 1 /\ s # k
      BY <1>3, <1>4, <3>1
    <3>3. holder[s] # None <=> \/ s \in Top.bp .. Top.bp + Top.num - 1
                               \/ \E d \in DOMAIN frames : d # n
                                    /\ s \in frames[d].bp .. frames[d].bp + frames[d].num - 1
      <4>1. n \in DOMAIN frames /\ Top = frames[n]
        BY <1>1, <1>2, TopFrame DEF TypeOK, Top
      <4> QED
        BY <1>2, <4>1, Zenon DEF FrameInv
    <3>4. holder'[s] = IF s = k THEN None ELSE holder[s]
      BY <1>1, <1>2 DEF TypeOK
    <3>5. ASSUME NEW d \in DOMAIN frames, d # n
          PROVE  k \notin frames[d].bp .. frames[d].bp + frames[d].num - 1
      <4>1. frames[d].num \in Nat /\ frames[d].bp \in Nat /\ frames[d].bp + frames[d].num <= Top.bp
        BY <1>1, <1>2, <3>5, TopFrame
      <4> QED
        BY <1>3, <1>4, <4>1
    <3> HIDE DEF k, m
    <3> QED
      BY <1>5, <3>2, <3>3, <3>4, <3>5, Zenon
  <2> QED
    BY <1>1, <1>2, <1>5, <2>1 DEF FrameInv
<1>7. stack' \in [Slots -> Values] /\ holder' \in [Slots -> Vars \cup {None}]
  BY <1>1, <1>2 DEF TypeOK
<1> QED
  BY <1>1, <1>2, <1>5, <1>6, <1>7, LocalsStep
-----------------------------------------------------------------------------
LEMMA LoadFunctionIInv ==
  ASSUME IInv, InFunction, NEW c \in Closures, NEW n \in 1 .. MaxCaptures,
         NEW caps \in [1 .. n -> Captures], LoadFunction(c, caps)
  PROVE  IInv'
<1> DEFINE D == DOMAIN closures
<1>1. /\ Ready /\ c \notin D
      /\ building' = [fn |-> c, todo |-> caps]
      /\ closures' = [d \in D \cup {c} |-> IF d = c THEN <<>> ELSE closures[d]]
      /\ captured' = [d \in D \cup {c} |-> IF d = c THEN <<>> ELSE captured[d]]
      /\ UNCHANGED <<stack, frames, upvals, open, aborted, holder>>
  BY DEF LoadFunction, IInv, TypeOK
<1>2. TypeOK /\ FrameInv /\ MaxCaptures \in Nat /\ c # None /\ n \in Nat
  BY BoundsAssumption DEF IInv
<1>3. /\ DOMAIN closures' = D \cup {c} /\ DOMAIN captured' = D \cup {c}
      /\ closures'[c] = <<>> /\ captured'[c] = <<>>
      /\ \A d \in D : closures'[d] = closures[d] /\ captured'[d] = captured[d]
  BY <1>1
<1>4. caps \in Seq(Captures) /\ Len(caps) = n /\ caps # <<>>
  <2>1. caps \in Seq(Captures) /\ Len(caps) = n
    BY <1>2
  <2> QED
    BY <1>2, <2>1
<1>5. TypeOK'
  <2>1. /\ stack' \in [Slots -> Values] /\ holder' \in [Slots -> Vars \cup {None}]
        /\ frames' \in Seq(Frame) /\ Len(frames') <= MaxFrames
        /\ DOMAIN upvals' \subseteq Upvals
        /\ \A u \in DOMAIN upvals' : upvals'[u] \in Upval
        /\ open' \in Seq(Upvals \cup {None}) /\ aborted' \in BOOLEAN
    BY <1>1, <1>2 DEF TypeOK
  <2>2. DOMAIN closures' \subseteq Closures /\ DOMAIN captured' = DOMAIN closures'
    BY <1>2, <1>3 DEF TypeOK
  <2>3. \A d \in DOMAIN closures' : closures'[d] \in Seq(Upvals)
                                    /\ captured'[d] \in Seq(Vars \cup {None})
    <3>1. closures'[c] \in Seq(Upvals) /\ captured'[c] \in Seq(Vars \cup {None})
      BY <1>3
    <3>2. \A d \in D : closures'[d] \in Seq(Upvals) /\ captured'[d] \in Seq(Vars \cup {None})
      BY <1>2, <1>3 DEF TypeOK
    <3> QED
      BY <1>3, <3>1, <3>2, Zenon
  <2>4. building'.fn \in DOMAIN closures'
    BY <1>1, <1>3
  <2> QED
    BY <2>1, <2>2, <2>3, <2>4, Zenon DEF TypeOK
<1>6. FrameInv'
  BY <1>1, <1>2, <1>3 DEF FrameInv
<1>7. ClosuresInv'
  <2>1. IsFiniteSet(D \cup {c})
    BY FS_AddElement DEF IInv, ClosuresInv
  <2>2. Len(closures'[c]) = 0 /\ Len(captured'[c]) = 0 /\ 0 <= MaxCaptures
    BY <1>2, <1>3
  <2> QED
    BY <1>3, <2>1, <2>2 DEF IInv, ClosuresInv
<1>8. BuildInv'
  <2>1. \A d \in DOMAIN frames : frames[d].self # c
    BY <1>1, <1>2 DEF FrameInv
  <2>2. Captures' = Captures
    <3>1. Top.self \in D \cup {None}
      BY <1>2, TopFrame
    <3>2. Top' = Top /\ InScope' = InScope
      BY <1>1 DEF Top, InScope
    <3>3. Top.self # None => closures'[Top.self] = closures[Top.self]
      BY <1>3, <3>1
    <3> QED
      BY <3>2, <3>3 DEF Captures
  <2>3. Len(closures'[c]) + Len(caps) <= MaxCaptures
    BY <1>3, <1>4
  <2>4. building'.fn = c /\ building'.todo = caps
    BY <1>1
  <2> QED
    BY <1>1, <1>3, <1>4, <2>1, <2>2, <2>3, <2>4 DEF BuildInv, InFunction
<1>9. OpenInv' /\ CountInv'
  <2>1. ASSUME NEW u PROVE Users(u)' = Users(u)
    <3>1. DOMAIN closures'[c] = {}
      BY <1>3
    <3> QED
      BY <1>1, <1>3, <3>1 DEF Users
  <2>2. OpenInv'
    BY <1>1 DEF IInv, OpenInv
  <2> QED
    BY <1>1, <2>1, <2>2 DEF IInv, CountInv
<1> QED
  BY <1>5, <1>6, <1>7, <1>8, <1>9 DEF IInv
-----------------------------------------------------------------------------
(* The capture that is bound next.                                         *)
LEMMA NextCapture ==
  ASSUME IInv, building # None
  PROVE  /\ InFunction /\ building = [fn |-> building.fn, todo |-> building.todo]
         /\ building.fn \in DOMAIN closures /\ building.fn # Top.self
         /\ building.todo \in Seq(Captures) /\ Len(building.todo) \in Nat \ {0}
         /\ Len(closures[building.fn]) + 1 \in 1 .. MaxCaptures
         /\ Head(building.todo) \in Captures
         /\ Head(building.todo).kind = "local" => Head(building.todo).at \in InScope
         /\ Head(building.todo).kind = "upvalue" =>
              Top.self \in DOMAIN closures /\ Head(building.todo).at \in DOMAIN closures[Top.self]
<1>1. /\ InFunction /\ building = [fn |-> building.fn, todo |-> building.todo]
      /\ building.fn \in DOMAIN closures
      /\ building.todo \in Seq(Captures) /\ building.todo # <<>>
      /\ Len(closures[building.fn]) + Len(building.todo) <= MaxCaptures
      /\ \A d \in DOMAIN frames : frames[d].self # building.fn
  BY DEF IInv, BuildInv
<1> DEFINE todo == building.todo
           cap == Head(todo)
<1>2. Len(todo) \in Nat \ {0} /\ cap \in Captures
  <2> HIDE DEF todo
  <2>1. todo \in Seq(Captures) /\ todo # <<>>
    BY <1>1 DEF todo
  <2> QED
    BY <2>1
<1>3. Len(closures[building.fn]) + 1 \in 1 .. MaxCaptures
  <2>1. Len(closures[building.fn]) \in Nat /\ MaxCaptures \in Nat
    BY <1>1, BoundsAssumption DEF IInv, TypeOK
  <2> QED
    BY <1>1, <1>2, <2>1
<1>4. Len(frames) \in DOMAIN frames /\ Top.self \in DOMAIN closures \cup {None} /\ Top = frames[Len(frames)]
  BY <1>1, TopFrame DEF IInv, TypeOK, Top
<1>5. (cap.kind = "local" => cap.at \in InScope)
        /\ (cap.kind = "upvalue" => Top.self \in DOMAIN closures /\ cap.at \in DOMAIN closures[Top.self])
  <2> HIDE DEF cap
  <2>1. CASE cap \in [kind : {"local"}, at : InScope]
    BY <2>1
  <2>2. CASE Top.self # None /\ cap \in [kind : {"upvalue"}, at : DOMAIN closures[Top.self]]
    BY <1>4, <2>2
  <2> QED
    BY <1>2, <2>1, <2>2 DEF Captures
<1> QED
  BY <1>1, <1>2, <1>3, <1>4, <1>5

LEMMA AddUpvalueIInv ==
  ASSUME IInv, building # None, NEW u \in Upvals, NEW uvs, NEW x \in Vars \cup {None},
         AddUpvalue(u, uvs, x),
         DOMAIN uvs = DOMAIN upvals \cup {u},
         \A w \in DOMAIN uvs : uvs[w] \in Upval
           /\ uvs[w].refcount = IF w \in DOMAIN upvals THEN upvals[w].refcount ELSE 0,
         open' \in Seq(Upvals \cup {None}),
         \A i \in DOMAIN open' : open'[i] # None => open'[i] \in DOMAIN uvs
  PROVE  IInv'
<1> DEFINE fn == building.fn
           k == Len(closures[fn]) + 1
           r == uvs[u].refcount
           new == [closed |-> uvs[u].closed, idx |-> uvs[u].idx, value |-> uvs[u].value,
                   refcount |-> r + 1]
<1>1. /\ upvals' = [uvs EXCEPT ![u].refcount = r + 1]
      /\ closures' = [closures EXCEPT ![fn] = Append(closures[fn], u)]
      /\ captured' = [captured EXCEPT ![fn] = Append(captured[fn], x)]
      /\ building' = IF Len(building.todo) = 1 THEN None
                     ELSE [fn |-> fn, todo |-> Tail(building.todo)]
      /\ UNCHANGED <<stack, frames, aborted, holder>>
  <2>1. [building EXCEPT !.todo = Tail(building.todo)] = [fn |-> fn, todo |-> Tail(building.todo)]
    <3>1. PICK a, b : building = [fn |-> a, todo |-> b]
      BY NextCapture
    <3>2. building.fn = a /\ building.todo = b
      BY <3>1
    <3> DEFINE t == Tail(b)
    <3> HIDE DEF t
    <3>3. [building EXCEPT !.todo = t] = [fn |-> a, todo |-> t]
      BY <3>1
    <3> QED
      BY <3>2, <3>3 DEF t
  <2> QED
    BY <2>1, Zenon DEF AddUpvalue
<1>2. /\ fn \in DOMAIN closures /\ k \in 1 .. MaxCaptures /\ fn # Top.self
      /\ building.todo \in Seq(Captures) /\ Len(building.todo) \in Nat \ {0}
      /\ \A d \in DOMAIN frames : frames[d].self # fn
      /\ Len(closures[fn]) + Len(building.todo) <= MaxCaptures
      /\ InFunction
  BY NextCapture DEF IInv, BuildInv
<1>3. TypeOK /\ FrameInv /\ DOMAIN captured = DOMAIN closures
        /\ closures[fn] \in Seq(Upvals) /\ captured[fn] \in Seq(Vars \cup {None})
        /\ Len(captured[fn]) = Len(closures[fn])
  BY <1>2 DEF IInv, TypeOK, ClosuresInv
<1> HIDE DEF fn
<1>4. /\ DOMAIN closures' = DOMAIN closures /\ DOMAIN captured' = DOMAIN closures
      /\ closures'[fn] = Append(closures[fn], u) /\ captured'[fn] = Append(captured[fn], x)
      /\ \A c \in DOMAIN closures : c # fn => closures'[c] = closures[c] /\ captured'[c] = captured[c]
  BY <1>1, <1>2, <1>3
<1>5. /\ closures'[fn] \in Seq(Upvals) /\ captured'[fn] \in Seq(Vars \cup {None})
      /\ Len(closures'[fn]) = k /\ Len(captured'[fn]) = k
      /\ DOMAIN closures'[fn] = 1 .. k /\ DOMAIN closures[fn] = 1 .. k - 1
      /\ closures'[fn][k] = u /\ \A i \in 1 .. k - 1 : closures'[fn][i] = closures[fn][i]
  BY <1>3, <1>4, AppendProperties
<1>6. u \in DOMAIN uvs /\ uvs[u] \in Upval
  OBVIOUS
<1>7. new \in Upval /\ new.refcount = r + 1
  BY <1>6 DEF Upval
<1>8. upvals' = [uvs EXCEPT ![u] = new]
  <2>1. [uvs[u] EXCEPT !.refcount = r + 1] = new
    BY <1>6 DEF Upval
  <2> HIDE DEF new, r
  <2> QED
    BY <1>1, <2>1
<1> HIDE DEF new
<1>9. /\ DOMAIN upvals' = DOMAIN upvals \cup {u} /\ upvals'[u] = new
      /\ \A w \in DOMAIN uvs : w # u => upvals'[w] = uvs[w]
  BY <1>6, <1>8
<1>10. TypeOK'
  <2>1. \A w \in DOMAIN upvals' : upvals'[w] \in Upval
    BY <1>7, <1>9
  <2>2. DOMAIN upvals' \subseteq Upvals
    BY <1>3, <1>9 DEF TypeOK
  <2>3. \A c \in DOMAIN closures : closures'[c] \in Seq(Upvals)
    BY <1>3, <1>4, <1>5 DEF TypeOK
  <2>4. \A c \in DOMAIN closures : captured'[c] \in Seq(Vars \cup {None})
    BY <1>3, <1>4, <1>5 DEF TypeOK
  <2>5. building' # None => building'.fn \in DOMAIN closures
    BY <1>1, <1>2
  <2>6. /\ stack' \in [Slots -> Values] /\ holder' \in [Slots -> Vars \cup {None}]
        /\ frames' \in Seq(Frame) /\ Len(frames') <= MaxFrames
        /\ aborted' \in BOOLEAN /\ DOMAIN closures \subseteq Closures
    BY <1>1, <1>3 DEF TypeOK
  <2> QED
    BY <1>4, <2>1, <2>2, <2>3, <2>4, <2>5, <2>6, Zenon DEF TypeOK
<1>11. FrameInv'
  BY <1>1, <1>3, <1>4 DEF FrameInv
<1>12. ClosuresInv'
  <2>1. MaxCaptures \in Nat /\ k \in Nat /\ k <= MaxCaptures
    BY <1>2, BoundsAssumption
  <2> QED
    BY <1>4, <1>5, <2>1 DEF IInv, ClosuresInv
<1>13. BuildInv'
  <2> SUFFICES ASSUME building' # None PROVE BuildInv'
    BY DEF BuildInv
  <2>1. Len(building.todo) # 1 /\ building'.fn = fn /\ building'.todo = Tail(building.todo)
          /\ building' = [fn |-> fn, todo |-> Tail(building.todo)]
    BY <1>1
  <2>2. Tail(building.todo) \in Seq(Captures) /\ Len(Tail(building.todo)) = Len(building.todo) - 1
          /\ Tail(building.todo) # <<>>
    <3> DEFINE todo == building.todo
    <3>1. todo \in Seq(Captures) /\ Len(todo) \in Nat \ {0} /\ Len(todo) # 1
      BY <1>2, <2>1
    <3> HIDE DEF todo
    <3>2. Tail(todo) \in Seq(Captures) /\ Len(Tail(todo)) = Len(todo) - 1 /\ Len(Tail(todo)) # 0
      BY <3>1
    <3>3. Tail(todo) # <<>>
      <4>1. Len(<<>>) = 0
        OBVIOUS
      <4> QED
        BY <3>2, <4>1
    <3> QED
      BY <3>2, <3>3 DEF todo
  <2>3. Captures' = Captures
    <3>1. Top.self \in DOMAIN closures \cup {None}
      BY <1>2, <1>3, TopFrame
    <3>2. Top' = Top /\ InScope' = InScope
      BY <1>1 DEF Top, InScope
    <3>3. Top.self # None => closures'[Top.self] = closures[Top.self]
      BY <1>2, <1>4, <3>1 DEF fn
    <3> QED
      BY <3>2, <3>3 DEF Captures
  <2>4. Len(closures'[fn]) + Len(Tail(building.todo)) <= MaxCaptures
    <3>1. Len(closures[fn]) \in Nat /\ MaxCaptures \in Nat /\ Len(building.todo) \in Nat
      BY <1>2, <1>3, BoundsAssumption
    <3>2. Len(closures'[fn]) = Len(closures[fn]) + 1
      BY <1>5
    <3>3. Len(closures[fn]) + Len(building.todo) <= MaxCaptures
      BY <1>2
    <3>4. Len(Tail(building.todo)) = Len(building.todo) - 1
      BY <2>2
    <3> DEFINE a == Len(closures[fn])
               b == Len(building.todo)
    <3>5. a \in Nat /\ b \in Nat /\ a + b <= MaxCaptures
      BY <3>1, <3>3
    <3> HIDE DEF a, b
    <3>6. (a + 1) + (b - 1) <= MaxCaptures
      BY <3>1, <3>5
    <3> QED
      BY <3>2, <3>4, <3>6 DEF a, b
  <2> QED
    BY <1>1, <1>2, <1>4, <2>1, <2>2, <2>3, <2>4 DEF BuildInv, InFunction, fn
<1>14. OpenInv'
  BY <1>9 DEF OpenInv
<1>15. CountInv'
  <2> DEFINE new2 == <<fn, k>>
  <2>1. ASSUME NEW w \in Upvals, w # u PROVE Users(w)' = Users(w)
    <3>1. ASSUME NEW c \in DOMAIN closures, NEW i \in 1 .. MaxCaptures
          PROVE  (i \in DOMAIN closures'[c] /\ closures'[c][i] = w)
                   <=> (i \in DOMAIN closures[c] /\ closures[c][i] = w)
      <4>1. CASE c # fn
        BY <1>4, <4>1
      <4>2. CASE c = fn
        <5>1. i \in Int /\ k \in Int
          BY <1>2
        <5> HIDE DEF k
        <5>2. i \in 1 .. k <=> i \in 1 .. k - 1 \/ (i = k /\ k >= 1)
          BY <5>1
        <5> QED
          BY <1>5, <2>1, <4>2, <5>2
      <4> QED
        BY <4>1, <4>2
    <3> QED
      BY <1>4, <3>1 DEF Users
  <2>2. Users(u)' = Users(u) \cup {new2} /\ new2 \notin Users(u)
    <3>1. ASSUME NEW c \in DOMAIN closures, NEW i \in 1 .. MaxCaptures
          PROVE  (i \in DOMAIN closures'[c] /\ closures'[c][i] = u)
                   <=> (i \in DOMAIN closures[c] /\ closures[c][i] = u) \/ (c = fn /\ i = k)
      <4>1. CASE c # fn
        BY <1>4, <4>1
      <4>2. CASE c = fn
        <5>1. i \in Int /\ k \in Int /\ k >= 1
          BY <1>2 DEF fn
        <5> HIDE DEF k
        <5>2. i \in 1 .. k <=> i \in 1 .. k - 1 \/ i = k
          BY <5>1
        <5> QED
          BY <1>5, <4>2, <5>2
      <4> QED
        BY <4>1, <4>2
    <3>2. k \notin DOMAIN closures[fn] /\ fn \in DOMAIN closures /\ k \in 1 .. MaxCaptures
      BY <1>2, <1>5 DEF fn
    <3> HIDE DEF k
    <3>3. Users(u)' \subseteq Users(u) \cup {new2}
      BY <1>4, <3>1, <3>2 DEF Users
    <3>4. Users(u) \cup {new2} \subseteq Users(u)'
      BY <1>4, <3>1, <3>2 DEF Users
    <3> QED
      BY <3>2, <3>3, <3>4 DEF Users
  <2>3. IsFiniteSet(Users(u)) 
    <3>0. IsFiniteSet(DOMAIN closures)
      BY DEF IInv, ClosuresInv
    <3>1. IsFiniteSet(1 .. MaxCaptures)
      BY FS_Interval, BoundsAssumption
    <3>2. IsFiniteSet((DOMAIN closures) \X (1 .. MaxCaptures))
      BY <3>0, <3>1, FS_Product
    <3> QED
      BY <3>2, FS_Subset DEF Users
  <2>4. Cardinality(Users(u)') = Cardinality(Users(u)) + 1
    BY <2>2, <2>3, FS_AddElement
  <2>5. Cardinality(Users(u)) = r /\ r \in Nat
    <3>1. r \in Nat /\ (u \in DOMAIN upvals => r = upvals[u].refcount) /\ (u \notin DOMAIN upvals => r = 0)
      BY <1>6 DEF Upval
    <3> QED
      BY <3>1 DEF IInv, CountInv
  <2>6. ASSUME NEW w \in Upvals
        PROVE  IF w \in DOMAIN upvals'
               THEN Cardinality(Users(w)') = upvals'[w].refcount /\ upvals'[w].refcount > 0
               ELSE Cardinality(Users(w)') = 0
    <3>1. CASE w = u
      BY <1>7, <1>9, <2>4, <2>5, <3>1
    <3>2. CASE w # u
      <4>1. w \in DOMAIN upvals => upvals'[w].refcount = upvals[w].refcount
        BY <1>9, <3>2
      <4> QED
        BY <1>9, <2>1, <3>2, <4>1 DEF IInv, CountInv
    <3> QED
      BY <3>1, <3>2
  <2> QED
    BY <2>6 DEF CountInv
<1> QED
  BY <1>10, <1>11, <1>12, <1>13, <1>14, <1>15 DEF IInv
-----------------------------------------------------------------------------
LEMMA AbortIInv == ASSUME IInv, Abort PROVE IInv'
<1>1. TypeOK' /\ CountInv'
  BY CountKept DEF IInv, TypeOK, Abort
<1>2. FrameInv' /\ ClosuresInv' /\ OpenInv'
  BY DEF IInv, FrameInv, ClosuresInv, OpenInv, Abort
<1>3. BuildInv'
  BY DEF IInv, BuildInv, InFunction, Abort, Captures, InScope, Top
<1> QED
  BY <1>1, <1>2, <1>3 DEF IInv

(* A new upvalue is open and has no user yet.                              *)
LEMMA Allocated ==
  ASSUME TypeOK, NEW u \in Upvals, u \notin DOMAIN upvals, NEW s \in Slots
  PROVE  /\ DOMAIN Allocate(u, s) = DOMAIN upvals \cup {u}
         /\ \A w \in DOMAIN Allocate(u, s) : Allocate(u, s)[w] \in Upval
              /\ Allocate(u, s)[w].refcount = IF w \in DOMAIN upvals THEN upvals[w].refcount ELSE 0
         /\ Allocate(u, s)[u] = [closed |-> FALSE, idx |-> s, value |-> Null, refcount |-> 0]
         /\ \A w \in DOMAIN upvals : Allocate(u, s)[w] = upvals[w]
<1> DEFINE new == [closed |-> FALSE, idx |-> s, value |-> Null, refcount |-> 0]
<1>1. new \in Upval /\ new.refcount = 0
  BY BoundsAssumption DEF Upval
<1> HIDE DEF new
<1>2. Allocate(u, s) = [w \in DOMAIN upvals \cup {u} |-> IF w = u THEN new ELSE upvals[w]]
  BY DEF Allocate, new
<1>3. /\ DOMAIN Allocate(u, s) = DOMAIN upvals \cup {u} /\ Allocate(u, s)[u] = new
      /\ \A w \in DOMAIN upvals : Allocate(u, s)[w] = upvals[w]
  BY <1>2
<1>4. \A w \in DOMAIN upvals : upvals[w] \in Upval
  BY DEF TypeOK
<1>5. ASSUME NEW w \in DOMAIN Allocate(u, s)
      PROVE  Allocate(u, s)[w] \in Upval
              /\ Allocate(u, s)[w].refcount = IF w \in DOMAIN upvals THEN upvals[w].refcount ELSE 0
  BY <1>1, <1>3, <1>4
<1> QED
  BY <1>3, <1>5 DEF new

LEMMA BindIInv == ASSUME IInv, Bind PROVE IInv'
<1> DEFINE cap == Head(building.todo)
<1>1. building # None /\ TypeOK /\ FrameInv /\ InFunction
  BY NextCapture DEF Bind, IInv
<1>2. open \in Seq(Upvals \cup {None}) /\ \A i \in DOMAIN open : open[i] # None => open[i] \in DOMAIN upvals
  BY <1>1 DEF TypeOK, IInv, OpenInv
<1>3. \A w \in DOMAIN upvals : upvals[w] \in Upval
  BY <1>1 DEF TypeOK
<1>4. ASSUME cap.kind = "local", NEW u \in Upvals, BindLocal(u, cap.at)
      PROVE  IInv'
  <2> DEFINE s == cap.at
             i == SearchStop(s)
  <2>1. s \in InScope /\ s \in Slots
    BY <1>1, <1>4, NextCapture, TopFrame DEF Held
  <2>2. holder[s] \in Vars \cup {None}
    BY <1>1, <2>1 DEF TypeOK
  <2>3. i \in 0 .. Len(open) /\ (i # 0 => i \in DOMAIN open)
    BY <1>1, <1>2, SearchStops
  <2>4. CASE Abort
    BY <2>4, AbortIInv
  <2>5. CASE /\ i # 0 /\ open[i] # None /\ upvals[open[i]].idx = s
             /\ u = open[i]
             /\ AddUpvalue(u, upvals, holder[s])
             /\ UNCHANGED open
    <3>1. u \in DOMAIN upvals
      BY <1>2, <2>3, <2>5
    <3> QED
      BY <1>1, <1>2, <1>3, <2>2, <2>5, <3>1, AddUpvalueIInv
  <2>6. CASE /\ u \notin DOMAIN upvals
             /\ open' = Append(open, u)
             /\ AddUpvalue(u, Allocate(u, s), holder[s])
    <3>1. /\ open' \in Seq(Upvals \cup {None})
          /\ \A j \in DOMAIN open' : open'[j] = u \/ (j \in DOMAIN open /\ open'[j] = open[j])
      BY <1>2, <2>6, AppendProperties
    <3>2. \A j \in DOMAIN open' : open'[j] # None => open'[j] \in DOMAIN upvals \cup {u}
      BY <1>2, <3>1
    <3> DEFINE uvs == Allocate(u, s)
    <3>3. DOMAIN uvs = DOMAIN upvals \cup {u} /\ \A w \in DOMAIN uvs : uvs[w] \in Upval
              /\ uvs[w].refcount = IF w \in DOMAIN upvals THEN upvals[w].refcount ELSE 0
      BY <1>1, <2>1, <2>6, Allocated
    <3>4. AddUpvalue(u, uvs, holder[s])
      BY <2>6
    <3> HIDE DEF uvs
    <3> QED
      BY <1>1, <2>2, <3>1, <3>2, <3>3, <3>4, AddUpvalueIInv
  <2> QED
    BY <1>4, <2>4, <2>5, <2>6 DEF BindLocal
<1>5. ASSUME cap.kind = "upvalue", BindUpvalue(cap.at)
      PROVE  IInv'
  <2> DEFINE u == closures[Top.self][cap.at]
             x == captured[Top.self][cap.at]
  <2>1. Top.self \in DOMAIN closures /\ cap.at \in DOMAIN closures[Top.self]
    BY <1>1, <1>5, NextCapture
  <2>2. u \in DOMAIN upvals /\ x \in Vars \cup {None}
    BY <2>1, UsedIsAllocated DEF IInv
  <2>3. AddUpvalue(u, upvals, x) /\ UNCHANGED open
    BY <1>5 DEF BindUpvalue
  <2>4. u \in Upvals /\ DOMAIN upvals = DOMAIN upvals \cup {u}
    BY <1>1, <2>2 DEF TypeOK
  <2> HIDE DEF u, x
  <2> QED
    BY <1>1, <1>2, <1>3, <2>2, <2>3, <2>4, AddUpvalueIInv
<1> QED
  BY <1>4, <1>5 DEF Bind
-----------------------------------------------------------------------------
LEMMA StoreUpvalueIInv ==
  ASSUME IInv, NEW i, NEW v \in Values, StoreUpvalue(i, v)
  PROVE  IInv'
<1> DEFINE u == closures[Top.self][i]
<1>1. /\ Ready /\ InFunction /\ Top.self # None /\ i \in DOMAIN closures[Top.self]
      /\ IF upvals[u].closed
         THEN upvals' = [upvals EXCEPT ![u].value = v] /\ stack' = stack
         ELSE stack' = [stack EXCEPT ![upvals[u].idx] = v] /\ upvals' = upvals
      /\ UNCHANGED <<frames, open, closures, building, aborted, holder, captured>>
  BY DEF StoreUpvalue
<1>2. TypeOK /\ FrameInv
  BY DEF IInv
<1>3. Top.self \in DOMAIN closures
  BY <1>1, <1>2, TopFrame
<1>4. u \in DOMAIN upvals
  BY <1>1, <1>3, UsedIsAllocated DEF IInv
<1> HIDE DEF u
<1>5. upvals[u] \in Upval /\ upvals[u].idx \in Slots
  BY <1>2, <1>4 DEF TypeOK, Upval
<1>6. /\ DOMAIN upvals' = DOMAIN upvals
      /\ \A w \in DOMAIN upvals : upvals'[w] \in Upval /\ upvals'[w].refcount = upvals[w].refcount
  <2>1. \A w \in DOMAIN upvals : upvals[w] \in Upval
    BY <1>2 DEF TypeOK
  <2>2. CASE upvals[u].closed
    <3>1. [upvals[u] EXCEPT !.value = v] \in Upval
            /\ [upvals[u] EXCEPT !.value = v].refcount = upvals[u].refcount
      BY <1>5 DEF Upval
    <3>2. upvals' = [upvals EXCEPT ![u] = [upvals[u] EXCEPT !.value = v]]
      BY <1>1, <2>2
    <3> QED
      BY <1>4, <2>1, <3>1, <3>2
  <2> QED
    BY <1>1, <2>1, <2>2
<1>7. stack' \in [Slots -> Values]
  BY <1>1, <1>2, <1>5 DEF TypeOK
<1>8. TypeOK'
  BY <1>1, <1>2, <1>6, <1>7 DEF TypeOK
<1>9. CountInv'
  BY <1>1, <1>6, CountKept DEF IInv
<1>10. FrameInv' /\ ClosuresInv' /\ OpenInv'
  BY <1>1, <1>6 DEF IInv, FrameInv, ClosuresInv, OpenInv
<1>11. BuildInv'
  BY <1>1 DEF BuildInv, Ready
<1> QED
  BY <1>8, <1>9, <1>10, <1>11 DEF IInv

LEMMA LeaveFrameInv ==
  ASSUME TypeOK, FrameInv, InFunction, LeaveFrame, closures' = closures
  PROVE  /\ frames' \in Seq(Frame) /\ Len(frames') <= MaxFrames
         /\ Len(frames') = Len(frames) - 1
         /\ \A d \in DOMAIN frames' : d \in DOMAIN frames /\ frames'[d] = frames[d]
         /\ holder' \in [Slots -> Vars \cup {None}]
         /\ FrameInv'
<1> DEFINE n == Len(frames)
<1>1. n \in 1 .. MaxFrames /\ frames \in Seq(Frame) /\ DOMAIN frames = 1 .. n /\ n \in Nat
        /\ MaxFrames \in Nat /\ Top = frames[n] /\ n \in DOMAIN frames
  BY TopFrame, BoundsAssumption DEF TypeOK, Top
<1>2. frames' = SubSeq(frames, 1, n - 1) /\ holder' = [s \in Slots |-> IF s >= Top.bp THEN None ELSE holder[s]]
  BY DEF LeaveFrame
<1>3. /\ frames' \in Seq(Frame) /\ Len(frames') = n - 1 /\ DOMAIN frames' = 1 .. n - 1
      /\ \A d \in 1 .. n - 1 : frames'[d] = frames[d]
  BY <1>1, <1>2
<1>4. holder' \in [Slots -> Vars \cup {None}]
  BY <1>2 DEF TypeOK
<1>5. \A d \in DOMAIN frames' : d \in DOMAIN frames /\ d # n /\ frames'[d] = frames[d]
  BY <1>1, <1>3
<1>6. Top.bp \in Nat /\ Top.num \in Nat
  BY <1>1, TopFrame, FramesApart
<1>7. ASSUME NEW s \in Slots
      PROVE  holder'[s] # None <=>
               \E d \in DOMAIN frames' : s \in frames'[d].bp .. frames'[d].bp + frames'[d].num - 1
  <2>1. s \in Nat
    BY FramesApart DEF Slots
  <2>2. CASE s >= Top.bp
    <3>1. holder'[s] = None
      BY <1>2, <2>2
    <3>2. ASSUME NEW d \in DOMAIN frames', s \in frames'[d].bp .. frames'[d].bp + frames'[d].num - 1
          PROVE  FALSE
      <4>1. frames[d].num \in Nat /\ frames[d].bp \in Nat /\ frames[d].bp + frames[d].num <= Top.bp
        BY <1>5, TopFrame
      <4> QED
        BY <1>5, <1>6, <2>1, <2>2, <3>2, <4>1
    <3> QED
      BY <3>1, <3>2
  <2>3. CASE ~(s >= Top.bp)
    <3>1. holder'[s] = holder[s]
      BY <1>2, <2>3
    <3>2. holder[s] # None <=> \E d \in DOMAIN frames : s \in frames[d].bp .. frames[d].bp + frames[d].num - 1
      BY DEF FrameInv
    <3>3. s \notin frames[n].bp .. frames[n].bp + frames[n].num - 1
      BY <1>1, <1>6, <2>1, <2>3
    <3>4. \A d \in DOMAIN frames : d # n => d \in DOMAIN frames'
      BY <1>1, <1>3
    <3> QED
      BY <1>5, <3>1, <3>2, <3>3, <3>4, Zenon
  <2> QED
    BY <2>2, <2>3
<1>8. FrameInv'
  BY <1>5, <1>7 DEF FrameInv
<1>9. n - 1 <= MaxFrames
  BY <1>1
<1> QED
  BY <1>3, <1>4, <1>5, <1>8, <1>9

LEMMA UnwindIInv == ASSUME IInv, Unwind PROVE IInv'
<1>1. /\ Ready /\ InFunction /\ LeaveFrame
      /\ UNCHANGED <<stack, upvals, open, closures, building, aborted, captured>>
  BY DEF Unwind
<1>2. TypeOK /\ FrameInv
  BY DEF IInv
<1> QED
  BY <1>1, <1>2, LeaveFrameInv, LocalsStep DEF TypeOK

(* Closing upvalues gives some of them a value and changes nothing else.   *)
LEMMA Closed ==
  ASSUME TypeOK, NEW us
  PROVE  /\ DOMAIN Closing(us) = DOMAIN upvals
         /\ \A u \in DOMAIN upvals :
              /\ Closing(us)[u] \in Upval
              /\ Closing(us)[u].refcount = upvals[u].refcount
              /\ Closing(us)[u].idx = upvals[u].idx
              /\ u \notin us => Closing(us)[u] = upvals[u]
              /\ u \in us => Closing(us)[u].closed /\ Closing(us)[u].value = stack[upvals[u].idx]
<1>1. ASSUME NEW u \in DOMAIN upvals
      PROVE  /\ Closing(us)[u] \in Upval
             /\ Closing(us)[u].refcount = upvals[u].refcount
             /\ Closing(us)[u].idx = upvals[u].idx
             /\ u \notin us => Closing(us)[u] = upvals[u]
             /\ u \in us => Closing(us)[u].closed /\ Closing(us)[u].value = stack[upvals[u].idx]
  <2>1. upvals[u] \in Upval /\ upvals[u].idx \in Slots /\ stack[upvals[u].idx] \in Values
    BY DEF TypeOK, Upval
  <2> DEFINE new == [upvals[u] EXCEPT !.closed = TRUE, !.value = stack[upvals[u].idx]]
  <2>2. new \in Upval /\ new.refcount = upvals[u].refcount /\ new.idx = upvals[u].idx
          /\ new.closed /\ new.value = stack[upvals[u].idx]
    BY <2>1 DEF Upval
  <2>3. Closing(us)[u] = IF u \in us THEN new ELSE upvals[u]
    BY DEF Closing
  <2> HIDE DEF new
  <2> QED
    BY <2>1, <2>2, <2>3
<1> QED
  BY <1>1 DEF Closing

LEMMA ReturnIInv == ASSUME IInv, Return PROVE IInv'
<1> DEFINE i == SearchStop(Top.bp - 1)
           us == {open[j] : j \in i + 1 .. Len(open)}
<1>1. CASE Abort
  BY <1>1, AbortIInv
<1>2. CASE /\ upvals' = Closing(us) /\ open' = SubSeq(open, 1, i) /\ LeaveFrame
           /\ UNCHANGED <<stack, closures, building, aborted, captured>>
  <2>1. Ready /\ InFunction /\ TypeOK /\ FrameInv
    BY DEF Return, IInv
  <2>2. i \in 0 .. Len(open) /\ open \in Seq(Upvals \cup {None}) /\ Len(open) \in Nat
    BY <2>1, SearchStops DEF TypeOK
  <2> HIDE DEF i
  <2>3. /\ open' \in Seq(Upvals \cup {None})
        /\ \A j \in DOMAIN open' : j \in DOMAIN open /\ open'[j] = open[j]
    BY <1>2, <2>2
  <2> HIDE DEF us
  <2>4. /\ DOMAIN upvals' = DOMAIN upvals
        /\ \A w \in DOMAIN upvals : upvals'[w] \in Upval /\ upvals'[w].refcount = upvals[w].refcount
    BY <1>2, <2>1, Closed
  <2>5. /\ frames' \in Seq(Frame) /\ Len(frames') <= MaxFrames
        /\ holder' \in [Slots -> Vars \cup {None}] /\ FrameInv'
    BY <1>2, <2>1, LeaveFrameInv
  <2>6. TypeOK'
    BY <1>2, <2>1, <2>3, <2>4, <2>5 DEF TypeOK
  <2>7. CountInv'
    BY <1>2, <2>4, CountKept DEF IInv
  <2>8. ClosuresInv' /\ OpenInv' /\ BuildInv'
    <3>1. ClosuresInv' /\ BuildInv'
      BY <1>2, <2>1 DEF IInv, ClosuresInv, BuildInv, Ready
    <3>2. OpenInv'
      BY <2>3, <2>4 DEF IInv, OpenInv
    <3> QED
      BY <3>1, <3>2
  <2> QED
    BY <2>5, <2>6, <2>7, <2>8 DEF IInv
<1> QED
  BY <1>1, <1>2, Zenon DEF Return
-----------------------------------------------------------------------------
(* The references a closure holds to an upvalue are the users of it that   *)
(* the closure accounts for.                                               *)
LEMMA UsesCounted ==
  ASSUME IInv, NEW c \in DOMAIN closures, NEW u \in Upvals
  PROVE  /\ IsFiniteSet(Users(u)) /\ Cardinality(Users(u)) \in Nat
         /\ Uses(c, u) \in Nat
         /\ Cardinality({r \in Users(u) : r[1] = c}) = Uses(c, u)
         /\ (\E i \in DOMAIN closures[c] : closures[c][i] = u) <=> Uses(c, u) # 0
<1> DEFINE I == {i \in DOMAIN closures[c] : closures[c][i] = u}
           P == {r \in Users(u) : r[1] = c}
           f == [i \in I |-> <<c, i>>]
<1>1. IsFiniteSet(Users(u)) /\ Cardinality(Users(u)) \in Nat
  <2>1. IsFiniteSet(1 .. MaxCaptures) /\ IsFiniteSet(DOMAIN closures)
    BY FS_Interval, BoundsAssumption DEF IInv, ClosuresInv
  <2>2. IsFiniteSet((DOMAIN closures) \X (1 .. MaxCaptures))
    BY <2>1, FS_Product
  <2>3. IsFiniteSet(Users(u))
    BY <2>2, FS_Subset DEF Users
  <2> QED
    BY <2>3, FS_CardinalityType
<1>2. DOMAIN closures[c] \subseteq 1 .. MaxCaptures /\ DOMAIN closures[c] = 1 .. Len(closures[c])
        /\ Len(closures[c]) \in Nat
  BY BoundsAssumption DEF IInv, TypeOK, ClosuresInv
<1>3. IsFiniteSet(I) /\ Cardinality(I) \in Nat
  <2>1. IsFiniteSet(1 .. Len(closures[c])) /\ I \in SUBSET (1 .. Len(closures[c]))
    BY <1>2, FS_Interval
  <2> HIDE DEF I
  <2> QED
    BY <2>1, FS_Subset, FS_CardinalityType
<1>4. f \in Bijection(I, P)
  <2>1. \A i \in I : f[i] \in P
    BY <1>2 DEF Users
  <2>2. ASSUME NEW r \in P PROVE \E i \in I : f[i] = r
    <3>1. r[2] \in I /\ r = <<c, r[2]>>
      BY DEF Users
    <3> QED
      BY <3>1
  <2>3. \A i, j \in I : f[i] = f[j] => i = j
    OBVIOUS
  <2> QED
    BY <2>1, <2>2, <2>3 DEF Bijection, Injection, Surjection, IsInjective
<1>5. Cardinality(P) = Cardinality(I)
  <2> HIDE DEF I, P, f
  <2> QED
    BY <1>3, <1>4, FS_Bijection DEF ExistsBijection
<1>6. I # {} <=> Cardinality(I) # 0
  <2> HIDE DEF I
  <2> QED
    BY <1>3, FS_EmptySet
<1> QED
  BY <1>1, <1>3, <1>5, <1>6 DEF Uses

(* What is left of upvalues, of users and of counts without closure c.     *)
LEMMA Released ==
  ASSUME IInv, NEW c \in DOMAIN closures
  PROVE  /\ DOMAIN Release(c) \subseteq DOMAIN upvals
         /\ \A u \in DOMAIN upvals :
              /\ Uses(c, u) \in Nat /\ upvals[u].refcount \in Nat
              /\ u \in DOMAIN Release(c) <=> upvals[u].refcount > Uses(c, u)
              /\ u \notin Range(closures[c]) => u \in DOMAIN Release(c)
         /\ \A u \in DOMAIN Release(c) :
              /\ Release(c)[u] \in Upval
              /\ Release(c)[u].refcount = upvals[u].refcount - Uses(c, u)
              /\ Release(c)[u].idx = upvals[u].idx
              /\ Release(c)[u].closed = upvals[u].closed
              /\ Release(c)[u].value = upvals[u].value
<1>1. ASSUME NEW u \in DOMAIN upvals
      PROVE  /\ Uses(c, u) \in Nat /\ upvals[u].refcount \in Nat /\ upvals[u] \in Upval
             /\ u \notin Range(closures[c]) => upvals[u].refcount > Uses(c, u)
  <2>1. u \in Upvals /\ upvals[u] \in Upval
    BY DEF IInv, TypeOK
  <2>2. upvals[u].refcount \in Nat /\ upvals[u].refcount > 0
    BY <2>1 DEF IInv, CountInv, Upval
  <2> QED
    BY <2>1, <2>2, UsesCounted DEF Range
<1>2. ASSUME NEW u \in DOMAIN Release(c)
      PROVE  /\ Release(c)[u] \in Upval
             /\ Release(c)[u].refcount = upvals[u].refcount - Uses(c, u)
             /\ Release(c)[u].idx = upvals[u].idx
             /\ Release(c)[u].closed = upvals[u].closed
             /\ Release(c)[u].value = upvals[u].value
  <2> DEFINE left == upvals[u].refcount - Uses(c, u)
             new == [upvals[u] EXCEPT !.refcount = left]
  <2>1. u \in DOMAIN upvals /\ upvals[u].refcount > Uses(c, u) /\ Release(c)[u] = new
    BY DEF Release
  <2>2. left \in Nat /\ upvals[u] \in Upval
    BY <1>1, <2>1
  <2> HIDE DEF left
  <2>3. new \in Upval /\ new.refcount = left /\ new.idx = upvals[u].idx
          /\ new.closed = upvals[u].closed /\ new.value = upvals[u].value
    BY <2>2 DEF Upval
  <2> HIDE DEF new
  <2> QED
    BY <2>1, <2>3 DEF left
<1> QED
  BY <1>1, <1>2 DEF Release

LEMMA CollectIInv == ASSUME IInv, NEW c \in Closures, Collect(c) PROVE IInv'
<1> DEFINE D == DOMAIN closures
<1>1. /\ Ready /\ c \in D
      /\ \A f \in Range(frames) : f.self # c
      /\ upvals' = Release(c)
      /\ open' = [i \in DOMAIN open |-> IF open[i] \in Range(closures[c]) THEN None ELSE open[i]]
      /\ closures' = [d \in D \ {c} |-> closures[d]] /\ captured' = [d \in D \ {c} |-> captured[d]]
      /\ UNCHANGED <<stack, frames, building, aborted, holder>>
  BY DEF Collect, Restrict
<1>2. TypeOK /\ building' = None
  BY <1>1 DEF IInv, Ready
<1>3. /\ DOMAIN closures' = D \ {c} /\ DOMAIN captured' = D \ {c}
      /\ \A d \in D \ {c} : closures'[d] = closures[d] /\ captured'[d] = captured[d]
  BY <1>1
<1>4. /\ open' \in Seq(Upvals \cup {None}) /\ DOMAIN open' = DOMAIN open
      /\ \A i \in DOMAIN open : open'[i] # None => open'[i] = open[i] /\ open[i] \notin Range(closures[c])
  <2>1. open \in Seq(Upvals \cup {None}) /\ DOMAIN open = 1 .. Len(open) /\ Len(open) \in Nat
    BY <1>2 DEF TypeOK
  <2>2. \A i \in DOMAIN open : open[i] \in Upvals \cup {None}
    BY <2>1
  <2>3. open' \in [1 .. Len(open) -> Upvals \cup {None}]
    BY <1>1, <2>1, <2>2
  <2>4. open' \in Seq(Upvals \cup {None})
    BY <2>1, <2>3
  <2> QED
    BY <1>1, <2>4
<1>5. TypeOK'
  <2>1. \A u \in DOMAIN upvals' : upvals'[u] \in Upval
    BY <1>1, Released
  <2>2. DOMAIN upvals' \subseteq Upvals
    BY <1>1, <1>2, Released DEF TypeOK
  <2>3. /\ DOMAIN closures' \subseteq Closures /\ DOMAIN captured' = DOMAIN closures'
        /\ \A d \in DOMAIN closures' : closures'[d] \in Seq(Upvals)
                                       /\ captured'[d] \in Seq(Vars \cup {None})
    BY <1>2, <1>3 DEF TypeOK
  <2>4. /\ stack' \in [Slots -> Values] /\ holder' \in [Slots -> Vars \cup {None}]
        /\ frames' \in Seq(Frame) /\ Len(frames') <= MaxFrames /\ aborted' \in BOOLEAN
    BY <1>1, <1>2 DEF TypeOK
  <2> QED
    BY <1>2, <1>4, <2>1, <2>2, <2>3, <2>4, Zenon DEF TypeOK
<1>6. FrameInv'
  <2>1. \A d \in DOMAIN frames : frames[d].self # c
    BY <1>1 DEF Range
  <2> QED
    BY <1>1, <1>3, <2>1 DEF IInv, FrameInv
<1>7. ClosuresInv' /\ BuildInv'
  <2>1. IsFiniteSet(D \ {c})
    BY FS_RemoveElement DEF IInv, ClosuresInv
  <2> QED
    BY <1>2, <1>3, <2>1 DEF IInv, ClosuresInv, BuildInv
<1>8. OpenInv'
  <2>1. ASSUME NEW i \in DOMAIN open', open'[i] # None PROVE open'[i] \in DOMAIN upvals'
    <3>1. open'[i] = open[i] /\ open[i] \notin Range(closures[c]) /\ i \in DOMAIN open
      BY <1>4, <2>1
    <3>2. open[i] \in DOMAIN upvals
      BY <2>1, <3>1 DEF IInv, OpenInv
    <3> QED
      BY <1>1, <3>1, <3>2, Released
  <2> QED
    BY <2>1 DEF OpenInv
<1>9. CountInv'
  <2>1. ASSUME NEW u \in Upvals
        PROVE  IF u \in DOMAIN upvals'
               THEN Cardinality(Users(u)') = upvals'[u].refcount /\ upvals'[u].refcount > 0
               ELSE Cardinality(Users(u)') = 0
    <3> DEFINE P == {r \in Users(u) : r[1] = c}
    <3>1. Users(u)' = Users(u) \ P
      BY <1>3 DEF Users
    <3>2. /\ IsFiniteSet(Users(u)) /\ Cardinality(Users(u)) \in Nat
          /\ Uses(c, u) \in Nat /\ Cardinality(P) = Uses(c, u)
      BY <1>1, UsesCounted
    <3>3. Cardinality(Users(u) \ P) = Cardinality(Users(u)) - Cardinality(P)
      <4>1. Users(u) \cap P = P
        OBVIOUS
      <4> HIDE DEF P
      <4>2. IsFiniteSet(Users(u))
        BY <3>2
      <4>3. Cardinality(Users(u) \ P) = Cardinality(Users(u)) - Cardinality(Users(u) \cap P)
        BY <4>2, FS_Difference, Zenon
      <4> QED
        BY <4>1, <4>3, Zenon
    <3>4. Cardinality(P) <= Cardinality(Users(u))
      BY <3>2, FS_Subset
    <3>5. Cardinality(Users(u)') = Cardinality(Users(u)) - Uses(c, u)
            /\ Cardinality(Users(u)) >= Uses(c, u)
      BY <3>1, <3>2, <3>3, <3>4
    <3>6. CASE u \notin DOMAIN upvals
      <4>1. u \notin DOMAIN upvals' /\ Cardinality(Users(u)) = 0
        BY <1>1, <3>6, Released DEF IInv, CountInv
      <4> QED
        BY <3>2, <3>5, <4>1
    <3>7. CASE u \in DOMAIN upvals
      <4>1. Cardinality(Users(u)) = upvals[u].refcount
        BY <3>7 DEF IInv, CountInv
      <4>2. u \in DOMAIN upvals' <=> upvals[u].refcount > Uses(c, u)
        BY <1>1, <3>7, Released
      <4>3. u \in DOMAIN upvals' => upvals'[u].refcount = upvals[u].refcount - Uses(c, u)
        BY <1>1, Released
      <4> QED
        BY <3>2, <3>5, <4>1, <4>2, <4>3
    <3> QED
      BY <3>6, <3>7
  <2> QED
    BY <2>1 DEF CountInv
<1> QED
  BY <1>5, <1>6, <1>7, <1>8, <1>9 DEF IInv
-----------------------------------------------------------------------------
LEMMA StepIInv == IInv /\ [Next]_vars => IInv'
<1> SUFFICES ASSUME IInv, [Next]_vars PROVE IInv'
  OBVIOUS
<1>1. ASSUME NEW self \in DOMAIN closures \cup {None}, Call(self) PROVE IInv'
  BY <1>1, CallIInv
<1>2. ASSUME NEW x \in Vars, NEW v \in Values, Declare(x, v) PROVE IInv'
  BY <1>2, DeclareIInv
<1>3. ASSUME NEW s \in Slots, NEW v \in Values, StoreLocal(s, v) PROVE IInv'
  BY <1>3, StoreLocalIInv
<1>4. CASE EndScope
  BY <1>4, EndScopeIInv
<1>5. ASSUME InFunction, NEW c \in Closures, NEW n \in 1 .. MaxCaptures,
             NEW caps \in [1 .. n -> Captures], LoadFunction(c, caps)
      PROVE  IInv'
  BY <1>5, LoadFunctionIInv
<1>6. CASE Bind
  BY <1>6, BindIInv
<1>7. ASSUME NEW i \in 1 .. MaxCaptures, NEW v \in Values, StoreUpvalue(i, v) PROVE IInv'
  BY <1>7, StoreUpvalueIInv
<1>8. CASE Return
  BY <1>8, ReturnIInv
<1>9. CASE Unwind
  BY <1>9, UnwindIInv
<1>10. ASSUME NEW c \in Closures, Collect(c) PROVE IInv'
  BY <1>10, CollectIInv
<1>11. CASE UNCHANGED vars
  <2> USE <1>11 DEF vars
  <2>1. TypeOK' /\ CountInv'
    BY CountKept DEF IInv, TypeOK
  <2>2. FrameInv' /\ ClosuresInv' /\ OpenInv'
    BY DEF IInv, FrameInv, ClosuresInv, OpenInv
  <2>3. BuildInv'
    BY DEF IInv, BuildInv, InFunction, Captures, InScope, Top
  <2> QED
    BY <2>1, <2>2, <2>3 DEF IInv
<1> QED
  BY <1>1, <1>2, <1>3, <1>4, <1>5, <1>6, <1>7, <1>8, <1>9, <1>10, <1>11 DEF Next

LEMMA AlwaysIInv == Spec => []IInv
BY InitIInv, StepIInv, PTL DEF Spec

(* Stack, frames, upvalues and functions keep their types, whatever a      *)
(* program does with closures.                                             *)
THEOREM TypeCorrect == Spec => []TypeOK
<1>1. IInv => TypeOK
  BY DEF IInv
<1> QED
  BY <1>1, AlwaysIInv, PTL

(* cb_function_add_upvalue and cb_function_deinit: an upvalue is freed      *)
(* exactly when its last closure is, and never while a closure uses it.    *)
(* This holds of every program, whichever of the Features it uses: what     *)
(* goes wrong with those is never a freed upvalue.                         *)
THEOREM RefcountAlwaysExact == Spec => []RefcountExact
<1>1. IInv => RefcountExact
  BY DEF IInv, CountInv, RefcountExact, Users
<1> QED
  BY <1>1, AlwaysIInv, PTL
-----------------------------------------------------------------------------
(* What holds of programs that do none of the Features: the open upvalues  *)
(* are in the order of their slots, which are those of variables in scope, *)
(* and an upvalue and a variable belong together.                          *)
Sorted == \A i, j \in DOMAIN open : i < j => upvals[open[i]].idx < upvals[open[j]].idx
OpenExact == /\ None \notin Range(open)
             /\ \A u \in DOMAIN upvals : u \in Range(open) <=> ~upvals[u].closed
OpenHeld == \A u \in Range(open) : upvals[u].idx \in Held
Injective == \A s, t \in Held : holder[s] = holder[t] => s = t
CellOK(p) == /\ p.var \in Vars
             /\ IF upvals[p.upval].closed THEN p.var \notin Range(holder)
                ELSE holder[upvals[p.upval].idx] = p.var
CellsInv == /\ \A p \in Cells : CellOK(p)
            /\ \A p, q \in Cells : p.var = q.var <=> p.upval = q.upval
OrderInv == building # None => InOrder(building.todo)

PlainInv == ~aborted /\ Sorted /\ OpenExact /\ OpenHeld /\ Injective /\ CellsInv /\ OrderInv
-----------------------------------------------------------------------------
LEMMA CellsAllocated ==
  IInv => \A p \in Cells : p = [var |-> p.var, upval |-> p.upval] /\ p.upval \in DOMAIN upvals
<1> SUFFICES ASSUME IInv, NEW c \in DOMAIN closures, NEW i \in DOMAIN closures[c]
             PROVE  closures[c][i] \in DOMAIN upvals
  BY DEF Cells
<1> QED
  BY UsedIsAllocated DEF IInv

CellsAlive == \A p \in Cells : p.upval \in DOMAIN upvals
LEMMA AliveCells == IInv => CellsAlive
BY CellsAllocated DEF CellsAlive

(* An open upvalue is one of its slot.                                     *)
LEMMA OpenOnes ==
  ASSUME IInv, Sorted, OpenExact
  PROVE  /\ \A i \in DOMAIN open : /\ open[i] # None /\ open[i] \in DOMAIN upvals
                                   /\ ~upvals[open[i]].closed
         /\ \A u \in DOMAIN upvals : upvals[u].idx \in Slots /\ upvals[u].idx \in Nat
         /\ \A i, j \in DOMAIN open : upvals[open[i]].idx = upvals[open[j]].idx => i = j
         /\ \A s : IsCaptured(s) <=> \E u \in DOMAIN upvals : ~upvals[u].closed /\ upvals[u].idx = s
<1>1. DOMAIN open = 1 .. Len(open) /\ Len(open) \in Nat
  BY DEF IInv, TypeOK
<1>2. ASSUME NEW i \in DOMAIN open
      PROVE  open[i] # None /\ open[i] \in DOMAIN upvals /\ ~upvals[open[i]].closed
  <2>1. open[i] \in Range(open)
    BY DEF Range
  <2>2. open[i] # None /\ open[i] \in DOMAIN upvals
    BY <2>1 DEF OpenExact, IInv, OpenInv
  <2> QED
    BY <2>1, <2>2 DEF OpenExact
<1>3. ASSUME NEW u \in DOMAIN upvals PROVE upvals[u].idx \in Slots /\ upvals[u].idx \in Nat
  <2>1. upvals[u] \in Upval
    BY DEF IInv, TypeOK
  <2>2. upvals[u].idx \in Slots
    BY <2>1 DEF Upval
  <2> QED
    BY <2>2, FramesApart DEF Slots
<1>4. ASSUME NEW i \in DOMAIN open, NEW j \in DOMAIN open, upvals[open[i]].idx = upvals[open[j]].idx
      PROVE  i = j
  <2>1. upvals[open[i]].idx \in Nat /\ upvals[open[j]].idx \in Nat /\ i \in Nat /\ j \in Nat
    BY <1>1, <1>2, <1>3
  <2>2. ~(i < j) /\ ~(j < i)
    BY <1>4, <2>1 DEF Sorted
  <2> QED
    BY <2>1, <2>2
<1>5. ASSUME NEW s
      PROVE  IsCaptured(s) <=> \E u \in DOMAIN upvals : ~upvals[u].closed /\ upvals[u].idx = s
  <2>1. ASSUME NEW u \in DOMAIN upvals, ~upvals[u].closed, upvals[u].idx = s PROVE IsCaptured(s)
    <3>1. PICK i \in DOMAIN open : open[i] = u
      BY <2>1 DEF OpenExact, Range
    <3> QED
      BY <1>2, <2>1, <3>1 DEF IsCaptured
  <2> QED
    BY <1>2, <2>1 DEF IsCaptured
<1> QED
  BY <1>2, <1>3, <1>4, <1>5

(* No step but of BIND_LOCAL, RETURN and the collector touches which slots *)
(* upvalues are open for; what is left to show is about variables.         *)
LEMMA PlainKept ==
  ASSUME IInv, PlainInv, UNCHANGED <<open, aborted>>, DOMAIN upvals' = DOMAIN upvals,
         \A u \in DOMAIN upvals : upvals'[u].idx = upvals[u].idx /\ upvals'[u].closed = upvals[u].closed
  PROVE  /\ ~aborted' /\ Sorted' /\ OpenExact'
         /\ \A s : IsCaptured(s)' <=> IsCaptured(s)
         /\ holder' = holder => OpenHeld' /\ Injective'
         /\ holder' = holder /\ Cells' = Cells => CellsInv'
<1>1. \A i \in DOMAIN open : open[i] \in DOMAIN upvals /\ open[i] # None
  BY OpenOnes DEF PlainInv
<1>2. ~aborted' /\ Sorted' /\ OpenExact'
  BY <1>1 DEF PlainInv, Sorted, OpenExact
<1>3. ASSUME NEW s PROVE IsCaptured(s)' <=> IsCaptured(s)
  BY <1>1 DEF IsCaptured
<1>4. ASSUME holder' = holder PROVE OpenHeld' /\ Injective'
  <2>1. \A u \in Range(open) : u \in DOMAIN upvals
    BY <1>1 DEF Range
  <2>2. Held' = Held
    BY <1>4 DEF Held
  <2> QED
    BY <1>4, <2>1, <2>2 DEF PlainInv, OpenHeld, Injective
<1>5. ASSUME holder' = holder, Cells' = Cells PROVE CellsInv'
  <2>1. \A p \in Cells : p.upval \in DOMAIN upvals
    BY CellsAllocated
  <2> QED
    BY <1>5, <2>1 DEF PlainInv, CellsInv, CellOK
<1> QED
  BY <1>2, <1>3, <1>4, <1>5
-----------------------------------------------------------------------------
LEMMA InitPlain == Init => PlainInv
<1> SUFFICES ASSUME Init PROVE PlainInv
  OBVIOUS
<1>1. Range(open) = {} /\ DOMAIN open = {} /\ DOMAIN upvals = {}
  BY DEF Init, Range
<1>2. Held = {} /\ Cells = {}
  BY DEF Init, Held, Cells
<1> QED
  BY <1>1, <1>2 DEF Init, PlainInv, Sorted, OpenExact, OpenHeld, Injective, CellsInv, OrderInv

LEMMA CallPlain ==
  ASSUME IInv, PlainInv, NEW self, Call(self)
  PROVE  PlainInv'
<1>1. building' = None /\ Cells' = Cells
        /\ UNCHANGED <<open, aborted, upvals, holder>>
  BY DEF Call, Ready, Cells
<1> QED
  BY <1>1, PlainKept DEF PlainInv, OrderInv

LEMMA StoreLocalPlain ==
  ASSUME IInv, PlainInv, NEW s, NEW v, StoreLocal(s, v)
  PROVE  PlainInv'
<1>1. building' = None /\ Cells' = Cells
        /\ UNCHANGED <<open, aborted, upvals, holder>>
  BY DEF StoreLocal, Ready, Cells
<1> QED
  BY <1>1, PlainKept DEF PlainInv, OrderInv

LEMMA StoreUpvaluePlain ==
  ASSUME IInv, PlainInv, NEW i, NEW v \in Values, StoreUpvalue(i, v)
  PROVE  PlainInv'
<1> DEFINE u == closures[Top.self][i]
<1>1. /\ building' = None /\ Cells' = Cells
      /\ upvals' = [upvals EXCEPT ![u].value = v] \/ upvals' = upvals
      /\ UNCHANGED <<open, aborted, holder>>
  BY DEF StoreUpvalue, Ready, Cells
<1> HIDE DEF u
<1>2. /\ DOMAIN upvals' = DOMAIN upvals
      /\ \A w \in DOMAIN upvals : upvals'[w].idx = upvals[w].idx /\ upvals'[w].closed = upvals[w].closed
  <2>1. CASE upvals' = [upvals EXCEPT ![u].value = v]
    <3>1. ASSUME NEW w \in DOMAIN upvals
          PROVE  upvals'[w].idx = upvals[w].idx /\ upvals'[w].closed = upvals[w].closed
      <4>1. upvals[w] \in Upval
        BY DEF IInv, TypeOK
      <4>2. upvals'[w] = IF w = u THEN [upvals[w] EXCEPT !.value = v] ELSE upvals[w]
        BY <2>1
      <4> QED
        BY <4>1, <4>2 DEF Upval
    <3> QED
      BY <2>1, <3>1
  <2> QED
    BY <1>1, <2>1
<1> QED
  BY <1>1, <1>2, PlainKept DEF PlainInv, OrderInv

(* A variable is declared in a slot that stands for none yet.              *)
LEMMA DeclaredSlot ==
  ASSUME IInv, NEW x \in Vars, NEW v \in Values, Declare(x, v)
  PROVE  LET k == Top.bp + Top.num IN
           /\ k \in Slots \ Held
           /\ stack' = [stack EXCEPT ![k] = v] /\ holder' = [holder EXCEPT ![k] = x]
           /\ Held' = Held \cup {k} /\ x # None
           /\ \A s \in Slots : holder'[s] = (IF s = k THEN x ELSE holder[s])
           /\ x \notin Range(holder) /\ \A p \in Cells : p.var # x
<1> DEFINE k == Top.bp + Top.num
<1>1. /\ Ready /\ InFunction /\ Top.num < MaxLocals /\ MaxLocals \in Nat
      /\ x \notin Range(holder) \cup UNION {Range(captured[c]) : c \in DOMAIN captured}
      /\ stack' = [stack EXCEPT ![k] = v] /\ holder' = [holder EXCEPT ![k] = x]
  BY BoundsAssumption DEF Declare
<1>2. TypeOK /\ FrameInv
  BY DEF IInv
<1>3. Top.num \in 0 .. MaxLocals - 1 /\ Top.bp \in Nat /\ Len(frames) \in 1 .. MaxFrames
  BY <1>1, <1>2, TopFrame, FramesApart
<1>4. k \in Slots
  BY <1>1, <1>2, <1>3, TopFrame
<1>5. k \notin Held
  <2>1. k \notin InScope
    BY <1>3 DEF InScope
  <2>2. k >= Top.bp
    BY <1>3
  <2> QED
    BY <1>1, <1>2, <2>1, <2>2, TopFrame
<1>6. \A s \in Slots : holder'[s] = IF s = k THEN x ELSE holder[s]
  BY <1>1, <1>2 DEF TypeOK
<1>7. x # None
  BY BoundsAssumption
<1>8. Held' = Held \cup {k}
  <2> HIDE DEF k
  <2> QED
    BY <1>4, <1>6, <1>7 DEF Held
<1>9. ASSUME NEW p \in Cells PROVE p.var # x
  <2>0. PICK c \in DOMAIN closures : \E i \in DOMAIN closures[c] : p.var = captured[c][i]
    BY DEF Cells
  <2>1. PICK i \in DOMAIN closures[c] : p.var = captured[c][i]
    BY <2>0
  <2>2. captured[c] \in Seq(Vars \cup {None}) /\ closures[c] \in Seq(Upvals)
          /\ Len(captured[c]) = Len(closures[c]) /\ c \in DOMAIN captured
    BY DEF IInv, TypeOK, ClosuresInv
  <2>3. i \in DOMAIN captured[c]
    BY <2>2
  <2>4. p.var \in Range(captured[c])
    BY <2>1, <2>3 DEF Range
  <2> QED
    BY <1>1, <2>2, <2>4
<1> QED
  BY <1>1, <1>4, <1>5, <1>6, <1>7, <1>8, <1>9

LEMMA DeclarePlain ==
  ASSUME IInv, PlainInv, NEW x \in Vars, NEW v \in Values, Declare(x, v)
  PROVE  PlainInv'
<1> DEFINE k == Top.bp + Top.num
<1>1. building' = None /\ Cells' = Cells /\ UNCHANGED <<open, aborted, upvals>>
  BY DEF Declare, Ready, Cells
<1>2. /\ k \in Slots \ Held /\ Held' = Held \cup {k} /\ x # None
      /\ \A s \in Slots : holder'[s] = IF s = k THEN x ELSE holder[s]
      /\ x \notin Range(holder) /\ \A p \in Cells : p.var # x
  BY DeclaredSlot
<1>3. DOMAIN holder = Slots /\ DOMAIN holder' = Slots
  BY DEF IInv, TypeOK, Declare
<1> HIDE DEF k
<1>4. ~aborted' /\ Sorted' /\ OpenExact'
  BY <1>1, PlainKept
<1>5. OpenHeld'
  BY <1>1, <1>2 DEF PlainInv, OpenHeld
<1>6. Injective'
  <2>1. \A s \in Held : s \in Slots /\ s # k /\ holder'[s] = holder[s] /\ holder[s] # x
    BY <1>2, <1>3 DEF Held, Range
  <2> QED
    BY <1>2, <2>1 DEF PlainInv, Injective
<1>7. CellsInv'
  <2>1. ASSUME NEW p \in Cells PROVE CellOK(p)'
    <3>1. CellOK(p) /\ p.upval \in DOMAIN upvals /\ p.var # x
      BY <1>2, CellsAllocated DEF PlainInv, CellsInv
    <3>2. CASE upvals[p.upval].closed
      <4>1. p.var \notin Range(holder')
        BY <1>2, <1>3, <3>1, <3>2 DEF CellOK, Range
      <4> QED
        BY <1>1, <3>1, <3>2, <4>1 DEF CellOK
    <3>3. CASE ~upvals[p.upval].closed
      <4>1. upvals[p.upval].idx \in Held
        BY <3>1, <3>3 DEF PlainInv, OpenExact, OpenHeld
      <4>2. holder'[upvals[p.upval].idx] = holder[upvals[p.upval].idx]
        BY <1>2, <4>1 DEF Held
      <4> QED
        BY <1>1, <3>1, <3>3, <4>2 DEF CellOK
    <3> QED
      BY <3>2, <3>3
  <2> QED
    BY <1>1, <2>1 DEF PlainInv, CellsInv
<1> QED
  BY <1>1, <1>4, <1>5, <1>6, <1>7 DEF PlainInv, OrderInv
-----------------------------------------------------------------------------
(* Variables cease to be held at the slots of G: the upvalues open there    *)
(* are closed, those open elsewhere survive and make up what is left open.  *)
(* No variable that is left changes its value.                             *)
Discards(G, m) ==
  /\ building' = None /\ aborted' = aborted /\ stack' = stack
  /\ \A u \in DOMAIN upvals' : Load(u)' = Load(u)
  /\ DOMAIN holder' = Slots
  /\ \A s \in Slots : holder'[s] = IF s \in G THEN None ELSE holder[s]
  /\ \A p \in Cells' : p \in Cells /\ p.upval \in DOMAIN upvals'
  /\ DOMAIN upvals' \subseteq DOMAIN upvals
  /\ \A u \in DOMAIN upvals' : upvals'[u].idx = upvals[u].idx
       /\ (upvals'[u].closed <=> upvals[u].closed \/ upvals[u].idx \in G)
  /\ \A u \in DOMAIN upvals :
       ~upvals[u].closed /\ upvals[u].idx \notin G => u \in DOMAIN upvals'
  /\ DOMAIN open' = 1 .. m /\ \A i \in 1 .. m : open'[i] = open[i]
  /\ \A i \in DOMAIN open : i <= m <=> upvals[open[i]].idx \notin G

LEMMA DiscardPlain ==
  ASSUME IInv, PlainInv, NEW G, NEW m \in 0 .. Len(open), Discards(G, m)
  PROVE  PlainInv'
<1> USE DEF Discards
<1>1. /\ \A i \in DOMAIN open : open[i] # None /\ open[i] \in DOMAIN upvals /\ ~upvals[open[i]].closed
      /\ DOMAIN open = 1 .. Len(open) /\ Len(open) \in Nat /\ m \in Nat /\ m <= Len(open)
      /\ DOMAIN holder = Slots
  BY OpenOnes DEF PlainInv, IInv, TypeOK
<1>2. \A i \in 1 .. m : /\ i \in DOMAIN open /\ i \in DOMAIN open' /\ open'[i] = open[i]
                        /\ upvals[open[i]].idx \notin G /\ open[i] \in DOMAIN upvals'
  <2> TAKE i \in 1 .. m
  <2>1. i \in DOMAIN open /\ i <= m
    BY <1>1
  <2> QED
    BY <1>1, <2>1
<1>3. Sorted'
  BY <1>2 DEF PlainInv, Sorted
<1>4. OpenExact'
  <2>1. None \notin Range(open')
    BY <1>1, <1>2 DEF Range
  <2>2. ASSUME NEW u \in DOMAIN upvals', u \in Range(open') PROVE ~upvals'[u].closed
    BY <1>1, <1>2, <2>2 DEF Range
  <2>3. ASSUME NEW u \in DOMAIN upvals', ~upvals'[u].closed PROVE u \in Range(open')
    <3>1. u \in DOMAIN upvals /\ ~upvals[u].closed /\ upvals[u].idx \notin G
      BY <2>3
    <3>2. PICK i \in DOMAIN open : open[i] = u
      BY <3>1 DEF PlainInv, OpenExact, Range
    <3>3. i \in 1 .. m
      BY <1>1, <3>1, <3>2
    <3> QED
      BY <1>2, <3>2, <3>3 DEF Range
  <2> QED
    BY <2>1, <2>2, <2>3 DEF OpenExact
<1>5. \A s \in Held : s \notin G => s \in Held'
  BY DEF Held
<1>6. \A s \in Held' : s \in Held /\ s \notin G /\ holder'[s] = holder[s]
  BY DEF Held
<1>7. OpenHeld'
  <2>1. ASSUME NEW i \in 1 .. m PROVE upvals'[open'[i]].idx \in Held'
    <3>1. upvals[open[i]].idx \in Held
      BY <1>2 DEF PlainInv, OpenHeld, Range
    <3> QED
      BY <1>2, <1>5, <3>1
  <2> QED
    BY <2>1 DEF OpenHeld, Range
<1>8. Injective'
  BY <1>6 DEF PlainInv, Injective
<1>9. CellsInv'
  <2>1. ASSUME NEW p \in Cells' PROVE CellOK(p)'
    <3>1. CellOK(p) /\ p.upval \in DOMAIN upvals' /\ p.upval \in DOMAIN upvals
            /\ p.var \in Vars /\ p.var # None
      BY BoundsAssumption DEF PlainInv, CellsInv, CellOK
    <3>2. CASE upvals[p.upval].closed
      <4>1. p.var \notin Range(holder')
        BY <1>1, <3>1, <3>2 DEF CellOK, Range
      <4> QED
        BY <3>1, <3>2, <4>1 DEF CellOK
    <3>3. CASE ~upvals[p.upval].closed
      <4> DEFINE s == upvals[p.upval].idx
      <4>1. s \in Slots /\ holder[s] = p.var /\ s \in Held
        BY <3>1, <3>3, OpenOnes DEF CellOK, PlainInv, Held
      <4>2. CASE s \in G
        <5>1. p.var \notin Range(holder')
          <6>1. ASSUME NEW t \in Slots, holder'[t] = p.var PROVE FALSE
            <7>1. t \in Held' /\ holder[t] = p.var /\ t \notin G
              BY <3>1, <6>1 DEF Held
            <7> QED
              BY <1>6, <4>1, <4>2, <7>1 DEF PlainInv, Injective
          <6> QED
            BY <6>1 DEF Range
        <5> QED
          BY <3>1, <4>2, <5>1 DEF CellOK
      <4>3. CASE s \notin G
        BY <3>1, <3>3, <4>1, <4>3 DEF CellOK
      <4> QED
        BY <4>2, <4>3
    <3> QED
      BY <3>2, <3>3
  <2> QED
    BY <2>1 DEF PlainInv, CellsInv
<1> QED
  BY <1>3, <1>4, <1>7, <1>8, <1>9 DEF PlainInv, OrderInv

LEMMA EndScopeDiscards ==
  ASSUME Features = {}, IInv, PlainInv, EndScope
  PROVE  \E G : \E m \in 0 .. Len(open) : Discards(G, m)
<1> DEFINE k == Top.bp + Top.num - 1
<1>1. /\ Ready /\ ~IsCaptured(k) /\ holder' = [holder EXCEPT ![k] = None]
      /\ UNCHANGED <<stack, upvals, open, closures, building, aborted, captured>>
  BY DEF EndScope
<1>2. /\ DOMAIN holder' = Slots /\ building' = None
      /\ \A s \in Slots : holder'[s] = IF s \in {k} THEN None ELSE holder[s]
  BY <1>1 DEF IInv, TypeOK, Ready
<1>3. Len(open) \in Nat /\ DOMAIN open = 1 .. Len(open)
  BY DEF IInv, TypeOK
<1> HIDE DEF k
<1>4. \A u \in DOMAIN upvals : ~upvals[u].closed => upvals[u].idx # k
  BY <1>1, OpenOnes DEF PlainInv
<1>5. \A i \in DOMAIN open : i <= Len(open) <=> upvals[open[i]].idx \notin {k}
  BY <1>3, <1>4, OpenOnes DEF PlainInv
<1>6. \A p \in Cells' : p \in Cells /\ p.upval \in DOMAIN upvals'
  BY <1>1, CellsAllocated DEF Cells
<1>7. \A u \in DOMAIN upvals' : upvals'[u].idx = upvals[u].idx
        /\ (upvals'[u].closed <=> upvals[u].closed \/ upvals[u].idx \in {k})
  BY <1>1, <1>4
<1>8. \A u \in DOMAIN upvals' : Load(u)' = Load(u)
  BY <1>1 DEF Load
<1>9. Discards({k}, Len(open))
  BY <1>1, <1>2, <1>3, <1>5, <1>6, <1>7, <1>8 DEF Discards
<1> QED
  BY <1>3, <1>9

LEMMA UnwindDiscards ==
  ASSUME Features = {}, IInv, PlainInv, Unwind
  PROVE  \E G : \E m \in 0 .. Len(open) : Discards(G, m)
<1> DEFINE G == {s \in Slots : s >= Top.bp}
<1>1. /\ Ready /\ ~(\E s \in Slots : s >= Top.bp /\ IsCaptured(s))
      /\ holder' = [s \in Slots |-> IF s >= Top.bp THEN None ELSE holder[s]]
      /\ UNCHANGED <<stack, upvals, open, closures, building, aborted, captured>>
  BY DEF Unwind, LeaveFrame
<1>2. /\ DOMAIN holder' = Slots /\ building' = None
      /\ \A s \in Slots : holder'[s] = IF s \in G THEN None ELSE holder[s]
  BY <1>1 DEF Ready
<1>3. Len(open) \in Nat /\ DOMAIN open = 1 .. Len(open)
  BY DEF IInv, TypeOK
<1>4. \A s \in G : ~IsCaptured(s)
  BY <1>1
<1> HIDE DEF G
<1>5. \A u \in DOMAIN upvals : ~upvals[u].closed => upvals[u].idx \notin G
  BY <1>4, OpenOnes DEF PlainInv
<1>6. \A i \in DOMAIN open : i <= Len(open) <=> upvals[open[i]].idx \notin G
  BY <1>3, <1>5, OpenOnes DEF PlainInv
<1>7. \A p \in Cells' : p \in Cells /\ p.upval \in DOMAIN upvals'
  BY <1>1, CellsAllocated DEF Cells
<1>8. \A u \in DOMAIN upvals' : upvals'[u].idx = upvals[u].idx
        /\ (upvals'[u].closed <=> upvals[u].closed \/ upvals[u].idx \in G)
  BY <1>1, <1>5
<1>9. \A u \in DOMAIN upvals' : Load(u)' = Load(u)
  BY <1>1 DEF Load
<1>10. Discards(G, Len(open))
  BY <1>1, <1>2, <1>3, <1>6, <1>7, <1>8, <1>9 DEF Discards
<1> QED
  BY <1>3, <1>10

(* RETURN closes exactly the upvalues of the frame it leaves: in a sorted   *)
(* array they are the ones above the place where its search stops.         *)
LEMMA ReturnDiscards ==
  ASSUME IInv, PlainInv, Return
  PROVE  \E G : \E m \in 0 .. Len(open) : Discards(G, m)
<1> DEFINE m == SearchStop(Top.bp - 1)
           us == {open[j] : j \in m + 1 .. Len(open)}
           G == {s \in Slots : s >= Top.bp}
<1>1. Ready /\ InFunction /\ TypeOK /\ FrameInv
  BY DEF Return, IInv
<1>2. Top.bp \in Nat /\ Len(open) \in Nat /\ DOMAIN open = 1 .. Len(open)
        /\ open \in Seq(Upvals \cup {None})
  BY <1>1, TopFrame, FramesApart DEF TypeOK
<1>3. /\ m \in 0 .. Len(open)
      /\ m # 0 => upvals[open[m]].idx <= Top.bp - 1
      /\ \A j \in DOMAIN open : j > m => ~(upvals[open[j]].idx <= Top.bp - 1)
  <2>1. /\ m \in 0 .. Len(open) /\ (m # 0 => open[m] = None \/ upvals[open[m]].idx <= Top.bp - 1)
        /\ \A j \in DOMAIN open : j > m => open[j] # None /\ ~(upvals[open[j]].idx <= Top.bp - 1)
    BY <1>1, SearchStops
  <2> HIDE DEF m
  <2>2. m # 0 => m \in DOMAIN open
    BY <1>2, <2>1
  <2> QED
    BY <2>1, <2>2, OpenOnes DEF PlainInv
<1>4. /\ upvals' = Closing(us) /\ open' = SubSeq(open, 1, m) /\ LeaveFrame
      /\ UNCHANGED <<stack, closures, building, aborted, captured>>
  <2>1. ~(m # 0 /\ open[m] = None)
    <3> HIDE DEF m
    <3>1. m # 0 => m \in DOMAIN open
      BY <1>2, <1>3
    <3> QED
      BY <3>1, OpenOnes DEF PlainInv
  <2> QED
    BY <2>1 DEF Return
<1> HIDE DEF m
<1>5. \A i \in DOMAIN open : i <= m <=> upvals[open[i]].idx \notin G
  <2> SUFFICES ASSUME NEW i \in DOMAIN open
               PROVE  i <= m <=> ~(upvals[open[i]].idx >= Top.bp)
    BY OpenOnes DEF PlainInv
  <2>1. upvals[open[i]].idx \in Nat /\ i \in Nat /\ m \in Nat
    BY <1>2, <1>3, OpenOnes DEF PlainInv
  <2>2. CASE i > m
    BY <1>2, <1>3, <2>1, <2>2
  <2>3. CASE i = m
    BY <1>2, <1>3, <2>1, <2>3
  <2>4. CASE i < m
    <3>1. m \in DOMAIN open /\ m # 0
      BY <1>2, <1>3, <2>1, <2>4
    <3>2. upvals[open[i]].idx < upvals[open[m]].idx /\ upvals[open[m]].idx \in Nat
      BY <2>4, <3>1, OpenOnes DEF PlainInv, Sorted
    <3> QED
      BY <1>2, <1>3, <2>1, <2>4, <3>1, <3>2
  <2> QED
    BY <2>1, <2>2, <2>3, <2>4
<1>6. DOMAIN open' = 1 .. m /\ \A i \in 1 .. m : open'[i] = open[i]
  BY <1>2, <1>3, <1>4
<1>7. /\ DOMAIN holder' = Slots /\ building' = None
      /\ \A s \in Slots : holder'[s] = IF s \in G THEN None ELSE holder[s]
  BY <1>1, <1>4 DEF Ready, LeaveFrame
<1> HIDE DEF G
<1>8. \A u \in DOMAIN upvals : u \in us <=> ~upvals[u].closed /\ upvals[u].idx \in G
  <2> TAKE u \in DOMAIN upvals
  <2>1. ASSUME u \in us PROVE ~upvals[u].closed /\ upvals[u].idx \in G
    <3>1. PICK j \in m + 1 .. Len(open) : u = open[j]
      BY <2>1
    <3>2. j \in DOMAIN open /\ ~(j <= m)
      BY <1>2, <1>3
    <3> QED
      BY <1>5, <3>1, <3>2, OpenOnes DEF PlainInv
  <2>2. ASSUME ~upvals[u].closed, upvals[u].idx \in G PROVE u \in us
    <3>1. PICK j \in DOMAIN open : u = open[j]
      BY <2>2 DEF PlainInv, OpenExact, Range
    <3>2. ~(j <= m)
      BY <1>5, <2>2, <3>1
    <3>3. j \in m + 1 .. Len(open)
      BY <1>2, <1>3, <3>2
    <3> QED
      BY <3>1, <3>3
  <2> QED
    BY <2>1, <2>2
<1> HIDE DEF us
<1>9. /\ DOMAIN upvals' = DOMAIN upvals
      /\ \A u \in DOMAIN upvals :
           /\ upvals'[u].idx = upvals[u].idx
           /\ u \notin us => upvals'[u] = upvals[u]
           /\ u \in us => upvals'[u].closed /\ upvals'[u].value = stack[upvals[u].idx]
  BY <1>1, <1>4, Closed
<1>10. ASSUME NEW u \in DOMAIN upvals'
       PROVE  /\ upvals'[u].idx = upvals[u].idx
              /\ upvals'[u].closed <=> upvals[u].closed \/ upvals[u].idx \in G
              /\ Load(u)' = Load(u)
  <2>1. CASE u \in us
    BY <1>8, <1>9, <2>1 DEF Load
  <2>2. CASE u \notin us
    BY <1>4, <1>8, <1>9, <2>2 DEF Load
  <2> QED
    BY <2>1, <2>2
<1>11. \A p \in Cells' : p \in Cells /\ p.upval \in DOMAIN upvals'
  BY <1>4, <1>9, CellsAllocated DEF Cells
<1>12. Discards(G, m)
  BY <1>4, <1>5, <1>6, <1>7, <1>9, <1>10, <1>11 DEF Discards
<1> QED
  BY <1>3, <1>12

(* cb_function_deinit clears no entry of the open array when all upvalues   *)
(* of the closure are closed.                                              *)
LEMMA CollectDiscards ==
  ASSUME Features = {}, IInv, PlainInv, NEW c \in Closures, Collect(c)
  PROVE  \E G : \E m \in 0 .. Len(open) : Discards(G, m)
<1> DEFINE D == DOMAIN closures
<1>1. /\ Ready /\ c \in D
      /\ \A u \in Range(closures[c]) : upvals[u].closed
      /\ upvals' = Release(c)
      /\ open' = [i \in DOMAIN open |-> IF open[i] \in Range(closures[c]) THEN None ELSE open[i]]
      /\ closures' = [d \in D \ {c} |-> closures[d]] /\ captured' = [d \in D \ {c} |-> captured[d]]
      /\ UNCHANGED <<stack, frames, building, aborted, holder>>
  BY DEF Collect, Restrict
<1>2. Len(open) \in Nat /\ DOMAIN open = 1 .. Len(open) /\ DOMAIN holder = Slots
  BY DEF IInv, TypeOK
<1>3. \A u \in DOMAIN upvals : ~upvals[u].closed => u \in DOMAIN upvals'
  BY <1>1, Released
<1>4. \A i \in DOMAIN open : open[i] \notin Range(closures[c])
  BY <1>1, OpenOnes DEF PlainInv
<1>5. DOMAIN open' = 1 .. Len(open) /\ \A i \in 1 .. Len(open) : open'[i] = open[i]
  BY <1>1, <1>2, <1>4
<1>6. \A u \in DOMAIN upvals' : /\ u \in DOMAIN upvals /\ upvals'[u].idx = upvals[u].idx
                                /\ upvals'[u].closed = upvals[u].closed
                                /\ Load(u)' = Load(u)
  BY <1>1, Released DEF Load
<1>7. \A p \in Cells' : p \in Cells /\ p.upval \in DOMAIN upvals'
  <2>1. IInv'
    BY CollectIInv
  <2>2. CellsAlive'
    BY <2>1, AliveCells, PTL
  <2>3. \A p \in Cells' : p \in Cells
    BY <1>1 DEF Cells
  <2> QED
    BY <2>2, <2>3 DEF CellsAlive
<1>8. Discards({}, Len(open))
  BY <1>1, <1>2, <1>3, <1>5, <1>6, <1>7 DEF Discards, Ready
<1> QED
  BY <1>2, <1>8

-----------------------------------------------------------------------------
LEMMA LoadFunctionPlain ==
  ASSUME Features = {}, IInv, PlainInv, NEW c, NEW caps, LoadFunction(c, caps)
  PROVE  PlainInv'
<1> DEFINE D == DOMAIN closures
<1>1. /\ c \notin D /\ InOrder(caps) /\ building' = [fn |-> c, todo |-> caps]
      /\ closures' = [d \in D \cup {c} |-> IF d = c THEN <<>> ELSE closures[d]]
      /\ captured' = [d \in D \cup {c} |-> IF d = c THEN <<>> ELSE captured[d]]
      /\ UNCHANGED <<stack, frames, upvals, open, aborted, holder>>
  BY DEF LoadFunction, IInv, TypeOK
<1>2. Cells' = Cells
  <2>1. /\ DOMAIN closures' = D \cup {c} /\ DOMAIN closures'[c] = {}
        /\ \A d \in D : closures'[d] = closures[d] /\ captured'[d] = captured[d]
    BY <1>1
  <2>2. ASSUME NEW p \in Cells PROVE p \in Cells'
    BY <2>1 DEF Cells
  <2>3. ASSUME NEW p \in Cells' PROVE p \in Cells
    BY <2>1 DEF Cells
  <2> QED
    BY <2>2, <2>3
<1>3. /\ ~aborted' /\ Sorted' /\ OpenExact' /\ OpenHeld' /\ Injective' /\ CellsInv'
      /\ \A s : IsCaptured(s)' <=> IsCaptured(s)
  BY <1>1, <1>2, PlainKept
<1>4. OrderInv'
  <2>1. building'.todo = caps
    BY <1>1
  <2>2. InOrder(caps)'
    BY <1>1, <1>3 DEF InOrder, FirstCaptures
  <2> QED
    BY <2>1, <2>2 DEF OrderInv
<1> QED
  BY <1>3, <1>4 DEF PlainInv

(* A capture that is bound is one more cell.                               *)
LEMMA OneMoreCell ==
  ASSUME IInv, building # None, NEW u, NEW uvs, NEW x, AddUpvalue(u, uvs, x)
  PROVE  Cells' = Cells \cup {[var |-> x, upval |-> u]}
<1> DEFINE fn == building.fn
           k == Len(closures[fn]) + 1
           new == [var |-> x, upval |-> u]
<1>1. /\ closures' = [closures EXCEPT ![fn] = Append(closures[fn], u)]
      /\ captured' = [captured EXCEPT ![fn] = Append(captured[fn], x)]
  BY DEF AddUpvalue
<1>2. fn \in DOMAIN closures /\ k \in 1 .. MaxCaptures
  BY NextCapture
<1>3. DOMAIN captured = DOMAIN closures
        /\ closures[fn] \in Seq(Upvals) /\ captured[fn] \in Seq(Vars \cup {None})
        /\ Len(captured[fn]) = Len(closures[fn]) /\ Len(closures[fn]) \in Nat
  BY <1>2 DEF IInv, TypeOK, ClosuresInv
<1> HIDE DEF fn
<1>4. /\ DOMAIN closures' = DOMAIN closures
      /\ closures'[fn] = Append(closures[fn], u) /\ captured'[fn] = Append(captured[fn], x)
      /\ \A c \in DOMAIN closures : c # fn => closures'[c] = closures[c] /\ captured'[c] = captured[c]
  BY <1>1, <1>2, <1>3 DEF fn
<1>5. /\ DOMAIN closures[fn] = 1 .. k - 1
      /\ DOMAIN closures'[fn] = DOMAIN closures[fn] \cup {k}
      /\ closures'[fn][k] = u /\ captured'[fn][k] = x
      /\ \A i \in DOMAIN closures[fn] :
           closures'[fn][i] = closures[fn][i] /\ captured'[fn][i] = captured[fn][i]
  BY <1>3, <1>4
<1>6. \A c \in DOMAIN closures : \A i \in DOMAIN closures'[c] :
        [var |-> captured'[c][i], upval |-> closures'[c][i]] \in Cells'
  BY <1>4 DEF Cells
<1> HIDE DEF k, new
<1>7. ASSUME NEW p \in Cells' PROVE p \in Cells \cup {new}
  <2>1. PICK c \in DOMAIN closures : \E i \in DOMAIN closures'[c] :
          p = [var |-> captured'[c][i], upval |-> closures'[c][i]]
    BY <1>4 DEF Cells
  <2>2. CASE c # fn
    BY <1>4, <2>1, <2>2 DEF Cells
  <2>3. CASE c = fn
    BY <1>2, <1>5, <2>1, <2>3 DEF Cells, new
  <2> QED
    BY <2>2, <2>3
<1>8. ASSUME NEW p \in Cells PROVE p \in Cells'
  <2>1. PICK c \in DOMAIN closures : \E i \in DOMAIN closures[c] :
          p = [var |-> captured[c][i], upval |-> closures[c][i]]
    BY DEF Cells
  <2>2. CASE c # fn
    BY <1>4, <1>6, <2>1, <2>2
  <2>3. CASE c = fn
    BY <1>4, <1>5, <1>6, <2>1, <2>3
  <2> QED
    BY <2>2, <2>3
<1>9. new \in Cells'
  BY <1>2, <1>5, <1>6 DEF fn, new
<1> QED
  BY <1>7, <1>8, <1>9 DEF new
-----------------------------------------------------------------------------
LEMMA UpvalueAdded ==
  ASSUME IInv, building # None, NEW u, NEW uvs, NEW x, AddUpvalue(u, uvs, x),
         \A w \in DOMAIN uvs : uvs[w] \in Upval
  PROVE  /\ DOMAIN upvals' = DOMAIN uvs
         /\ \A w \in DOMAIN uvs : /\ upvals'[w].idx = uvs[w].idx /\ upvals'[w].closed = uvs[w].closed
                                  /\ upvals'[w].value = uvs[w].value
         /\ UNCHANGED <<stack, frames, aborted, holder>>
         /\ Cells' = Cells \cup {[var |-> x, upval |-> u]}
<1> DEFINE r == uvs[u].refcount + 1
<1>1. upvals' = [uvs EXCEPT ![u].refcount = r] /\ UNCHANGED <<stack, frames, aborted, holder>>
  BY DEF AddUpvalue
<1> HIDE DEF r
<1>2. ASSUME NEW w \in DOMAIN uvs
      PROVE  /\ upvals'[w].idx = uvs[w].idx /\ upvals'[w].closed = uvs[w].closed
             /\ upvals'[w].value = uvs[w].value
  <2>1. upvals'[w] = IF w = u THEN [uvs[w] EXCEPT !.refcount = r] ELSE uvs[w]
    BY <1>1
  <2> QED
    BY <2>1 DEF Upval
<1> QED
  BY <1>1, <1>2, OneMoreCell

(* Binding the first capture leaves the others in order.                   *)
LEMMA OrderKept ==
  ASSUME IInv, OrderInv, building # None, NEW u, NEW uvs, NEW x, AddUpvalue(u, uvs, x),
         \/ \A s : IsCaptured(s)' <=> IsCaptured(s)
         \/ /\ Head(building.todo).kind = "local" /\ ~IsCaptured(Head(building.todo).at)
            /\ \A s : IsCaptured(s)' <=> IsCaptured(s) \/ s = Head(building.todo).at
  PROVE  OrderInv'
<1> DEFINE todo == building.todo
           rest == Tail(todo)
<1>1. todo \in Seq(Captures) /\ Len(todo) \in Nat \ {0}
  BY NextCapture
<1>2. InOrder(todo)
  BY DEF OrderInv
<1>3. building' # None => building'.todo = rest
  <2>1. building = [fn |-> building.fn, todo |-> building.todo]
    BY NextCapture
  <2>2. DOMAIN building = {"fn", "todo"}
    BY <2>1
  <2> HIDE DEF rest
  <2>3. building' # None => building' = [building EXCEPT !.todo = rest]
    BY DEF AddUpvalue, rest
  <2> QED
    BY <2>2, <2>3
<1>4. ASSUME NEW t, t = rest PROVE InOrder(t)'
  <2> HIDE DEF todo
  <2>1. /\ \A i \in DOMAIN t : i \in Nat \ {0} /\ i + 1 \in DOMAIN todo /\ t[i] = todo[i + 1]
        /\ 1 \in DOMAIN todo /\ todo[1] = Head(todo)
    BY <1>1, <1>4
  <2>2. \A i \in FirstCaptures(t)' : i \in Nat \ {0} /\ i + 1 \in FirstCaptures(todo) /\ t[i] = todo[i + 1]
    BY <2>1 DEF FirstCaptures, todo
  <2>3. ASSUME NEW i \in FirstCaptures(t)', NEW j \in FirstCaptures(t)', j < i
        PROVE  t[j].at < t[i].at
    <3>1. j + 1 < i + 1
      BY <2>2, <2>3
    <3> QED
      BY <1>2, <2>2, <3>1 DEF InOrder
  <2>4. ASSUME NEW i \in FirstCaptures(t)', NEW s \in Slots, IsCaptured(s)'
        PROVE  s < t[i].at
    <3>1. CASE IsCaptured(s)
      BY <1>2, <2>2, <3>1 DEF InOrder
    <3>2. CASE ~IsCaptured(s)
      <4>1. 1 \in FirstCaptures(todo) /\ todo[1].at = s
        BY <2>1, <2>4, <3>2 DEF FirstCaptures, todo
      <4>2. 1 < i + 1
        BY <2>2
      <4> QED
        BY <1>2, <2>2, <4>1, <4>2 DEF InOrder
    <3> QED
      BY <3>1, <3>2
  <2> QED
    BY <2>3, <2>4 DEF InOrder
<1> HIDE DEF rest
<1> QED
  BY <1>3, <1>4 DEF OrderInv, InOrder, FirstCaptures

(* BIND_LOCAL of a slot that is captured finds the upvalue that is open for *)
(* it; of any other slot, it appends one above those that are open.        *)
LEMMA BindLocalPlain ==
  ASSUME IInv, PlainInv, building # None, Head(building.todo).kind = "local",
         NEW u \in Upvals, BindLocal(u, Head(building.todo).at)
  PROVE  /\ PlainInv' /\ UNCHANGED <<stack, holder>>
         /\ Cells' = Cells \cup {[var |-> holder[Head(building.todo).at], upval |-> u]}
         /\ Head(building.todo).at \in Held
         /\ \A w \in DOMAIN upvals : w \in DOMAIN upvals' /\ Load(w)' = Load(w)
         /\ u \in DOMAIN upvals' /\ Load(u)' = stack[Head(building.todo).at]
<1> DEFINE s == Head(building.todo).at
           i == SearchStop(s)
           x == holder[s]
           new == [var |-> x, upval |-> u]
<1>1. TypeOK /\ FrameInv /\ InFunction
  BY NextCapture DEF IInv
<1>2. s \in InScope /\ s \in Held /\ s \in Slots /\ x \in Vars /\ x # None /\ s \in Nat
  <2>1. s \in InScope /\ s \in Held
    BY <1>1, NextCapture, TopFrame
  <2>2. s \in Slots /\ x # None
    BY <2>1 DEF Held
  <2>3. x \in Vars \cup {None}
    BY <1>1, <2>2 DEF TypeOK
  <2> QED
    BY <2>1, <2>2, <2>3, FramesApart DEF Slots
<1>3. /\ i \in 0 .. Len(open) /\ Len(open) \in Nat /\ DOMAIN open = 1 .. Len(open)
      /\ (i # 0 => i \in DOMAIN open /\ open[i] # None /\ upvals[open[i]].idx <= s)
      /\ \A j \in DOMAIN open : j > i => ~(upvals[open[j]].idx <= s)
  <2>1. /\ i \in 0 .. Len(open) /\ (i # 0 => open[i] = None \/ upvals[open[i]].idx <= s)
        /\ \A j \in DOMAIN open : j > i => open[j] # None /\ ~(upvals[open[j]].idx <= s)
    BY <1>1, SearchStops
  <2>2. Len(open) \in Nat /\ DOMAIN open = 1 .. Len(open)
    BY <1>1 DEF TypeOK
  <2> HIDE DEF i
  <2>3. i # 0 => i \in DOMAIN open
    BY <2>1, <2>2
  <2> QED
    BY <2>1, <2>2, <2>3, OpenOnes DEF PlainInv
<1>4. \A w \in DOMAIN upvals : upvals[w] \in Upval
  BY <1>1 DEF TypeOK
<1>5. ~aborted
  BY DEF PlainInv
(* Any capture of the variable at s is by an upvalue that is open for s.   *)
<1>6. ASSUME NEW p \in Cells
      PROVE  p.var = x <=> ~upvals[p.upval].closed /\ upvals[p.upval].idx = s
  <2>1. CellOK(p) /\ p.upval \in DOMAIN upvals
    BY CellsAllocated DEF PlainInv, CellsInv
  <2>2. CASE upvals[p.upval].closed
    <3>1. x \in Range(holder)
      BY <1>1, <1>2 DEF Range, TypeOK
    <3> QED
      BY <2>1, <2>2, <3>1 DEF CellOK
  <2>3. CASE ~upvals[p.upval].closed
    <3> DEFINE t == upvals[p.upval].idx
    <3>1. holder[t] = p.var /\ t \in Slots /\ t \in Held
      BY <2>1, <2>3, OpenOnes, BoundsAssumption DEF CellOK, Held, PlainInv
    <3>2. p.var = x => t = s
      BY <1>2, <3>1 DEF PlainInv, Injective
    <3> QED
      BY <2>3, <3>1, <3>2
  <2> QED
    BY <2>2, <2>3
<1>7. CASE /\ i # 0 /\ open[i] # None /\ upvals[open[i]].idx = s
           /\ u = open[i] /\ AddUpvalue(u, upvals, x) /\ UNCHANGED open
  <2>1. u \in DOMAIN upvals /\ ~upvals[u].closed /\ upvals[u].idx = s
    BY <1>3, <1>7, OpenOnes DEF PlainInv
  <2>2. /\ DOMAIN upvals' = DOMAIN upvals
        /\ \A w \in DOMAIN upvals : /\ upvals'[w].idx = upvals[w].idx
                                    /\ upvals'[w].closed = upvals[w].closed
                                    /\ upvals'[w].value = upvals[w].value
        /\ UNCHANGED <<stack, frames, aborted, holder>>
        /\ Cells' = Cells \cup {new}
    BY <1>4, <1>7, UpvalueAdded
  <2>3. /\ ~aborted' /\ Sorted' /\ OpenExact' /\ OpenHeld' /\ Injective'
        /\ \A t : IsCaptured(t)' <=> IsCaptured(t)
    BY <1>7, <2>2, PlainKept
  <2>4. OrderInv'
    BY <1>7, <2>3, OrderKept DEF PlainInv
  <2>5. ASSUME NEW p \in Cells PROVE CellOK(p)' /\ (p.var = x <=> p.upval = u)
    <3>1. CellOK(p) /\ p.upval \in DOMAIN upvals
      BY CellsAllocated DEF PlainInv, CellsInv
    <3>2. p.var = x => p.upval = u
      <4>1. p.var = x => ~upvals[p.upval].closed /\ upvals[p.upval].idx = s
        BY <1>6
      <4>2. ~upvals[p.upval].closed => \E j \in DOMAIN open : open[j] = p.upval
        BY <3>1 DEF PlainInv, OpenExact, Range
      <4>3. ~upvals[p.upval].closed /\ upvals[p.upval].idx = s => p.upval = u
        BY <1>3, <1>7, <4>2, OpenOnes DEF PlainInv
      <4> QED
        BY <4>1, <4>3
    <3>3. p.upval = u => p.var = x
      BY <1>6, <2>1
    <3> QED
      BY <2>2, <3>1, <3>2, <3>3 DEF CellOK
  <2>6. \A p : p.var = x /\ p.upval = u => CellOK(p)'
    BY <1>2, <2>1, <2>2 DEF CellOK
  <2>7. CellsInv'
    <3>1. new.var = x /\ new.upval = u
      OBVIOUS
    <3> HIDE DEF new, x
    <3>2. \A p, q \in Cells : p.var = q.var <=> p.upval = q.upval
      BY DEF PlainInv, CellsInv
    <3> QED
      BY <2>2, <2>5, <2>6, <3>1, <3>2 DEF CellsInv
  <2>8. \A w \in DOMAIN upvals : Load(w)' = Load(w)
    BY <2>2 DEF Load
  <2> QED
    BY <1>2, <2>1, <2>2, <2>3, <2>4, <2>7, <2>8 DEF PlainInv, Load
<1>8. CASE /\ i # 0 => open[i] # None /\ upvals[open[i]].idx # s
           /\ u \notin DOMAIN upvals
           /\ open' = Append(open, u)
           /\ AddUpvalue(u, Allocate(u, s), x)
  <2> DEFINE uvs == Allocate(u, s)
             n == Len(open)
  <2>1. ~IsCaptured(s)
    <3> SUFFICES ASSUME NEW j \in DOMAIN open, upvals[open[j]].idx = s PROVE FALSE
      BY DEF IsCaptured
    <3> HIDE DEF i
    <3>1. i # 0 => i \in DOMAIN open /\ upvals[open[i]].idx \in Nat /\ upvals[open[i]].idx < s
      BY <1>2, <1>3, <1>8, OpenOnes DEF PlainInv
    <3>2. ~(j > i)
      BY <1>2, <1>3
    <3>3. j \in Nat /\ j # 0 /\ i \in Nat
      BY <1>3
    <3>4. i # 0 /\ j <= i
      BY <3>2, <3>3
    <3>5. CASE j = i
      BY <1>8, <3>4, <3>5
    <3>6. CASE j < i
      BY <1>2, <3>1, <3>4, <3>6, OpenOnes DEF PlainInv, Sorted
    <3> QED
      BY <3>3, <3>4, <3>5, <3>6
  <2>2. /\ DOMAIN uvs = DOMAIN upvals \cup {u}
        /\ \A w \in DOMAIN uvs : uvs[w] \in Upval
        /\ uvs[u].idx = s /\ ~uvs[u].closed
        /\ \A w \in DOMAIN upvals : uvs[w] = upvals[w]
    <3>1. u \notin DOMAIN upvals
      BY <1>8
    <3> HIDE DEF s
    <3>2. uvs[u] = [closed |-> FALSE, idx |-> s, value |-> Null, refcount |-> 0]
      BY <1>1, <1>2, <3>1, Allocated
    <3>3. uvs[u].idx = s /\ uvs[u].closed = FALSE
      BY <3>2
    <3> QED
      BY <1>1, <1>2, <3>1, <3>3, Allocated
  <2>3. AddUpvalue(u, uvs, x)
    BY <1>8
  <2> HIDE DEF uvs
  <2>4. /\ DOMAIN upvals' = DOMAIN upvals \cup {u}
        /\ \A w \in DOMAIN upvals : /\ upvals'[w].idx = upvals[w].idx
                                    /\ upvals'[w].closed = upvals[w].closed
                                    /\ upvals'[w].value = upvals[w].value
        /\ upvals'[u].idx = s /\ ~upvals'[u].closed
        /\ UNCHANGED <<stack, frames, aborted, holder>>
        /\ Cells' = Cells \cup {new}
    BY <2>2, <2>3, UpvalueAdded
  <2>5. /\ DOMAIN open' = 1 .. n + 1 /\ open'[n + 1] = u
        /\ \A j \in DOMAIN open : open'[j] = open[j]
        /\ \A j \in DOMAIN open' : j \in DOMAIN open \/ j = n + 1
        /\ DOMAIN open \subseteq DOMAIN open' /\ n + 1 \in DOMAIN open' /\ n + 1 \notin DOMAIN open
        /\ \A j \in DOMAIN open' : j <= n + 1
    <3>1. open \in Seq(Upvals \cup {None}) /\ open' = Append(open, u)
      BY <1>1, <1>8 DEF TypeOK
    <3> QED
      BY <1>3, <3>1
  <2>6. /\ \A j \in DOMAIN open : /\ open[j] \in DOMAIN upvals /\ ~upvals[open[j]].closed /\ open[j] # u
                                  /\ upvals[open[j]].idx \in Slots /\ upvals[open[j]].idx \in Nat
                                  /\ upvals'[open'[j]].idx = upvals[open[j]].idx
    BY <1>8, <2>4, <2>5, OpenOnes DEF PlainInv
  <2>7. \A j \in DOMAIN open : upvals[open[j]].idx < s
    <3>1. 1 \in FirstCaptures(building.todo) /\ building.todo[1].at = s
      <4>1. building.todo \in Seq(Captures) /\ Len(building.todo) \in Nat \ {0}
        BY NextCapture
      <4>2. 1 \in DOMAIN building.todo /\ building.todo[1] = Head(building.todo)
        BY <4>1
      <4> QED
        BY <2>1, <4>2 DEF FirstCaptures
    <3>2. InOrder(building.todo)
      BY DEF PlainInv, OrderInv
    <3>3. \A j \in DOMAIN open : IsCaptured(upvals[open[j]].idx)
      BY <2>6, OpenOnes DEF PlainInv
    <3> QED
      BY <2>6, <3>1, <3>2, <3>3 DEF InOrder
  <2>8. Sorted'
    <3> SUFFICES ASSUME NEW j \in DOMAIN open', NEW k \in DOMAIN open', j < k
                 PROVE  upvals'[open'[j]].idx < upvals'[open'[k]].idx
      BY DEF Sorted
    <3> HIDE DEF n
    <3>1. j \in DOMAIN open
      <4>1. n \in Nat /\ j \in Nat /\ k \in Nat
        BY <1>3, <2>5 DEF n
      <4> QED
        BY <2>5, <4>1
    <3>2. CASE k \in DOMAIN open
      BY <2>6, <3>1, <3>2 DEF PlainInv, Sorted
    <3>3. CASE k = n + 1
      BY <2>4, <2>5, <2>6, <2>7, <3>1, <3>3
    <3> QED
      BY <2>5, <3>2, <3>3
  <2>9. Range(open') = Range(open) \cup {u}
    <3> HIDE DEF n
    <3> QED
      BY <2>5 DEF Range
  <2>10. OpenExact'
    <3>1. u # None
      BY BoundsAssumption
    <3>2. \A w \in DOMAIN upvals : w # u
      BY <1>8
    <3> QED
      BY <2>4, <2>9, <3>1, <3>2 DEF PlainInv, OpenExact
  <2>11. Held' = Held
    BY <2>4 DEF Held
  <2>12. OpenHeld' /\ Injective'
    <3>1. \A w \in Range(open) : w \in DOMAIN upvals
      BY <2>6 DEF Range
    <3> QED
      BY <1>2, <2>4, <2>9, <2>11, <3>1 DEF PlainInv, OpenHeld, Injective
  <2>13. OrderInv'
    <3>1. ASSUME NEW t PROVE IsCaptured(t)' <=> IsCaptured(t) \/ t = s
      <4>1. IsCaptured(t)' <=> \E j \in DOMAIN open' : open'[j] # None /\ upvals'[open'[j]].idx = t
        BY DEF IsCaptured
      <4>2. u # None
        BY BoundsAssumption
      <4>3. IsCaptured(t) <=> \E j \in DOMAIN open : upvals[open[j]].idx = t
        BY OpenOnes DEF IsCaptured, PlainInv
      <4>4. \A j \in DOMAIN open : open[j] # None
        BY OpenOnes DEF PlainInv
      <4> HIDE DEF n
      <4> QED
        BY <2>4, <2>5, <2>6, <4>1, <4>2, <4>3, <4>4
    <3> QED
      BY <2>1, <2>3, <3>1, OrderKept DEF PlainInv
  <2>14. ASSUME NEW p \in Cells PROVE CellOK(p)' /\ p.var # x /\ p.upval # u
    <3>1. CellOK(p) /\ p.upval \in DOMAIN upvals
      BY CellsAllocated DEF PlainInv, CellsInv
    <3>2. p.var # x
      BY <1>6, <2>1, <3>1, OpenOnes DEF PlainInv
    <3> QED
      BY <1>8, <2>4, <3>1, <3>2 DEF CellOK
  <2>15. \A p : p.var = x /\ p.upval = u => CellOK(p)'
    BY <1>2, <2>4 DEF CellOK
  <2>16. CellsInv'
    <3>1. new.var = x /\ new.upval = u
      OBVIOUS
    <3> HIDE DEF new, x
    <3>2. \A p, q \in Cells : p.var = q.var <=> p.upval = q.upval
      BY DEF PlainInv, CellsInv
    <3> QED
      BY <2>4, <2>14, <2>15, <3>1, <3>2 DEF CellsInv
  <2>17. \A w \in DOMAIN upvals : Load(w)' = Load(w)
    BY <2>4 DEF Load
  <2> QED
    BY <1>2, <1>5, <2>4, <2>8, <2>10, <2>12, <2>13, <2>16, <2>17 DEF PlainInv, Load
<1> QED
  BY <1>3, <1>7, <1>8, Zenon DEF BindLocal

LEMMA BindUpvaluePlain ==
  ASSUME IInv, PlainInv, building # None, Head(building.todo).kind = "upvalue",
         BindUpvalue(Head(building.todo).at)
  PROVE  /\ PlainInv' /\ UNCHANGED <<stack, holder>> /\ Cells' = Cells
         /\ \A w \in DOMAIN upvals : Load(w)' = Load(w)
<1> DEFINE i == Head(building.todo).at
           u == closures[Top.self][i]
           x == captured[Top.self][i]
<1>1. Top.self \in DOMAIN closures /\ i \in DOMAIN closures[Top.self]
  BY NextCapture
<1>2. u \in DOMAIN upvals
  BY <1>1, UsedIsAllocated DEF IInv
<1>3. [var |-> x, upval |-> u] \in Cells
  BY <1>1 DEF Cells
<1>4. AddUpvalue(u, upvals, x) /\ UNCHANGED open
  BY DEF BindUpvalue
<1>5. \A w \in DOMAIN upvals : upvals[w] \in Upval
  BY DEF IInv, TypeOK
<1> HIDE DEF u, x
<1>6. /\ DOMAIN upvals' = DOMAIN upvals
      /\ \A w \in DOMAIN upvals : /\ upvals'[w].idx = upvals[w].idx
                                  /\ upvals'[w].closed = upvals[w].closed
                                  /\ upvals'[w].value = upvals[w].value
      /\ UNCHANGED <<stack, frames, aborted, holder>>
      /\ Cells' = Cells
  <2>1. AddUpvalue(u, upvals, x)
    BY <1>4
  <2>2. Cells' = Cells \cup {[var |-> x, upval |-> u]}
    BY <1>5, <2>1, UpvalueAdded
  <2>3. Cells' = Cells
    BY <1>3, <2>2
  <2> QED
    BY <1>5, <2>1, <2>3, UpvalueAdded
<1>7. /\ ~aborted' /\ Sorted' /\ OpenExact' /\ OpenHeld' /\ Injective' /\ CellsInv'
      /\ \A t : IsCaptured(t)' <=> IsCaptured(t)
  BY <1>4, <1>6, PlainKept
<1>8. OrderInv'
  BY <1>4, <1>7, OrderKept DEF PlainInv
<1>9. \A w \in DOMAIN upvals : Load(w)' = Load(w)
  BY <1>6 DEF Load
<1> QED
  BY <1>6, <1>7, <1>8, <1>9 DEF PlainInv

LEMMA StepPlain == Features = {} /\ IInv /\ PlainInv /\ [Next]_vars => PlainInv'
<1> SUFFICES ASSUME Features = {}, IInv, PlainInv, [Next]_vars PROVE PlainInv'
  OBVIOUS
<1>1. ASSUME NEW self \in DOMAIN closures \cup {None}, Call(self) PROVE PlainInv'
  BY <1>1, CallPlain
<1>2. ASSUME NEW x \in Vars, NEW v \in Values, Declare(x, v) PROVE PlainInv'
  BY <1>2, DeclarePlain
<1>3. ASSUME NEW s \in Slots, NEW v \in Values, StoreLocal(s, v) PROVE PlainInv'
  BY <1>3, StoreLocalPlain
<1>4. CASE EndScope
  BY <1>4, EndScopeDiscards, DiscardPlain
<1>5. ASSUME NEW c \in Closures, NEW n \in 1 .. MaxCaptures,
             NEW caps \in [1 .. n -> Captures], LoadFunction(c, caps)
      PROVE  PlainInv'
  BY <1>5, LoadFunctionPlain
<1>6. CASE Bind
  <2>1. building # None
    BY <1>6 DEF Bind
  <2>2. ASSUME Head(building.todo).kind = "local", NEW u \in Upvals,
               BindLocal(u, Head(building.todo).at)
        PROVE  PlainInv'
    BY <2>1, <2>2, BindLocalPlain
  <2>3. ASSUME Head(building.todo).kind = "upvalue", BindUpvalue(Head(building.todo).at)
        PROVE  PlainInv'
    BY <2>1, <2>3, BindUpvaluePlain
  <2> QED
    BY <1>6, <2>2, <2>3 DEF Bind
<1>7. ASSUME NEW i \in 1 .. MaxCaptures, NEW v \in Values, StoreUpvalue(i, v) PROVE PlainInv'
  BY <1>7, StoreUpvaluePlain
<1>8. CASE Return
  BY <1>8, ReturnDiscards, DiscardPlain
<1>9. CASE Unwind
  BY <1>9, UnwindDiscards, DiscardPlain
<1>10. ASSUME NEW c \in Closures, Collect(c) PROVE PlainInv'
  BY <1>10, CollectDiscards, DiscardPlain
<1>11. CASE UNCHANGED vars
  <2>1. /\ UNCHANGED <<open, aborted, upvals, holder, building>> /\ Cells' = Cells
    BY <1>11 DEF vars, Cells
  <2>2. /\ ~aborted' /\ Sorted' /\ OpenExact' /\ OpenHeld' /\ Injective' /\ CellsInv'
        /\ \A t : IsCaptured(t)' <=> IsCaptured(t)
    BY <2>1, PlainKept
  <2>3. OrderInv'
    BY <2>1, <2>2 DEF PlainInv, OrderInv, InOrder, FirstCaptures
  <2> QED
    BY <2>2, <2>3 DEF PlainInv
<1> QED
  BY <1>1, <1>2, <1>3, <1>4, <1>5, <1>6, <1>7, <1>8, <1>9, <1>10, <1>11 DEF Next

LEMMA AlwaysPlain == ASSUME Features = {} PROVE Spec => [](IInv /\ PlainInv)
<1>1. Init => IInv /\ PlainInv
  BY InitIInv, InitPlain
<1>2. IInv /\ PlainInv /\ [Next]_vars => IInv' /\ PlainInv'
  BY StepIInv, StepPlain
<1> QED
  BY <1>1, <1>2, PTL DEF Spec

(* What a cell loads is what its variable's slot holds while it has one.   *)
LEMMA CellLoads ==
  ASSUME IInv, PlainInv, NEW p \in Cells
  PROVE  /\ \A s \in Held : holder[s] = p.var => Load(p.upval) = stack[s]
         /\ ~upvals[p.upval].closed => /\ holder[upvals[p.upval].idx] = p.var
                                       /\ upvals[p.upval].idx \in Held
<1>1. CellOK(p) /\ p.upval \in DOMAIN upvals /\ p.var # None /\ DOMAIN holder = Slots
  BY CellsAllocated, BoundsAssumption DEF PlainInv, CellsInv, CellOK, IInv, TypeOK
<1>2. CASE upvals[p.upval].closed
  BY <1>1, <1>2 DEF CellOK, Range, Held
<1>3. CASE ~upvals[p.upval].closed
  <2>1. holder[upvals[p.upval].idx] = p.var /\ upvals[p.upval].idx \in Held
    BY <1>1, <1>3, OpenOnes DEF PlainInv, CellOK, Held
  <2> QED
    BY <1>3, <2>1 DEF PlainInv, Injective, Load
<1> QED
  BY <1>2, <1>3

LEMMA SoundOfPlain == IInv /\ PlainInv => ClosuresSound
<1> SUFFICES ASSUME IInv, PlainInv PROVE ClosuresSound
  OBVIOUS
<1>1. UpdatesShared
  <2>1. \A p, q \in Cells : q.var = p.var => q.upval = p.upval
    BY DEF PlainInv, CellsInv
  <2> QED
    BY <2>1, CellLoads DEF UpdatesShared
<1>2. VariablesSeparate
  <2>1. \A p, q \in Cells : q.upval = p.upval => q.var = p.var
    BY DEF PlainInv, CellsInv
  <2> QED
    BY <2>1, CellLoads DEF VariablesSeparate
<1>3. RefcountExact /\ NeverAborts
  BY DEF IInv, CountInv, RefcountExact, Users, PlainInv, NeverAborts
<1> QED
  BY <1>1, <1>2, <1>3 DEF ClosuresSound

(* README.md 224 and 234, for programs that do none of the Features only    *)
(* (ImplementsScoping says which those are; with any of them it does not    *)
(* hold): a variable is one place.  Whoever closes over it sees the same   *)
(* value, no other variable is ever found there, it lives as long as a     *)
(* closure needs it, and no assertion of eval.c fails.                     *)
THEOREM ClosuresAlwaysSound == ASSUME Features = {} PROVE Spec => []ClosuresSound
BY AlwaysPlain, SoundOfPlain, PTL
-----------------------------------------------------------------------------
(* How the state stands for variables with values: a variable has the      *)
(* value of its slot, and the value its upvalue loads.                     *)
CapturedIsFunction == captured = [c \in DOMAIN captured |-> captured[c]]
ValuesKnown == /\ \A s \in Held : holder[s] \in Existing /\ ValueOf(holder[s]) = stack[s]
               /\ \A p \in Cells : p.var \in Existing /\ ValueOf(p.var) = Load(p.upval)
               /\ \A c \in DOMAIN captured : Range(captured[c]) \subseteq Existing
               /\ Existing \subseteq Vars

LEMMA KnownValues == IInv /\ PlainInv => ValuesKnown
<1> SUFFICES ASSUME IInv, PlainInv PROVE ValuesKnown
  OBVIOUS
<1>1. ASSUME NEW s \in Held PROVE holder[s] \in Existing /\ ValueOf(holder[s]) = stack[s]
  <2> DEFINE t == CHOOSE t \in Held : holder[t] = holder[s]
  <2>1. t \in Held /\ holder[t] = holder[s]
    OBVIOUS
  <2> HIDE DEF t
  <2>2. t = s
    BY <2>1 DEF PlainInv, Injective
  <2>3. ValueOf(holder[s]) = stack[t]
    BY DEF ValueOf, t
  <2> QED
    BY <2>2, <2>3 DEF Existing
<1>2. ASSUME NEW p \in Cells PROVE p.var \in Existing /\ ValueOf(p.var) = Load(p.upval)
  <2>1. p.var \in Existing
    BY DEF Existing
  <2>2. CASE \E s \in Held : holder[s] = p.var
    BY <1>1, <2>1, <2>2, CellLoads
  <2>3. CASE ~(\E s \in Held : holder[s] = p.var)
    <3> DEFINE q == CHOOSE q \in Cells : q.var = p.var
    <3>1. q \in Cells /\ q.var = p.var
      OBVIOUS
    <3>2. ValueOf(p.var) = Load(q.upval)
      BY <2>3, Zenon DEF ValueOf
    <3> HIDE DEF q
    <3>3. q.upval = p.upval
      BY <3>1 DEF PlainInv, CellsInv
    <3> QED
      BY <2>1, <3>2, <3>3
  <2> QED
    BY <2>2, <2>3
<1>3. ASSUME NEW c \in DOMAIN captured, NEW i \in DOMAIN captured[c]
      PROVE  captured[c][i] \in Existing
  <2>1. c \in DOMAIN closures /\ i \in DOMAIN closures[c]
    BY DEF IInv, TypeOK, ClosuresInv
  <2>2. [var |-> captured[c][i], upval |-> closures[c][i]] \in Cells
    BY <2>1 DEF Cells
  <2> QED
    BY <1>2, <2>2
<1>4. Existing \subseteq Vars
  <2>1. \A s \in Held : holder[s] \in Vars
    BY DEF Held, IInv, TypeOK
  <2>2. \A p \in Cells : p.var \in Vars
    BY DEF PlainInv, CellsInv, CellOK
  <2> QED
    BY <2>1, <2>2 DEF Existing
<1>5. \A c \in DOMAIN captured : Range(captured[c]) \subseteq Existing
  BY <1>3 DEF Range
<1> QED
  BY <1>1, <1>2, <1>4, <1>5 DEF ValuesKnown

(* A variable whose slot and whose captures are what they were has the     *)
(* value it had.                                                           *)
LEMMA ValueKept ==
  ASSUME ValuesKnown, ValuesKnown', NEW K,
         \A s \in Held' : holder'[s] \in K =>
           s \in Held /\ holder'[s] = holder[s] /\ stack'[s] = stack[s],
         \A p \in Cells' : p.var \in K =>
           \/ p \in Cells /\ Load(p.upval)' = Load(p.upval)
           \/ \E s \in Held' : holder'[s] = p.var
  PROVE  \A x \in K : x \in Existing' => x \in Existing /\ ValueOf(x)' = ValueOf(x)
<1> SUFFICES ASSUME NEW x \in K, x \in Existing'
             PROVE  x \in Existing /\ ValueOf(x)' = ValueOf(x)
  OBVIOUS
<1>1. ASSUME NEW s \in Held', holder'[s] = x
      PROVE  x \in Existing /\ ValueOf(x)' = ValueOf(x)
  <2>1. s \in Held /\ holder[s] = x /\ stack'[s] = stack[s]
    BY <1>1
  <2>2. x \in Existing /\ ValueOf(x) = stack[s]
    BY <2>1 DEF ValuesKnown
  <2>3. ValueOf(x)' = stack'[s]
    BY <1>1 DEF ValuesKnown
  <2> QED
    BY <2>1, <2>2, <2>3
<1>2. ASSUME NEW p \in Cells', p.var = x
      PROVE  x \in Existing /\ ValueOf(x)' = ValueOf(x)
  <2>1. CASE \E s \in Held' : holder'[s] = x
    BY <1>1, <2>1
  <2>2. CASE p \in Cells /\ Load(p.upval)' = Load(p.upval)
    <3>1. x \in Existing /\ ValueOf(x) = Load(p.upval)
      BY <1>2, <2>2 DEF ValuesKnown
    <3>2. ValueOf(x)' = Load(p.upval)'
      BY <1>2 DEF ValuesKnown
    <3> QED
      BY <2>2, <3>1, <3>2
  <2> QED
    BY <1>2, <2>1, <2>2
<1>3. (\E s \in Held' : holder'[s] = x) \/ \E p \in Cells' : p.var = x
  BY DEF Existing
<1> QED
  BY <1>1, <1>2, <1>3

LEMMA ValuesAre ==
  /\ DOMAIN ValueOfVars = Existing /\ \A x \in Existing : ValueOfVars[x] = ValueOf(x)
  /\ ValueOfVars = [x \in Existing |-> ValueOf(x)]
BY DEF ValueOfVars

(* Steps that change no variable are stuttering steps of the promise, but   *)
(* for what they do to the closures.                                       *)
LEMMA NoVariableChanged ==
  ASSUME ValuesKnown, ValuesKnown', Existing \subseteq Existing',
         \A s \in Held' : s \in Held /\ holder'[s] = holder[s] /\ stack'[s] = stack[s],
         \A p \in Cells' : \/ p \in Cells /\ Load(p.upval)' = Load(p.upval)
                           \/ \E s \in Held' : holder'[s] = p.var
  PROVE  ValueOfVars' = ValueOfVars
<1>1. \A x \in Existing' : x \in Existing /\ ValueOf(x)' = ValueOf(x)
  BY ValueKept
<1>2. Existing' = Existing
  BY <1>1
<1>3. ValueOfVars' = [x \in Existing' |-> ValueOf(x)']
  BY DEF ValueOfVars
<1> QED
  BY <1>1, <1>2, <1>3, ValuesAre

LEMMA CallImplements ==
  ASSUME IInv, PlainInv, ValuesKnown, ValuesKnown', NEW self, Call(self)
  PROVE  ValueOfVars' = ValueOfVars /\ captured' = captured
<1> DEFINE n == Len(frames)
<1>1. /\ n < MaxFrames
      /\ stack' = [s \in Slots |-> IF s \in n * MaxLocals .. n * MaxLocals + MaxLocals - 1
                                    THEN Null ELSE stack[s]]
      /\ UNCHANGED <<upvals, closures, holder, captured>>
  BY DEF Call
<1>2. TypeOK /\ FrameInv /\ frames \in Seq(Frame) /\ n \in Nat /\ MaxFrames \in Nat
        /\ MaxLocals \in Nat /\ DOMAIN frames = 1 .. n
  BY BoundsAssumption DEF IInv, TypeOK
<1>3. n + 1 \in 1 .. MaxFrames /\ Bp(n + 1) = n * MaxLocals /\ Bp(n + 1) \in Nat
  <2>1. n + 1 \in 1 .. MaxFrames /\ (n + 1) - 1 = n
    BY <1>1, <1>2
  <2> QED
    BY <2>1, FramesApart DEF Bp
<1>4. ASSUME NEW s \in Held PROVE stack'[s] = stack[s]
  <2>1. s \in Slots /\ s \in Nat
    BY FramesApart DEF Held, Slots
  <2>2. PICK d \in DOMAIN frames : s \in frames[d].bp .. frames[d].bp + frames[d].num - 1
    BY <1>2, <2>1 DEF Held, FrameInv
  <2>3. d \in 1 .. MaxFrames /\ d < n + 1 /\ frames[d] \in Frame
    BY <1>1, <1>2
  <2>4. frames[d].num \in 0 .. MaxLocals
    BY <2>3 DEF Frame
  <2>5. frames[d].bp = Bp(d)
    BY <1>2 DEF FrameInv
  <2>6. Bp(d) + MaxLocals <= Bp(n + 1) /\ Bp(d) \in Nat
    BY <1>3, <2>3, FramesApart
  <2>7. s < n * MaxLocals
    <3> DEFINE a == Bp(d)
               b == n * MaxLocals
               m == frames[d].num
    <3>1. a \in Nat /\ b \in Nat /\ m \in Nat /\ m <= MaxLocals /\ a + MaxLocals <= b /\ s \in a .. a + m - 1
      BY <1>2, <1>3, <2>2, <2>4, <2>5, <2>6
    <3> HIDE DEF a, b, m
    <3>2. s < b
      BY <1>2, <2>1, <3>1
    <3> QED
      BY <3>2 DEF b
  <2>8. s \notin n * MaxLocals .. n * MaxLocals + MaxLocals - 1
    <3> DEFINE b == n * MaxLocals
    <3>1. b \in Nat /\ s < b
      BY <1>3, <2>7
    <3> HIDE DEF b
    <3>2. s \notin b .. b + MaxLocals - 1
      BY <2>1, <3>1
    <3> QED
      BY <3>2 DEF b
  <2> QED
    BY <1>1, <2>1, <2>8
<1>5. Held' = Held /\ Cells' = Cells /\ Existing' = Existing
  BY <1>1 DEF Held, Cells, Existing
<1>6. ASSUME NEW p \in Cells PROVE Load(p.upval)' = Load(p.upval)
  BY <1>1, <1>4, CellLoads DEF Load
<1>7. ValueOfVars' = ValueOfVars
  BY <1>1, <1>4, <1>5, <1>6, NoVariableChanged
<1> QED
  BY <1>1, <1>7

LEMMA DeclareImplements ==
  ASSUME IInv, PlainInv, ValuesKnown, ValuesKnown', NEW x \in Vars, NEW v \in Values, Declare(x, v)
  PROVE  Promise!Declare(x, v)
<1> DEFINE k == Top.bp + Top.num
<1>1. UNCHANGED <<upvals, closures, captured>> /\ Cells' = Cells
  BY DEF Declare, Cells
<1>2. /\ k \in Slots \ Held
      /\ stack' = [stack EXCEPT ![k] = v]
      /\ Held' = Held \cup {k} /\ x # None
      /\ \A s \in Slots : holder'[s] = (IF s = k THEN x ELSE holder[s])
      /\ x \notin Range(holder) /\ \A p \in Cells : p.var # x
  BY DeclaredSlot
<1>3. DOMAIN holder = Slots /\ DOMAIN stack = Slots
  BY DEF IInv, TypeOK
<1> HIDE DEF k
<1>4. \A s \in Held : s \in Slots /\ s # k /\ holder'[s] = holder[s] /\ stack'[s] = stack[s]
  BY <1>2, <1>3 DEF Held
<1>5. x \notin Existing
  BY <1>2, <1>3 DEF Existing, Held, Range
<1>6. Existing' = Existing \cup {x}
  <2>1. k \in Held' /\ holder'[k] = x
    BY <1>2
  <2>2. \A s \in Held' : s \in Held \/ s = k
    BY <1>2
  <2>3. {holder'[s] : s \in Held'} = {holder[s] : s \in Held} \cup {x}
    BY <1>2, <1>4, <2>1, <2>2
  <2> QED
    BY <1>1, <2>3 DEF Existing
<1>7. ValueOf(x)' = v
  <2>1. k \in Held' /\ holder'[k] = x /\ stack'[k] = v
    BY <1>2, <1>3
  <2> QED
    BY <2>1 DEF ValuesKnown
<1>8. ASSUME NEW p \in Cells PROVE Load(p.upval)' = Load(p.upval)
  BY <1>1, <1>4, CellLoads DEF Load
<1>9. \A y \in Existing : ValueOf(y)' = ValueOf(y)
  <2>1. \A s \in Held' : holder'[s] \in Existing =>
           s \in Held /\ holder'[s] = holder[s] /\ stack'[s] = stack[s]
    BY <1>2, <1>4, <1>5
  <2>2. \A y \in Existing : y \in Existing' => y \in Existing /\ ValueOf(y)' = ValueOf(y)
    BY <1>1, <1>8, <2>1, ValueKept
  <2> QED
    BY <1>6, <2>2
<1>10. ValueOfVars' = [y \in Existing' |-> ValueOf(y)']
  BY DEF ValueOfVars
<1>11. ValueOfVars' = [y \in Existing \cup {x} |-> IF y = x THEN v ELSE ValueOfVars[y]]
  BY <1>5, <1>6, <1>7, <1>9, <1>10, ValuesAre
<1> QED
  BY <1>1, <1>5, <1>11, ValuesAre DEF Promise!Declare

LEMMA Assigned ==
  ASSUME ValuesKnown, ValuesKnown', NEW x \in Existing, NEW v,
         Held' = Held, holder' = holder, Cells' = Cells, captured' = captured,
         ValueOf(x)' = v,
         \A s \in Held : holder[s] # x => stack'[s] = stack[s],
         \A p \in Cells : p.var # x => Load(p.upval)' = Load(p.upval)
  PROVE  Promise!Assign(x, v)
<1>1. Existing' = Existing
  BY DEF Existing
<1>2. \A y \in Existing \ {x} : y \in Existing' => y \in Existing /\ ValueOf(y)' = ValueOf(y)
  BY ValueKept
<1>3. \A y \in Existing : y # x => ValueOf(y)' = ValueOf(y)
  BY <1>1, <1>2
<1>4. ValueOfVars' = [y \in Existing' |-> ValueOf(y)']
  BY DEF ValueOfVars
<1>5. ValueOfVars' = [ValueOfVars EXCEPT ![x] = v]
  BY <1>1, <1>3, <1>4, ValuesAre
<1> QED
  BY <1>5, ValuesAre DEF Promise!Assign

LEMMA StoreLocalImplements ==
  ASSUME IInv, PlainInv, ValuesKnown, ValuesKnown', NEW s \in Slots, NEW v \in Values,
         StoreLocal(s, v)
  PROVE  \E x \in Vars : Promise!Assign(x, v)
<1>1. /\ InFunction /\ s \in InScope
      /\ stack' = [stack EXCEPT ![s] = v]
      /\ UNCHANGED <<upvals, closures, holder, captured>>
  BY DEF StoreLocal
<1>2. s \in Held
  BY <1>1, TopFrame DEF IInv
<1>3. PICK x \in Vars : x = holder[s] /\ x \in Existing
  BY <1>2 DEF ValuesKnown
<1>4. /\ Held' = Held /\ Cells' = Cells /\ stack'[s] = v
      /\ \A t \in Held : t # s => stack'[t] = stack[t]
  BY <1>1 DEF Held, Cells, IInv, TypeOK
<1>5. ValueOf(x)' = v
  <2>1. s \in Held' /\ holder'[s] = x
    BY <1>1, <1>2, <1>3, <1>4
  <2> QED
    BY <1>4, <2>1 DEF ValuesKnown
<1>6. ASSUME NEW p \in Cells, p.var # x PROVE Load(p.upval)' = Load(p.upval)
  BY <1>1, <1>3, <1>4, <1>6, CellLoads DEF Load
<1>7. \A t \in Held : holder[t] # x => stack'[t] = stack[t]
  BY <1>3, <1>4
<1>8. Promise!Assign(x, v)
  BY <1>1, <1>3, <1>4, <1>5, <1>6, <1>7, Assigned
<1> QED
  BY <1>8

LEMMA StoreUpvalueImplements ==
  ASSUME IInv, PlainInv, ValuesKnown, ValuesKnown', NEW i, NEW v \in Values, StoreUpvalue(i, v)
  PROVE  \E x \in Vars : Promise!Assign(x, v)
<1>1. /\ InFunction /\ Top.self # None /\ i \in DOMAIN closures[Top.self]
      /\ UNCHANGED <<closures, holder, captured>>
  BY DEF StoreUpvalue
<1>2. Top.self \in DOMAIN closures
  BY <1>1, TopFrame DEF IInv
<1>3. [var |-> captured[Top.self][i], upval |-> closures[Top.self][i]] \in Cells
  BY <1>1, <1>2 DEF Cells
<1>4. PICK p \in Cells : p.upval = closures[Top.self][i]
  BY <1>3
<1>5. PICK w : w = p.upval
  OBVIOUS
<1>6. IF upvals[w].closed
      THEN upvals' = [upvals EXCEPT ![w].value = v] /\ stack' = stack
      ELSE stack' = [stack EXCEPT ![upvals[w].idx] = v] /\ upvals' = upvals
  BY <1>4, <1>5 DEF StoreUpvalue
<1>7. w \in DOMAIN upvals /\ upvals[w] \in Upval /\ p.var \in Existing /\ p.var \in Vars
  BY <1>5, CellsAllocated DEF ValuesKnown, IInv, TypeOK
<1>8. Held' = Held /\ Cells' = Cells
  BY <1>1 DEF Held, Cells
<1>9. /\ Load(w)' = v
      /\ \A s \in Held : holder[s] # p.var => stack'[s] = stack[s]
      /\ \A q \in Cells : q.var # p.var => Load(q.upval)' = Load(q.upval)
  <2>1. \A q \in Cells : q.var # p.var => q.upval # w /\ q.upval \in DOMAIN upvals
    BY <1>5, CellsAllocated DEF PlainInv, CellsInv
  <2>2. CASE upvals[w].closed
    <3>1. [upvals[w] EXCEPT !.value = v].closed /\ [upvals[w] EXCEPT !.value = v].value = v
      BY <1>7, <2>2 DEF Upval
    <3>2. /\ upvals'[w] = [upvals[w] EXCEPT !.value = v]
          /\ \A z \in DOMAIN upvals : z # w => upvals'[z] = upvals[z]
      BY <1>6, <1>7, <2>2
    <3> QED
      BY <1>6, <2>1, <2>2, <3>1, <3>2 DEF Load
  <2>3. CASE ~upvals[w].closed
    <3> DEFINE s == upvals[w].idx
    <3>1. s \in Held /\ holder[s] = p.var
      BY <1>5, <2>3, CellLoads
    <3>2. upvals' = upvals /\ stack'[s] = v /\ \A t \in Slots : t # s => stack'[t] = stack[t]
      BY <1>6, <2>3, <3>1 DEF Held, IInv, TypeOK
    <3>3. ASSUME NEW q \in Cells, q.var # p.var PROVE Load(q.upval)' = Load(q.upval)
      <4>1. CASE upvals[q.upval].closed
        BY <3>2, <4>1 DEF Load
      <4>2. CASE ~upvals[q.upval].closed
        <5>1. upvals[q.upval].idx \in Slots /\ upvals[q.upval].idx # s
          BY <3>1, <3>3, <4>2, CellLoads DEF Held
        <5> QED
          BY <3>2, <4>2, <5>1 DEF Load
      <4> QED
        BY <4>1, <4>2
    <3> QED
      BY <2>3, <3>1, <3>2, <3>3 DEF Load, Held
  <2> QED
    BY <2>2, <2>3
<1>10. ValueOf(p.var)' = v
  BY <1>5, <1>8, <1>9 DEF ValuesKnown
<1>11. Promise!Assign(p.var, v)
  BY <1>1, <1>7, <1>8, <1>9, <1>10, Assigned
<1> QED
  BY <1>7, <1>11

LEMMA LoadFunctionImplements ==
  ASSUME IInv, PlainInv, ValuesKnown, ValuesKnown', NEW c, NEW caps, LoadFunction(c, caps)
  PROVE  Promise!NewClosure(c)
<1> DEFINE D == DOMAIN closures
<1>1. /\ c \notin D /\ DOMAIN captured = D
      /\ closures' = [d \in D \cup {c} |-> IF d = c THEN <<>> ELSE closures[d]]
      /\ captured' = [d \in DOMAIN captured \cup {c} |-> IF d = c THEN <<>> ELSE captured[d]]
      /\ UNCHANGED <<stack, upvals, holder>>
  BY DEF LoadFunction, IInv, TypeOK
<1>2. /\ DOMAIN closures' = D \cup {c} /\ DOMAIN closures'[c] = {}
      /\ \A d \in D : closures'[d] = closures[d] /\ captured'[d] = captured[d]
  BY <1>1
<1>3. Cells' \subseteq Cells
  BY <1>2 DEF Cells
<1>4. Cells \subseteq Cells'
  BY <1>2 DEF Cells
<1>5. Held' = Held /\ Existing' = Existing
  BY <1>1, <1>3, <1>4 DEF Held, Existing
<1>6. \A w : Load(w)' = Load(w)
  BY <1>1 DEF Load
<1>7. ValueOfVars' = ValueOfVars
  BY <1>1, <1>3, <1>5, <1>6, NoVariableChanged
<1> QED
  BY <1>1, <1>7 DEF Promise!NewClosure

LEMMA BindImplements ==
  ASSUME IInv, PlainInv, ValuesKnown, ValuesKnown', Bind
  PROVE  \E c \in Closures, x \in Vars : Promise!Capture(c, x)
<1> DEFINE cap == Head(building.todo)
<1>1. building # None /\ building.fn \in DOMAIN closures /\ building.fn \in Closures
        /\ DOMAIN captured = DOMAIN closures
  BY NextCapture DEF Bind, IInv, TypeOK
<1>2. ASSUME NEW u, NEW uvs, NEW x \in Existing, AddUpvalue(u, uvs, x),
             ValueOfVars' = ValueOfVars
      PROVE  \E c \in Closures, y \in Vars : Promise!Capture(c, y)
  <2>1. captured' = [captured EXCEPT ![building.fn] = Append(@, x)]
    BY <1>2 DEF AddUpvalue
  <2>2. x \in Vars
    BY DEF ValuesKnown
  <2>3. Promise!Capture(building.fn, x)
    BY <1>1, <1>2, <2>1, ValuesAre DEF Promise!Capture
  <2> QED
    BY <1>1, <2>2, <2>3
<1>3. \A w \in Cells : w.upval \in DOMAIN upvals
  BY CellsAllocated
<1>4. ASSUME cap.kind = "local", NEW u \in Upvals, BindLocal(u, cap.at)
      PROVE  \E c \in Closures, x \in Vars : Promise!Capture(c, x)
  <2>1. /\ UNCHANGED <<stack, holder>>
        /\ Cells' = Cells \cup {[var |-> holder[cap.at], upval |-> u]}
        /\ cap.at \in Held
        /\ \A w \in DOMAIN upvals : w \in DOMAIN upvals' /\ Load(w)' = Load(w)
    BY <1>1, <1>4, BindLocalPlain
  <2>2. Held' = Held
    BY <2>1 DEF Held
  <2>3. holder[cap.at] \in Existing
    BY <2>1 DEF ValuesKnown
  <2>4. Existing \subseteq Existing'
    BY <2>1, <2>2 DEF Existing
  <2>5. \A p \in Cells' : \/ p \in Cells /\ Load(p.upval)' = Load(p.upval)
                          \/ \E s \in Held' : holder'[s] = p.var
    BY <1>3, <2>1, <2>2
  <2>6. ValueOfVars' = ValueOfVars
    BY <2>1, <2>2, <2>4, <2>5, NoVariableChanged
  <2>7. (\E uvs : AddUpvalue(u, uvs, holder[cap.at])) \/ Abort
    BY <1>4 DEF BindLocal
  <2>8. ~Abort
    <3>1. PlainInv'
      BY <1>1, <1>4, BindLocalPlain
    <3> QED
      BY <3>1 DEF PlainInv, Abort
  <2> QED
    BY <1>2, <2>3, <2>6, <2>7, <2>8
<1>5. ASSUME cap.kind = "upvalue", BindUpvalue(cap.at)
      PROVE  \E c \in Closures, x \in Vars : Promise!Capture(c, x)
  <2>1. /\ UNCHANGED <<stack, holder>> /\ Cells' = Cells
        /\ \A w \in DOMAIN upvals : Load(w)' = Load(w)
    BY <1>1, <1>5, BindUpvaluePlain
  <2>2. Held' = Held /\ Existing' = Existing
    BY <2>1 DEF Held, Existing
  <2>3. ValueOfVars' = ValueOfVars
    BY <1>3, <2>1, <2>2, NoVariableChanged
  <2>4. Top.self \in DOMAIN closures /\ cap.at \in DOMAIN closures[Top.self]
    BY <1>1, <1>5, NextCapture
  <2>5. [var |-> captured[Top.self][cap.at], upval |-> closures[Top.self][cap.at]] \in Cells
    BY <2>4 DEF Cells
  <2>6. captured[Top.self][cap.at] \in Existing
    BY <2>5 DEF ValuesKnown
  <2>7. AddUpvalue(closures[Top.self][cap.at], upvals, captured[Top.self][cap.at])
    BY <1>5 DEF BindUpvalue
  <2> QED
    BY <1>2, <2>3, <2>6, <2>7
<1> QED
  BY <1>4, <1>5 DEF Bind

(* What goes out of scope and is captured by no closure is discarded.      *)
LEMMA DiscardImplements ==
  ASSUME IInv, PlainInv, ValuesKnown, ValuesKnown', NEW G, NEW m, Discards(G, m),
         NEW live \in SUBSET DOMAIN captured, captured' = Restrict(captured, live)
  PROVE  Promise!Next
<1>1. \A s \in Held' : s \in Held /\ holder'[s] = holder[s] /\ stack'[s] = stack[s]
  BY DEF Discards, Held
<1>2. \A p \in Cells' : p \in Cells /\ Load(p.upval)' = Load(p.upval)
  BY DEF Discards
<1>3. \A x \in Existing' : x \in Existing /\ ValueOf(x)' = ValueOf(x)
  BY <1>1, <1>2, ValueKept
<1>4. PICK kept : kept = Existing'
  OBVIOUS
<1>5. kept \in SUBSET DOMAIN ValueOfVars
  BY <1>3, <1>4, ValuesAre
<1>6. ValueOfVars' = [x \in Existing' |-> ValueOf(x)']
  BY DEF ValueOfVars
<1>7. ValueOfVars' = Restrict(ValueOfVars, kept)
  BY <1>3, <1>4, <1>6, ValuesAre DEF Restrict
<1>8. Promise!CapturedBy(captured') \subseteq kept
  BY <1>4 DEF Promise!CapturedBy, Promise!Range, Range, ValuesKnown
<1>9. Promise!Discard(live, kept)
  BY <1>7, <1>8 DEF Promise!Discard, Promise!Restrict, Restrict
<1> QED
  BY <1>5, <1>9 DEF Promise!Next

LEMMA FunctionStep == CapturedIsFunction /\ [Next]_vars => CapturedIsFunction'
<1> SUFFICES ASSUME CapturedIsFunction, [Next]_vars PROVE CapturedIsFunction'
  OBVIOUS
<1> USE DEF CapturedIsFunction
<1>1. CASE captured' = captured
  BY <1>1
<1>2. ASSUME NEW c \in Closures, NEW n \in 1 .. MaxCaptures,
             NEW caps \in [1 .. n -> Captures], LoadFunction(c, caps)
      PROVE  CapturedIsFunction'
  BY <1>2 DEF LoadFunction
<1>3. ASSUME NEW u, NEW uvs, NEW x, AddUpvalue(u, uvs, x) PROVE CapturedIsFunction'
  <2>1. captured' = [captured EXCEPT ![building.fn] = Append(@, x)]
    BY <1>3 DEF AddUpvalue
  <2> QED
    BY <2>1
<1>4. ASSUME NEW c \in Closures, Collect(c) PROVE CapturedIsFunction'
  BY <1>4 DEF Collect, Restrict
<1>5. CASE Bind
  BY <1>1, <1>3, <1>5, Zenon DEF Bind, BindLocal, BindUpvalue, Abort
<1>6. CASE Return
  BY <1>1, <1>6, Zenon DEF Return, Abort
<1>7. CASE EndScope \/ Unwind
  BY <1>1, <1>7 DEF EndScope, Unwind
<1>8. ASSUME NEW self, Call(self) PROVE CapturedIsFunction'
  BY <1>1, <1>8 DEF Call
<1>9. ASSUME NEW x, NEW v, Declare(x, v) PROVE CapturedIsFunction'
  BY <1>1, <1>9 DEF Declare
<1>10. ASSUME NEW s, NEW v, StoreLocal(s, v) \/ StoreUpvalue(s, v) PROVE CapturedIsFunction'
  BY <1>1, <1>10, Zenon DEF StoreLocal, StoreUpvalue
<1>11. CASE UNCHANGED vars
  BY <1>1, <1>11 DEF vars
<1> QED
  BY <1>2, <1>4, <1>5, <1>6, <1>7, <1>8, <1>9, <1>10, <1>11, Zenon DEF Next

LEMMA StepImplements ==
  Features = {} /\ IInv /\ PlainInv /\ ValuesKnown /\ ValuesKnown' /\ CapturedIsFunction /\ [Next]_vars
    => [Promise!Next]_(Promise!vars)
<1> SUFFICES ASSUME Features = {}, IInv, PlainInv, ValuesKnown, ValuesKnown',
                    CapturedIsFunction, [Next]_vars
             PROVE  Promise!Next \/ UNCHANGED <<ValueOfVars, captured>>
  BY DEF Promise!vars
<1>1. ASSUME NEW self \in DOMAIN closures \cup {None}, Call(self)
      PROVE  UNCHANGED <<ValueOfVars, captured>>
  BY <1>1, CallImplements
<1>2. ASSUME NEW x \in Vars, NEW v \in Values, Declare(x, v) PROVE Promise!Next
  BY <1>2, DeclareImplements DEF Promise!Next
<1>3. ASSUME NEW s \in Slots, NEW v \in Values, StoreLocal(s, v) PROVE Promise!Next
  BY <1>3, StoreLocalImplements DEF Promise!Next
<1>4. ASSUME NEW c \in Closures, NEW n \in 1 .. MaxCaptures,
             NEW caps \in [1 .. n -> Captures], LoadFunction(c, caps)
      PROVE  Promise!Next
  BY <1>4, LoadFunctionImplements DEF Promise!Next
<1>5. CASE Bind
  BY <1>5, BindImplements DEF Promise!Next
<1>6. ASSUME NEW i \in 1 .. MaxCaptures, NEW v \in Values, StoreUpvalue(i, v) PROVE Promise!Next
  BY <1>6, StoreUpvalueImplements DEF Promise!Next
<1>7. captured = Restrict(captured, DOMAIN captured)
  BY DEF CapturedIsFunction, Restrict
<1>8. ASSUME captured' = captured, \E G : \E m \in 0 .. Len(open) : Discards(G, m)
      PROVE  Promise!Next
  BY <1>7, <1>8, DiscardImplements
<1>9. CASE EndScope
  BY <1>8, <1>9, EndScopeDiscards DEF EndScope
<1>10. CASE Return
  <2>1. \E G : \E m \in 0 .. Len(open) : Discards(G, m)
    BY <1>10, ReturnDiscards
  <2>2. captured' = captured
    BY <1>10, Zenon DEF Return, Abort
  <2> QED
    BY <1>8, <2>1, <2>2
<1>11. CASE Unwind
  BY <1>8, <1>11, UnwindDiscards DEF Unwind
<1>12. ASSUME NEW c \in Closures, Collect(c) PROVE Promise!Next
  <2>1. \E G : \E m \in 0 .. Len(open) : Discards(G, m)
    BY <1>12, CollectDiscards
  <2>2. captured' = Restrict(captured, DOMAIN captured \ {c})
    BY <1>12 DEF Collect, IInv, TypeOK
  <2> QED
    BY <2>1, <2>2, DiscardImplements
<1>13. CASE UNCHANGED vars
  BY <1>13 DEF vars, ValueOfVars, Existing, ValueOf, Held, Cells, Load
<1> QED
  BY <1>1, <1>2, <1>3, <1>4, <1>5, <1>6, <1>9, <1>10, <1>11, <1>12, <1>13 DEF Next

(* LexicalScope, for programs that do none of the Features, and only those: *)
(* functions first capture their locals in the order of their declaration, *)
(* no block ends before its function with a captured variable, no error    *)
(* leaves a frame with one, no closure is collected while a variable it    *)
(* closes over is in its frame.  Then stack, upvalues and functions        *)
(* implement variables that keep their own values for as long as they are  *)
(* in scope or captured.                                                   *)
THEOREM ImplementsScoping == ASSUME Features = {} PROVE Spec => ImplementsLexicalScope
<1>1. Init => Promise!Init /\ CapturedIsFunction
  <2> SUFFICES ASSUME Init PROVE Promise!Init /\ CapturedIsFunction
    OBVIOUS
  <2>1. Held = {} /\ Cells = {} /\ captured = <<>>
    BY DEF Init, Held, Cells
  <2>2. Existing = {}
    BY <2>1 DEF Existing
  <2>3. ValueOfVars = <<>>
    BY <2>2 DEF ValueOfVars
  <2> QED
    BY <2>1, <2>3 DEF Promise!Init, CapturedIsFunction
<1>2. IInv /\ PlainInv => ValuesKnown
  BY KnownValues
<1>3. IInv /\ PlainInv /\ ValuesKnown /\ ValuesKnown' /\ CapturedIsFunction /\ [Next]_vars
        => [Promise!Next]_(Promise!vars)
  BY StepImplements
<1>4. CapturedIsFunction /\ [Next]_vars => CapturedIsFunction'
  BY FunctionStep
<1>5. Spec => [](IInv /\ PlainInv)
  BY AlwaysPlain
<1> QED
  BY <1>1, <1>2, <1>3, <1>4, <1>5, PTL DEF Spec, ImplementsLexicalScope, Promise!Spec
=============================================================================
