---------------------------- MODULE CallsProofs -----------------------------
(***************************************************************************)
(* The slots of calls: whatever calls what, every frame stays within the    *)
(* room that ensure_stack made for it, but for as many slots as caught      *)
(* errors left in it.  The invariant IInv says of each frame where its     *)
(* operands are, and of each two adjacent frames how the inner one was     *)
(* called.                                                                 *)
(*                                                                         *)
(* Then, from CInv (IInv, and what is never in the slots), that calls are  *)
(* what Activations promises: first what the activation of a frame reads,  *)
(* and how a chain of frames splits at its innermost ones; then a lemma    *)
(* ...View for each action, which maps its steps to steps of Activations.  *)
(***************************************************************************)
EXTENDS Calls, SequenceTheorems, FiniteSetTheorems, WellFoundedInduction, TLAPS

FrameRecord ==
  [kind : {"script", "user", "native"},
   fn : DOMAIN Code \cup DOMAIN BoundTo \cup {None, "apply"},
   bp : Nat, num_args : Nat, room : Nat, sp : Nat, body : BOOLEAN, phase : Nat,
   num : Nat, tries : Nat, open : Seq(Nat), left : Nat]

(* The end of the operands that the compiler counted, above what is left.  *)
High(f) == Low(f) + Operands(f.fn)

UserOK(f) ==
  /\ f.fn \in DOMAIN Code
  /\ f.phase <= Code[f.fn].params /\ f.num <= Code[f.fn].params + Code[f.fn].locals
  /\ f.room >= f.bp + 1 + f.num_args + StackSize(f.fn)
  /\ ~f.body => /\ f.tries = 0
                /\ f.num_args > f.phase \/ f.phase = Code[f.fn].params => f.sp = Base(f)
  /\ f.fn \in Methods => f.bp > 0
ScriptOK(f) ==
  f.fn = None /\ f.body /\ f.num = 0 /\ f.room >= f.bp + StackSize(None)

(* A frame that evaluates code has its operands between Low and High; in a *)
(* function with a try statement an operand was counted, the error caught. *)
OperandsOK(f) ==
  /\ Floor(f) <= f.sp /\ f.sp <= High(f)
  /\ f.tries > 0 => Operands(f.fn) > 0
  /\ \A i \in DOMAIN f.open : f.open[i] > Low(f)
  /\ \A i, j \in DOMAIN f.open : i < j => f.open[i] + 2 <= f.open[j]
EvaluatesOK(f) ==
  /\ f.kind = "user" => UserOK(f)
  /\ f.kind = "script" => ScriptOK(f)
  /\ OperandsOK(f)

FrameOK(f) ==
  IF f.kind = "native" THEN f.bp <= f.sp ELSE EvaluatesOK(f)

(* f calls the function in the slot dest: a value, or a method it loaded.  *)
CallsAt(f, dest) ==
  /\ dest < f.sp
  /\ \/ dest >= Floor(f)
     \/ f.open # <<>> /\ Last(f.open) = dest

PairOK(f, g) ==
  /\ f.kind = "native" => g.kind = "user" /\ f.bp < g.bp
  /\ f.kind # "native" => IF g.kind = "script" THEN g.bp = f.sp
                          ELSE CallsAt(f, g.bp)

Links(fs) ==
  /\ fs \in Seq(FrameRecord)
  /\ \A d \in DOMAIN fs : FrameOK(fs[d])
  /\ fs # <<>> => fs[1].kind = "script"
  /\ \A d \in DOMAIN fs : d > 1 => PairOK(fs[d - 1], fs[d])
Chain(fs) == Links(fs) /\ (fs # <<>> => Last(fs).kind # "native")

(* The first slot is an operand of a script, so no method is there, except *)
(* when one that was called as a bound method has just failed.             *)
SlotsOK(fs, s, e) ==
  /\ s \in Seq(Values \cup {Junk})
  /\ fs # <<>> => Len(s) = Last(fs).sp
  /\ s # <<>> /\ s[1] \in Methods => e # None /\ Last(fs).kind = "script" /\ Last(fs).bp = 0
ErrorOK(fs, e) ==
  e # None => e \in Errors /\ e.tb # <<>> /\ e.value \notin Methods /\ fs # <<>>

DepthOK(fs, n) == n = Cardinality(Evaluators(fs))

IInv == /\ Chain(frames) /\ SlotsOK(frames, stack, error) /\ ErrorOK(frames, error)
        /\ DepthOK(frames, eval_depth)
-----------------------------------------------------------------------------
LEMMA MaxFacts ==
  \A a, b \in Int : Max2(a, b) \in {a, b} /\ Max2(a, b) >= a /\ Max2(a, b) >= b
BY DEF Max2
LEMMA MinFacts ==
  \A a, b \in Int : Min2(a, b) \in Int /\ Min2(a, b) <= a /\ Min2(a, b) <= b
BY DEF Min2

LEMMA CodeNames == DOMAIN Code \subseteq Values /\ None \notin DOMAIN Code
<1>1. DOMAIN Code \subseteq Values
  BY DEF Values, Constants
<1> QED
  BY <1>1, ConstantsAssumption

(* A bound method is the method of its receiver.                           *)
LEMMA BoundFacts ==
  ASSUME NEW b \in DOMAIN BoundTo
  PROVE  /\ BoundTo[b].receiver \in Constants \cap DOMAIN MethodOf
         /\ MethodOf[BoundTo[b].receiver] = BoundTo[b].method
         /\ BoundTo[b].method \in Methods /\ BoundTo[b].method \in DOMAIN Code
         /\ Code[BoundTo[b].method].kind = "user"
<1>1. /\ BoundTo[b].receiver \in Constants \cap DOMAIN MethodOf
      /\ MethodOf[BoundTo[b].receiver] = BoundTo[b].method
      /\ Code[BoundTo[b].method].kind = "user" /\ Methods \subseteq DOMAIN Code
  BY ConstantsAssumption
<1> QED
  BY <1>1 DEF Methods

LEMMA CodeFacts ==
  ASSUME NEW fn \in DOMAIN Code
  PROVE  /\ Code[fn].params \in Nat /\ Code[fn].locals \in Nat /\ Code[fn].operands \in Nat
         /\ Code[fn].required \in Nat /\ Code[fn].required <= Code[fn].params
         /\ Operands(fn) = Code[fn].operands
         /\ StackSize(fn) = Code[fn].params + Code[fn].locals + Code[fn].operands
         /\ fn # None
BY ConstantsAssumption, CodeNames DEF Operands, StackSize

LEMMA ScriptRoom == Operands(None) = MaxOperands /\ StackSize(None) = MaxOperands
                    /\ MaxOperands \in Nat
BY BoundsAssumption DEF Operands, StackSize

(* Where the operands of a frame begin, in each of its phases.             *)
LEMMA BaseIs ==
  ASSUME NEW f \in FrameRecord
  PROVE  /\ f.kind = "script" => Base(f) = f.bp
         /\ f.kind = "user" /\ f.fn \in DOMAIN Code =>
              /\ f.body => Base(f) = f.bp + 1 + Max2(f.num_args, Code[f.fn].params)
                                       + Code[f.fn].locals
              /\ ~f.body => Base(f) = f.bp + 1 + Max2(f.num_args, f.phase)
              /\ Base(f) \in Nat /\ f.bp < Base(f)
<1>1. f.bp \in Nat /\ f.num_args \in Nat /\ f.phase \in Nat
  BY DEF FrameRecord
<1>2. f.kind = "script" => Base(f) = f.bp
  BY DEF Base
<1>3. ASSUME f.kind = "user", f.fn \in DOMAIN Code
      PROVE  /\ f.body => Base(f) = f.bp + 1 + Max2(f.num_args, Code[f.fn].params)
                                      + Code[f.fn].locals
             /\ ~f.body => Base(f) = f.bp + 1 + Max2(f.num_args, f.phase)
  <2>1. Code[f.fn].params \in Nat /\ Code[f.fn].locals \in Nat
    BY <1>3, CodeFacts
  <2>2. Max2(f.num_args, Code[f.fn].params) \in Nat
    BY <1>1, <2>1, MaxFacts
  <2> QED
    BY <1>1, <1>3, <2>1, <2>2 DEF Base
<1>4. ASSUME f.kind = "user", f.fn \in DOMAIN Code
      PROVE  Base(f) \in Nat /\ f.bp < Base(f)
  <2>1. Code[f.fn].params \in Nat /\ Code[f.fn].locals \in Nat
    BY <1>4, CodeFacts
  <2>2. Max2(f.num_args, Code[f.fn].params) \in Nat /\ Max2(f.num_args, f.phase) \in Nat
    BY <1>1, <2>1, MaxFacts
  <2> QED
    BY <1>1, <1>3, <1>4, <2>1, <2>2
<1> QED
  BY <1>2, <1>3, <1>4

(* The bounds of the operands of a frame.                                  *)
LEMMA FrameFacts ==
  ASSUME NEW f \in FrameRecord, EvaluatesOK(f), f.kind # "native"
  PROVE  /\ Base(f) \in Nat /\ Operands(f.fn) \in Nat /\ High(f) \in Nat
         /\ High(f) = Low(f) + Operands(f.fn)
         /\ f.bp <= Base(f) /\ (f.kind = "user" => f.bp < Base(f))
         /\ Low(f) \in Nat /\ Base(f) <= Low(f) /\ f.left <= Low(f)
         /\ Low(f) \in {Base(f), f.left}
         /\ f.open = <<>> => Floor(f) = Low(f)
         /\ f.open # <<>> => /\ Last(f.open) \in Nat /\ Last(f.open) > Low(f)
                             /\ Floor(f) = Last(f.open) + 1
         /\ Floor(f) \in Nat /\ Low(f) <= Floor(f) /\ Base(f) <= Floor(f)
         /\ Floor(f) <= f.sp /\ f.sp <= High(f)
<1>1. /\ f.bp \in Nat /\ f.left \in Nat /\ f.open \in Seq(Nat) /\ f.sp \in Nat
      /\ f.kind = "script" \/ f.kind = "user"
  BY DEF FrameRecord
<1>2. Base(f) \in Nat /\ f.bp <= Base(f) /\ (f.kind = "user" => f.bp < Base(f))
  BY <1>1, BaseIs DEF EvaluatesOK, UserOK
<1>3. Operands(f.fn) \in Nat
  BY <1>1, CodeFacts, ScriptRoom DEF EvaluatesOK, UserOK, ScriptOK
<1>4. /\ Low(f) \in Nat /\ Base(f) <= Low(f) /\ f.left <= Low(f)
      /\ Low(f) \in {Base(f), f.left}
  BY <1>1, <1>2, MaxFacts DEF Low
<1>5. f.open = <<>> => Floor(f) = Low(f)
  BY <1>4, MaxFacts DEF Floor, Low, Max2
<1>6. ASSUME f.open # <<>>
      PROVE  Last(f.open) \in Nat /\ Last(f.open) > Low(f) /\ Floor(f) = Last(f.open) + 1
  <2>1. Len(f.open) \in DOMAIN f.open
    BY <1>1, <1>6
  <2>2. Last(f.open) \in Nat /\ Last(f.open) > Low(f)
    BY <1>1, <2>1 DEF EvaluatesOK, OperandsOK, Last
  <2>3. Floor(f) = Max2(Low(f), Last(f.open) + 1)
    BY <1>6 DEF Floor, Low
  <2> QED
    BY <1>4, <2>2, <2>3 DEF Max2
<1>7. Floor(f) \in Nat /\ Low(f) <= Floor(f) /\ Base(f) <= Floor(f)
  BY <1>2, <1>4, <1>5, <1>6
<1>8. Floor(f) <= f.sp /\ f.sp <= High(f) /\ High(f) = Low(f) + Operands(f.fn)
  BY DEF EvaluatesOK, OperandsOK, High
<1> QED
  BY <1>2, <1>3, <1>4, <1>5, <1>6, <1>7, <1>8

(* Code that is evaluated is inside the room made for it, but for what     *)
(* caught errors left.                                                     *)
LEMMA FrameFits ==
  ASSUME NEW f \in FrameRecord, FrameOK(f), f.kind # "native"
  PROVE  f.sp <= f.room + (Low(f) - Base(f)) /\ f.bp <= f.sp
<1>1. /\ f.bp \in Nat /\ f.num_args \in Nat /\ f.phase \in Nat /\ f.sp \in Nat /\ f.room \in Nat
      /\ f.kind \in {"script", "user"} /\ f.body \in BOOLEAN /\ EvaluatesOK(f)
  BY DEF FrameRecord, FrameOK
<1>2. /\ f.bp <= Base(f) /\ Base(f) \in Nat /\ Base(f) <= Floor(f) /\ Floor(f) <= f.sp
      /\ Floor(f) \in Nat /\ f.sp <= Low(f) + Operands(f.fn) /\ Operands(f.fn) \in Nat
      /\ Low(f) \in Nat
  BY <1>1, FrameFacts
<1>3. Base(f) + Operands(f.fn) <= f.room
  <2>1. CASE f.kind = "script"
    <3>1. Base(f) = f.bp /\ f.fn = None /\ f.room >= f.bp + StackSize(None)
      BY <1>1, <2>1, BaseIs DEF EvaluatesOK, ScriptOK
    <3> QED
      BY <1>1, <3>1, ScriptRoom
  <2>2. CASE f.kind = "user"
    <3>1. /\ f.fn \in DOMAIN Code /\ f.phase <= Code[f.fn].params
          /\ f.room >= f.bp + 1 + f.num_args + StackSize(f.fn)
      BY <1>1, <2>2 DEF EvaluatesOK, UserOK
    <3>2. /\ f.body => Base(f) = f.bp + 1 + Max2(f.num_args, Code[f.fn].params)
                                   + Code[f.fn].locals
          /\ ~f.body => Base(f) = f.bp + 1 + Max2(f.num_args, f.phase)
      BY <2>2, <3>1, BaseIs
    <3>3. /\ Code[f.fn].params \in Nat /\ Code[f.fn].locals \in Nat /\ Code[f.fn].operands \in Nat
          /\ Operands(f.fn) = Code[f.fn].operands
          /\ StackSize(f.fn) = Code[f.fn].params + Code[f.fn].locals + Code[f.fn].operands
      BY <3>1, CodeFacts
    <3>4. /\ Max2(f.num_args, Code[f.fn].params) \in {f.num_args, Code[f.fn].params}
          /\ Max2(f.num_args, f.phase) \in {f.num_args, f.phase}
      BY <1>1, <3>3, MaxFacts
    <3>5. Base(f) <= f.bp + 1 + f.num_args + Code[f.fn].params + Code[f.fn].locals
      BY <1>1, <3>1, <3>2, <3>3, <3>4
    <3> QED
      BY <1>1, <1>2, <3>1, <3>3, <3>5
  <2> QED
    BY <1>1, <2>1, <2>2
<1> QED
  BY <1>1, <1>2, <1>3
-----------------------------------------------------------------------------
LEMMA Replaced ==
  ASSUME NEW fs \in Seq(FrameRecord), fs # <<>>, NEW g \in FrameRecord
  PROVE  LET r == Append(Front(fs), g) IN
         /\ r \in Seq(FrameRecord) /\ r # <<>> /\ Len(r) = Len(fs) /\ DOMAIN r = DOMAIN fs
         /\ Last(r) = g /\ r[Len(fs)] = g /\ Len(fs) \in Nat /\ Len(fs) > 0
         /\ \A d \in 1 .. Len(fs) - 1 : r[d] = fs[d]
         /\ Last(fs) \in FrameRecord /\ Last(fs) = fs[Len(fs)] /\ DOMAIN fs = 1 .. Len(fs)
<1> DEFINE r == Append(Front(fs), g)
<1>1. Len(fs) \in Nat /\ Len(fs) > 0 /\ DOMAIN fs = 1 .. Len(fs)
  BY EmptySeq, LenProperties
<1>2. Last(fs) = fs[Len(fs)] /\ Last(fs) \in FrameRecord
  BY <1>1 DEF Last
<1>3. /\ Front(fs) \in Seq(FrameRecord) /\ Len(Front(fs)) = Len(fs) - 1
      /\ \A d \in 1 .. Len(fs) - 1 : Front(fs)[d] = fs[d]
  BY <1>1 DEF Front
<1>4. /\ r \in Seq(FrameRecord) /\ Len(r) = Len(fs) /\ r[Len(fs)] = g
      /\ \A d \in 1 .. Len(fs) - 1 : r[d] = fs[d]
  <2> DEFINE h == Front(fs)
  <2> HIDE DEF h
  <2>1. /\ h \in Seq(FrameRecord) /\ Len(h) = Len(fs) - 1
        /\ \A d \in 1 .. Len(fs) - 1 : h[d] = fs[d]
    BY <1>3 DEF h
  <2>2. /\ Append(h, g) \in Seq(FrameRecord) /\ Len(Append(h, g)) = Len(h) + 1
        /\ Append(h, g)[Len(h) + 1] = g
        /\ \A d \in 1 .. Len(h) : Append(h, g)[d] = h[d]
    BY <2>1, AppendProperties
  <2>3. r = Append(h, g)
    BY DEF h
  <2>4. Len(h) + 1 = Len(fs)
    BY <1>1, <2>1
  <2> HIDE DEF r
  <2>5. r \in Seq(FrameRecord) /\ Len(r) = Len(fs) /\ r[Len(fs)] = g
    BY <2>2, <2>3, <2>4
  <2>6. \A d \in 1 .. Len(fs) - 1 : r[d] = fs[d]
    BY <2>1, <2>2, <2>3
  <2> QED
    BY <2>5, <2>6
<1>5. DOMAIN r = 1 .. Len(fs) /\ r # <<>>
  BY <1>1, <1>4, LenProperties, EmptySeq
<1>6. Last(r) = g
  BY <1>4 DEF Last
<1> QED
  BY <1>1, <1>2, <1>4, <1>5, <1>6

LEMMA Pushed ==
  ASSUME NEW fs \in Seq(FrameRecord), NEW g \in FrameRecord
  PROVE  LET r == Append(fs, g) IN
         /\ r \in Seq(FrameRecord) /\ r # <<>> /\ Len(r) = Len(fs) + 1 /\ Len(fs) \in Nat
         /\ DOMAIN r = DOMAIN fs \cup {Len(fs) + 1} /\ DOMAIN fs = 1 .. Len(fs)
         /\ Last(r) = g /\ r[Len(fs) + 1] = g
         /\ \A d \in DOMAIN fs : r[d] = fs[d]
<1> DEFINE r == Append(fs, g)
<1>1. Len(fs) \in Nat /\ DOMAIN fs = 1 .. Len(fs)
  BY LenProperties
<1>2. /\ r \in Seq(FrameRecord) /\ Len(r) = Len(fs) + 1 /\ r[Len(fs) + 1] = g
      /\ \A d \in 1 .. Len(fs) : r[d] = fs[d]
  BY <1>1, AppendProperties
<1>3. DOMAIN r = 1 .. Len(fs) + 1 /\ r # <<>>
  BY <1>1, <1>2, LenProperties, EmptySeq
<1>4. Last(r) = g
  BY <1>2 DEF Last
<1> QED
  BY <1>1, <1>2, <1>3, <1>4

(* A frame that stays where it is may change.                              *)
LEMMA LinksReplaced ==
  ASSUME NEW fs, Links(fs), fs # <<>>, NEW g \in FrameRecord, FrameOK(g),
         g.kind = Last(fs).kind, g.bp = Last(fs).bp, NEW r, r = Append(Front(fs), g)
  PROVE  /\ Links(r) /\ r # <<>> /\ Last(r) = g
         /\ Evaluators(r) = Evaluators(fs) /\ Len(r) = Len(fs)
<1>0. fs \in Seq(FrameRecord)
  BY DEF Links
<1>1. /\ r \in Seq(FrameRecord) /\ r # <<>> /\ Len(r) = Len(fs) /\ DOMAIN r = DOMAIN fs
      /\ Last(r) = g /\ r[Len(fs)] = g /\ Len(fs) \in Nat /\ Len(fs) > 0
      /\ \A d \in 1 .. Len(fs) - 1 : r[d] = fs[d]
      /\ Last(fs) = fs[Len(fs)] /\ DOMAIN fs = 1 .. Len(fs)
  BY <1>0, Replaced
<1>2. \A d \in DOMAIN fs : FrameOK(r[d])
  BY <1>1 DEF Links
<1>3. \A d \in DOMAIN fs : r[d].kind = fs[d].kind /\ r[d].bp = fs[d].bp
  BY <1>1
<1>4. r[1].kind = "script"
  BY <1>1, <1>3 DEF Links
<1>5. ASSUME NEW d \in DOMAIN fs, d > 1
      PROVE  PairOK(r[d - 1], r[d])
  <2>1. PairOK(fs[d - 1], fs[d]) /\ r[d - 1] = fs[d - 1]
    BY <1>1, <1>5 DEF Links
  <2> QED
    BY <1>3, <2>1 DEF PairOK
<1>6. Links(r)
  BY <1>1, <1>2, <1>4, <1>5 DEF Links
<1>7. Evaluators(r) = Evaluators(fs)
  BY <1>1, <1>3 DEF Evaluators
<1> QED
  BY <1>1, <1>6, <1>7

LEMMA EvaluatorsFinite ==
  ASSUME NEW fs \in Seq(FrameRecord)
  PROVE  IsFiniteSet(Evaluators(fs)) /\ Cardinality(Evaluators(fs)) \in Nat
<1>1. IsFiniteSet(1 .. Len(fs))
  BY FS_Interval
<1>2. Evaluators(fs) \subseteq 1 .. Len(fs)
  BY DEF Evaluators
<1> QED
  BY <1>1, <1>2, FS_Subset, FS_CardinalityType

LEMMA LinksPushed ==
  ASSUME NEW fs, Links(fs), fs # <<>>, NEW g \in FrameRecord, FrameOK(g),
         PairOK(Last(fs), g), NEW r, r = Append(fs, g)
  PROVE  /\ Links(r) /\ r # <<>> /\ Last(r) = g
         /\ Cardinality(Evaluators(r)) = Cardinality(Evaluators(fs))
                                          + (IF g.kind = "native" THEN 0 ELSE 1)
<1>0. fs \in Seq(FrameRecord)
  BY DEF Links
<1>1. /\ r \in Seq(FrameRecord) /\ r # <<>> /\ Len(r) = Len(fs) + 1 /\ Len(fs) \in Nat
      /\ DOMAIN r = DOMAIN fs \cup {Len(fs) + 1} /\ DOMAIN fs = 1 .. Len(fs)
      /\ Last(r) = g /\ r[Len(fs) + 1] = g
      /\ \A d \in DOMAIN fs : r[d] = fs[d]
  BY <1>0, Pushed
<1>2. Len(fs) > 0 /\ Last(fs) = fs[Len(fs)]
  BY <1>0 DEF Last
<1>3. \A d \in DOMAIN r : FrameOK(r[d])
  BY <1>1 DEF Links
<1>4. r[1].kind = "script"
  BY <1>1, <1>2 DEF Links
<1>5. ASSUME NEW d \in DOMAIN r, d > 1
      PROVE  PairOK(r[d - 1], r[d])
  <2>1. CASE d = Len(fs) + 1
    <3>1. d - 1 = Len(fs) /\ Len(fs) \in DOMAIN fs
      BY <1>1, <1>2, <2>1
    <3>2. r[d - 1] = Last(fs) /\ r[d] = g
      BY <1>1, <1>2, <2>1, <3>1
    <3> QED
      BY <3>2
  <2>2. CASE d \in DOMAIN fs
    BY <1>1, <1>5, <2>2 DEF Links
  <2> QED
    BY <1>1, <2>1, <2>2
<1>6. Links(r)
  BY <1>1, <1>3, <1>4, <1>5 DEF Links
<1>7. Evaluators(r) = IF g.kind = "native" THEN Evaluators(fs)
                      ELSE Evaluators(fs) \cup {Len(fs) + 1}
  BY <1>1 DEF Evaluators
<1>8. Len(fs) + 1 \notin Evaluators(fs)
  BY <1>1 DEF Evaluators
<1>9. IsFiniteSet(Evaluators(fs)) /\ Cardinality(Evaluators(fs)) \in Nat
  BY <1>0, EvaluatorsFinite
<1>10. Cardinality(Evaluators(fs) \cup {Len(fs) + 1}) = Cardinality(Evaluators(fs)) + 1
  BY <1>8, <1>9, FS_AddElement
<1> QED
  BY <1>1, <1>6, <1>7, <1>9, <1>10

LEMMA LinksFront ==
  ASSUME NEW fs, Links(fs), fs # <<>>, NEW r, r = Front(fs)
  PROVE  /\ Links(r) /\ r \in Seq(FrameRecord) /\ Len(r) = Len(fs) - 1 /\ Len(fs) \in Nat
         /\ Last(fs) = fs[Len(fs)] /\ FrameOK(Last(fs)) /\ Last(fs) \in FrameRecord
         /\ Cardinality(Evaluators(r)) = Cardinality(Evaluators(fs))
                                          - (IF Last(fs).kind = "native" THEN 0 ELSE 1)
         /\ r = <<>> => Last(fs).kind = "script"
         /\ r # <<>> => Last(r) = fs[Len(fs) - 1] /\ PairOK(Last(r), Last(fs))
<1>0. fs \in Seq(FrameRecord)
  BY DEF Links
<1>1. /\ r \in Seq(FrameRecord) /\ Len(r) = Len(fs) - 1 /\ Len(fs) \in Nat /\ Len(fs) > 0
      /\ DOMAIN fs = 1 .. Len(fs) /\ DOMAIN r = 1 .. Len(fs) - 1
      /\ Last(fs) = fs[Len(fs)] /\ Last(fs) \in FrameRecord
      /\ \A d \in DOMAIN r : r[d] = fs[d]
  <2>1. Len(fs) \in Nat /\ Len(fs) > 0 /\ DOMAIN fs = 1 .. Len(fs)
    BY <1>0, EmptySeq, LenProperties
  <2>2. Last(fs) = fs[Len(fs)] /\ Last(fs) \in FrameRecord
    BY <1>0, <2>1 DEF Last
  <2>3. /\ r \in Seq(FrameRecord) /\ Len(r) = Len(fs) - 1
        /\ \A d \in 1 .. Len(fs) - 1 : r[d] = fs[d]
    BY <1>0, <2>1 DEF Front
  <2> QED
    BY <2>1, <2>2, <2>3, LenProperties
<1>2. Links(r)
  <2>1. \A d \in DOMAIN r : FrameOK(r[d])
    BY <1>1 DEF Links
  <2>2. r # <<>> => r[1].kind = "script"
    BY <1>1 DEF Links
  <2>3. \A d \in DOMAIN r : d > 1 => PairOK(r[d - 1], r[d])
    BY <1>1 DEF Links
  <2> QED
    BY <1>1, <2>1, <2>2, <2>3 DEF Links
<1>3. r = <<>> => Last(fs).kind = "script"
  BY <1>1 DEF Links
<1>4. r # <<>> => Last(r) = fs[Len(fs) - 1] /\ PairOK(Last(r), Last(fs))
  BY <1>1 DEF Links, Last
<1>5. FrameOK(Last(fs))
  BY <1>1 DEF Links
<1>6. Evaluators(fs) = IF Last(fs).kind = "native" THEN Evaluators(r)
                       ELSE Evaluators(r) \cup {Len(fs)}
  BY <1>1 DEF Evaluators
<1>7. Len(fs) \notin Evaluators(r)
  BY <1>1 DEF Evaluators
<1>8. IsFiniteSet(Evaluators(r)) /\ Cardinality(Evaluators(r)) \in Nat
  BY <1>1, EvaluatorsFinite
<1>9. Cardinality(Evaluators(r) \cup {Len(fs)}) = Cardinality(Evaluators(r)) + 1
  BY <1>7, <1>8, FS_AddElement
<1> QED
  BY <1>1, <1>2, <1>3, <1>4, <1>5, <1>6, <1>8, <1>9
-----------------------------------------------------------------------------
(* What an instruction may leave alone of a frame, and what it must.       *)
Same(f, g) ==
  /\ g.kind = f.kind /\ g.fn = f.fn /\ g.bp = f.bp /\ g.num_args = f.num_args
  /\ g.room = f.room /\ g.body = f.body /\ g.phase = f.phase
(* The arguments of f have been evaluated as far as an expression goes.    *)
AtDefault(f) == f.num_args <= f.phase /\ f.phase < Code[f.fn].params

LEMMA SameBase ==
  ASSUME NEW f, NEW g, Same(f, g)
  PROVE  /\ Base(g) = Base(f) /\ Operands(g.fn) = Operands(f.fn)
         /\ g.left = f.left => Low(g) = Low(f) /\ High(g) = High(f)
<1>1. Base(g) = Base(f) /\ Operands(g.fn) = Operands(f.fn)
  BY DEF Same, Base
<1> QED
  BY <1>1 DEF Low, High

LEMMA Retyped ==
  ASSUME NEW f \in FrameRecord, EvaluatesOK(f), f.kind # "native",
         NEW g \in FrameRecord, Same(f, g), OperandsOK(g),
         f.kind = "script" => g.num = f.num,
         f.kind = "user" => g.num <= Code[f.fn].params + Code[f.fn].locals,
         ~f.body => g.tries = 0 /\ (g.sp = f.sp \/ AtDefault(f))
  PROVE  EvaluatesOK(g) /\ FrameOK(g) /\ Base(g) = Base(f)
<1>1. Base(g) = Base(f)
  BY SameBase
<1>2. f.kind = "script" => ScriptOK(g)
  BY DEF EvaluatesOK, ScriptOK, Same
<1>3. ASSUME f.kind = "user" PROVE UserOK(g)
  <2>1. UserOK(f)
    BY <1>3 DEF EvaluatesOK
  <2>2. f.phase \in Nat /\ f.num_args \in Nat /\ Code[f.fn].params \in Nat
    BY <2>1, CodeFacts DEF FrameRecord, UserOK
  <2>3. ASSUME ~g.body, g.num_args > g.phase \/ g.phase = Code[g.fn].params
        PROVE  g.sp = Base(g)
    BY <1>1, <2>1, <2>2, <2>3 DEF UserOK, Same, AtDefault
  <2> QED
    BY <1>3, <2>1, <2>3 DEF UserOK, Same
<1> QED
  BY <1>1, <1>2, <1>3 DEF EvaluatesOK, FrameOK, Same

LEMMA UnfoldOperands ==
  ASSUME NEW f \in FrameRecord, FrameOK(f), f.kind # "native"
  PROVE  EvaluatesOK(f) /\ OperandsOK(f)
BY DEF FrameOK, EvaluatesOK

(* Operands may come and go, above those that are spoken for.              *)
LEMMA Resized ==
  ASSUME NEW f \in FrameRecord, FrameOK(f), f.kind # "native", f.body \/ AtDefault(f),
         NEW n \in Nat, Floor(f) <= n, n <= High(f)
  PROVE  LET g == [f EXCEPT !.sp = n] IN
         /\ g \in FrameRecord /\ FrameOK(g) /\ EvaluatesOK(g) /\ Same(f, g) /\ g.sp = n
         /\ g.tries = f.tries /\ g.open = f.open /\ g.left = f.left /\ g.num = f.num
         /\ Base(g) = Base(f) /\ High(g) = High(f) /\ Floor(g) = Floor(f)
<1> DEFINE g == [f EXCEPT !.sp = n]
<1>1. /\ g \in FrameRecord /\ Same(f, g) /\ g.sp = n
      /\ g.tries = f.tries /\ g.open = f.open /\ g.left = f.left /\ g.num = f.num
  BY DEF FrameRecord, Same
<1> HIDE DEF g
<1>2. /\ Base(g) = Base(f) /\ High(g) = High(f) /\ Floor(g) = Floor(f) /\ Low(g) = Low(f)
      /\ g.fn = f.fn
  BY <1>1, SameBase DEF Floor, Same
<1>3. EvaluatesOK(f) /\ OperandsOK(f)
  BY UnfoldOperands
<1>4. OperandsOK(g)
  BY <1>1, <1>2, <1>3 DEF OperandsOK
<1>5. /\ f.kind = "script" => g.num = f.num
      /\ f.kind = "user" => g.num <= Code[f.fn].params + Code[f.fn].locals
      /\ ~f.body => g.tries = 0
  BY <1>1, <1>3 DEF EvaluatesOK, UserOK, ScriptOK, FrameRecord
<1>6. EvaluatesOK(g) /\ FrameOK(g)
  BY <1>1, <1>3, <1>4, <1>5, Retyped
<1> QED
  BY <1>1, <1>2, <1>6 DEF g

LEMMA FrontFacts ==
  ASSUME NEW s \in Seq(Nat), s # <<>>
  PROVE  /\ Front(s) \in Seq(Nat)
         /\ \A i \in DOMAIN Front(s) : i \in DOMAIN s /\ Front(s)[i] = s[i]
<1>1. Len(s) \in Nat /\ Len(s) > 0
  BY LenProperties, EmptySeq
<1> QED
  BY <1>1 DEF Front

(* A frame that catches an error keeps what there was.                     *)
Catching(f) ==
  [f EXCEPT !.sp = @ + 1, !.tries = @ - 1, !.open = <<>>, !.left = f.sp]
LEMMA CatchingIs ==
  ASSUME NEW f \in FrameRecord, f.tries > 0
  PROVE  LET g == Catching(f) IN
         /\ g \in FrameRecord /\ Same(f, g) /\ g.sp = f.sp + 1 /\ g.tries = f.tries - 1
         /\ g.open = <<>> /\ g.left = f.sp /\ g.num = f.num
<1> DEFINE m == f.tries - 1
           n == f.sp + 1
           h == [f EXCEPT !.sp = n, !.tries = m, !.open = <<>>, !.left = f.sp]
<1>1. Catching(f) = h
  BY DEF Catching
<1>2. m \in Nat /\ n \in Nat /\ f.sp \in Nat /\ <<>> \in Seq(Nat)
  BY DEF FrameRecord
<1> HIDE DEF m, n
<1>3. h \in FrameRecord
  BY <1>2 DEF FrameRecord
<1>4. /\ Same(f, h) /\ h.sp = n /\ h.tries = m /\ h.open = <<>> /\ h.left = f.sp
      /\ h.num = f.num
  BY DEF FrameRecord, Same
<1> HIDE DEF h
<1> QED
  BY <1>1, <1>3, <1>4 DEF m, n

LEMMA Caught ==
  ASSUME NEW f \in FrameRecord, FrameOK(f), f.kind # "native", f.tries > 0
  PROVE  LET g == Catching(f) IN
         g \in FrameRecord /\ FrameOK(g) /\ Same(f, g) /\ g.sp = f.sp + 1
<1> DEFINE g == Catching(f)
<1>1. f.sp \in Nat /\ f.tries \in Nat
  BY DEF FrameRecord
<1>2. EvaluatesOK(f) /\ OperandsOK(f)
  BY UnfoldOperands
<1>3. /\ g \in FrameRecord /\ Same(f, g) /\ g.sp = f.sp + 1 /\ g.tries = f.tries - 1
      /\ g.open = <<>> /\ g.left = f.sp /\ g.num = f.num
  BY CatchingIs
<1> HIDE DEF g
<1>4. /\ Base(g) = Base(f) /\ Operands(g.fn) = Operands(f.fn) /\ Base(f) \in Nat
      /\ Base(f) <= f.sp /\ Operands(f.fn) \in Nat
  <2>1. Base(g) = Base(f) /\ Operands(g.fn) = Operands(f.fn)
    BY <1>3, SameBase
  <2>2. /\ Base(f) \in Nat /\ Base(f) <= Floor(f) /\ Floor(f) <= f.sp /\ Floor(f) \in Nat
        /\ Operands(f.fn) \in Nat
    BY <1>2, FrameFacts
  <2> QED
    BY <1>1, <2>1, <2>2
<1>5. Low(g) = f.sp
  BY <1>1, <1>3, <1>4 DEF Low, Max2
<1>6. Floor(g) = f.sp
  BY <1>1, <1>3, <1>5 DEF Floor, Max2
<1>7. OperandsOK(g)
  <2>1. Operands(f.fn) > 0
    BY <1>2 DEF OperandsOK
  <2>2. Floor(g) <= g.sp /\ g.sp <= High(g) /\ Operands(g.fn) > 0
    BY <1>1, <1>3, <1>4, <1>5, <1>6, <2>1 DEF High
  <2> QED
    BY <1>3, <2>2 DEF OperandsOK
<1>8. f.body
  BY <1>2 DEF EvaluatesOK, UserOK, ScriptOK, FrameRecord
<1>9. /\ f.kind = "script" => g.num = f.num
      /\ f.kind = "user" => g.num <= Code[f.fn].params + Code[f.fn].locals
  BY <1>2, <1>3 DEF EvaluatesOK, UserOK
<1>10. FrameOK(g)
  BY <1>2, <1>3, <1>7, <1>8, <1>9, Retyped
<1> QED
  BY <1>3, <1>10 DEF g
-----------------------------------------------------------------------------
LEMMA OneMore ==
  ASSUME NEW n \in Nat
  PROVE  \A i : i \in 1 .. n + 1 <=> i \in 1 .. n \/ i = n + 1
OBVIOUS

LEMMA FunctionIsSeq ==
  ASSUME NEW T, NEW n \in Nat, NEW f \in [1 .. n -> T]
  PROVE  f \in Seq(T) /\ Len(f) = n
OBVIOUS

LEMMA CutFacts ==
  ASSUME NEW T, NEW s \in Seq(T), NEW n \in Nat, n <= Len(s)
  PROVE  /\ Cut(s, n) \in Seq(T) /\ Len(Cut(s, n)) = n
         /\ \A i \in 1 .. n : Cut(s, n)[i] = s[i]
BY DEF Cut

Memory == Values \cup {Junk}

LEMMA WriteFacts ==
  ASSUME NEW s \in Seq(Memory), NEW i \in Nat, i < Len(s), NEW v \in Memory
  PROVE  LET w == Write(s, i, v) IN
         /\ w \in Seq(Memory) /\ Len(w) = Len(s) /\ w[i + 1] = v
         /\ \A j \in 1 .. Len(s) : j # i + 1 => w[j] = s[j]
<1> DEFINE w == [s EXCEPT ![i + 1] = v]
<1>1. i + 1 \in 1 .. Len(s)
  OBVIOUS
<1>2. w \in Seq(Memory) /\ Len(w) = Len(s)
  BY <1>1, ExceptSeq
<1>3. w[i + 1] = v /\ \A j \in 1 .. Len(s) : j # i + 1 => w[j] = s[j]
  BY <1>1
<1> QED
  BY <1>2, <1>3 DEF Write

LEMMA JoinFacts ==
  ASSUME NEW s \in Seq(Memory), NEW t \in Seq(Memory)
  PROVE  LET w == s \o t IN
         /\ w \in Seq(Memory) /\ Len(w) = Len(s) + Len(t) /\ Len(s) \in Nat /\ Len(t) \in Nat
         /\ \A j \in 1 .. Len(s) : w[j] = s[j]
         /\ \A j \in 1 .. Len(t) : w[Len(s) + j] = t[j]
<1>1. Len(s) \in Nat /\ Len(t) \in Nat
  BY LenProperties
<1>2. s \o t \in Seq(Memory) /\ Len(s \o t) = Len(s) + Len(t)
  BY ConcatProperties
<1>3. \A j \in 1 .. Len(s) + Len(t) :
        (s \o t)[j] = IF j <= Len(s) THEN s[j] ELSE t[j - Len(s)]
  BY <1>1, <1>2, ConcatProperties
<1>4. ASSUME NEW j \in 1 .. Len(s) PROVE (s \o t)[j] = s[j]
  BY <1>1, <1>3
<1>5. ASSUME NEW j \in 1 .. Len(t) PROVE (s \o t)[Len(s) + j] = t[j]
  <2>1. Len(s) + j \in 1 .. Len(s) + Len(t) /\ ~(Len(s) + j <= Len(s)) /\ Len(s) + j - Len(s) = j
    BY <1>1
  <2> QED
    BY <1>3, <2>1
<1> QED
  BY <1>1, <1>2, <1>4, <1>5

LEMMA MethodsApart ==
  /\ Junk \notin Methods /\ Error \notin Methods /\ \A v \in Constants : v \notin Methods
  /\ Constants \subseteq Values /\ Error \in Values /\ Values \subseteq Memory /\ Junk \in Memory
  /\ Data \subseteq Constants /\ Methods \subseteq Values /\ DOMAIN Code \subseteq Values
  /\ Null \in Data /\ None \notin Errors /\ None \notin DOMAIN Code
BY ConstantsAssumption, BoundsAssumption DEF Values, Constants, Memory

LEMMA TracedIs ==
  ASSUME NEW f \in FrameRecord, FrameOK(f), f.kind # "native",
         NEW s \in Seq(Memory), f.sp <= Len(s), NEW e \in Errors
  PROVE  /\ Traced(f, s, e) \in Errors /\ Traced(f, s, e).tb # <<>>
         /\ Traced(f, s, e).value = e.value
<1> DEFINE x == IF f.kind = "script" THEN None ELSE s[f.bp + 1]
           t == <<x>> \o e.tb
<1>1. x \in Memory \cup {None}
  <2>1. CASE f.kind = "script"
    BY <2>1
  <2>2. CASE f.kind = "user"
    <3>1. EvaluatesOK(f)
      BY <2>2 DEF FrameOK
    <3>2. f.bp < Base(f) /\ Base(f) \in Nat /\ Base(f) <= Floor(f) /\ Floor(f) <= f.sp /\ Floor(f) \in Nat
      BY <2>2, <3>1, FrameFacts
    <3>3. f.bp + 1 \in 1 .. Len(s)
      BY <3>2 DEF FrameRecord
    <3> QED
      BY <2>2, <3>3
  <2> QED
    BY <2>1, <2>2 DEF FrameRecord
<1>2. e.tb \in Seq(Memory \cup {None}) /\ e.value \in Values
  BY DEF Errors, Memory
<1> HIDE DEF x
<1>3. t \in Seq(Memory \cup {None}) /\ t # <<>>
  <2>1. <<x>> \in Seq(Memory \cup {None}) /\ Len(<<x>>) = 1
    BY <1>1
  <2>2. t \in Seq(Memory \cup {None}) /\ Len(t) = 1 + Len(e.tb) /\ Len(e.tb) \in Nat
    BY <1>2, <2>1, ConcatProperties, LenProperties
  <2> QED
    BY <2>2, EmptySeq
<1> HIDE DEF t
<1>4. Traced(f, s, e) = [e EXCEPT !.tb = t]
  BY DEF Traced, t, x
<1>5. [e EXCEPT !.tb = t] \in Errors /\ [e EXCEPT !.tb = t].tb = t /\ [e EXCEPT !.tb = t].value = e.value
  BY <1>2, <1>3 DEF Errors, Memory
<1> QED
  BY <1>3, <1>4, <1>5

(* RET_WITH_TRACE from any frame leaves a chain of frames.                 *)
LEMMA Returned ==
  ASSUME NEW fs, Chain(fs), fs # <<>>,
         NEW s \in Seq(Memory), Last(fs).sp <= Len(s),
         NEW e \in Errors, e.value \notin Methods,
         Last(fs).sp > 0 /\ s[1] \in Methods => Last(fs).kind = "script" /\ Last(fs).bp = 0,
         RetWithTrace(fs, s, e)
  PROVE  /\ Chain(frames') /\ SlotsOK(frames', stack', error') /\ ErrorOK(frames', error')
         /\ Evaluators(frames') = Evaluators(fs) /\ frames' # <<>>
<1> DEFINE f == Last(fs)
<1>1. /\ Links(fs) /\ fs \in Seq(FrameRecord) /\ f \in FrameRecord /\ FrameOK(f)
      /\ f.kind # "native" /\ f.sp \in Nat
  BY LinksFront DEF Chain, Links, FrameRecord
<1>0. f.tries = 0 \/ (f.tries > 0 /\ f.tries # 0)
  BY <1>1 DEF FrameRecord
<1>2. CASE f.tries = 0
  <2>1. frames' = fs /\ stack' = Cut(s, f.sp) /\ error' = Traced(f, s, e)
    BY <1>2 DEF RetWithTrace
  <2>2. error' \in Errors /\ error'.tb # <<>> /\ error'.value = e.value /\ error' # None
    BY <1>1, <2>1, TracedIs, MethodsApart
  <2>3. /\ stack' \in Seq(Memory) /\ Len(stack') = f.sp
        /\ \A i \in 1 .. f.sp : stack'[i] = s[i]
    BY <1>1, <2>1, CutFacts
  <2>4. SlotsOK(frames', stack', error')
    <3>1. ASSUME stack' # <<>>, stack'[1] \in Methods
          PROVE  f.kind = "script" /\ f.bp = 0
      <4>1. f.sp > 0
        BY <1>1, <2>3, <3>1, EmptySeq
      <4> QED
        BY <1>1, <2>3, <3>1, <4>1
    <3> QED
      BY <2>1, <2>2, <2>3, <3>1 DEF SlotsOK, Memory
  <2> QED
    BY <2>1, <2>2, <2>4 DEF ErrorOK
<1>3. CASE f.tries > 0 /\ f.tries # 0
  <2> DEFINE g == Catching(f)
             low == [i \in 1 .. f.sp |-> IF i <= Base(f) THEN s[i] ELSE Junk]
  <2>1. frames' = Append(Front(fs), g) /\ stack' = low \o <<e.value>> /\ error' = None
    BY <1>3 DEF RetWithTrace, Catching
  <2>2. g \in FrameRecord /\ FrameOK(g) /\ Same(f, g) /\ g.sp = f.sp + 1
    BY <1>1, <1>3, Caught
  <2> HIDE DEF g
  <2>3. Links(frames') /\ frames' # <<>> /\ Last(frames') = g /\ Evaluators(frames') = Evaluators(fs)
    BY <1>1, <2>1, <2>2, LinksReplaced DEF Same
  <2>4. low \in Seq(Memory) /\ Len(low) = f.sp
    <3>1. ASSUME NEW i \in 1 .. f.sp
          PROVE  (IF i <= Base(f) THEN s[i] ELSE Junk) \in Memory
      <4>1. s[i] \in Memory
        BY <1>1
      <4> QED
        BY <4>1, MethodsApart
    <3>2. low \in [1 .. f.sp -> Memory]
      BY <3>1
    <3> HIDE DEF low
    <3> QED
      BY <1>1, <3>2, FunctionIsSeq
  <2>5. e.value \in Memory
    BY MethodsApart DEF Errors
  <2>6. /\ stack' \in Seq(Memory) /\ Len(stack') = f.sp + 1
        /\ \A i \in 1 .. f.sp : stack'[i] = low[i]
        /\ stack'[f.sp + 1] = e.value
    <3> HIDE DEF low
    <3> DEFINE t == <<e.value>>
               n == f.sp
               w == low \o t
    <3>1. t \in Seq(Memory) /\ Len(t) = 1 /\ t[1] = e.value
      BY <2>5
    <3>2. n \in Nat /\ Len(low) = n /\ low \in Seq(Memory) /\ stack' = w
      BY <1>1, <2>1, <2>4
    <3> HIDE DEF t, n
    <3>3. /\ w \in Seq(Memory) /\ Len(w) = Len(low) + Len(t)
          /\ \A i \in 1 .. Len(low) : w[i] = low[i]
          /\ \A i \in 1 .. Len(t) : w[Len(low) + i] = t[i]
      BY <3>1, <3>2, JoinFacts
    <3> HIDE DEF w
    <3>4. Len(w) = n + 1 /\ w[n + 1] = e.value /\ \A i \in 1 .. n : w[i] = low[i]
      BY <3>1, <3>2, <3>3
    <3> QED
      BY <3>2, <3>3, <3>4 DEF n
  <2>7. stack'[1] \notin Methods
    <3>1. CASE f.sp = 0
      BY <2>6, <3>1
    <3>2. CASE f.sp > 0
      <4>0. 1 \in 1 .. f.sp
        BY <1>1, <3>2
      <4>1. stack'[1] = IF 1 <= Base(f) THEN s[1] ELSE Junk
        BY <2>2, <2>6, <4>0
      <4>2. s[1] \in Methods => Base(f) = 0
        BY <1>1, <3>2, BaseIs
      <4> QED
        BY <4>1, <4>2, MethodsApart
    <3> QED
      BY <1>1, <3>1, <3>2
  <2>8. SlotsOK(frames', stack', error')
    BY <2>2, <2>3, <2>6, <2>7 DEF SlotsOK, Memory
  <2>9. Chain(frames')
    BY <1>1, <2>2, <2>3 DEF Chain, Same
  <2> QED
    BY <2>1, <2>3, <2>8, <2>9 DEF ErrorOK
<1> QED
  BY <1>0, <1>2, <1>3
-----------------------------------------------------------------------------
LEMMA TopFacts ==
  ASSUME IInv, frames # <<>>
  PROVE  /\ Links(frames) /\ frames \in Seq(FrameRecord) /\ Top \in FrameRecord
         /\ FrameOK(Top) /\ EvaluatesOK(Top) /\ OperandsOK(Top)
         /\ Top.kind # "native" /\ Top.kind \in {"script", "user"}
         /\ stack \in Seq(Memory) /\ Len(stack) = Top.sp /\ Top.sp \in Nat
         /\ error = None /\ Top.sp > 0 => stack[1] \notin Methods
         /\ eval_depth = Cardinality(Evaluators(frames)) /\ eval_depth \in Nat
<1>1. Links(frames) /\ frames \in Seq(FrameRecord) /\ Top.kind # "native"
  BY DEF IInv, Chain, Links, Top
<1>2. Top \in FrameRecord /\ FrameOK(Top)
  BY <1>1, LinksFront DEF Top
<1>3. EvaluatesOK(Top) /\ OperandsOK(Top)
  BY <1>1, <1>2, UnfoldOperands
<1>4. stack \in Seq(Memory) /\ Len(stack) = Top.sp
  BY DEF IInv, SlotsOK, Top, Memory
<1>5. Top.sp \in Nat /\ Top.kind \in {"script", "user", "native"}
  BY <1>2 DEF FrameRecord
<1>6. error = None /\ Top.sp > 0 => stack[1] \notin Methods
  BY <1>4, <1>5, EmptySeq DEF IInv, SlotsOK
<1>7. eval_depth = Cardinality(Evaluators(frames)) /\ eval_depth \in Nat
  BY <1>1, EvaluatorsFinite DEF IInv, DepthOK
<1> QED
  BY <1>1, <1>2, <1>3, <1>4, <1>5, <1>6, <1>7

LEMMA MovesKeeps ==
  ASSUME IInv, Running, NEW g \in FrameRecord, FrameOK(g), g.kind = Top.kind, g.bp = Top.bp,
         NEW s \in Seq(Memory), g.sp <= Len(s), g.sp > 0 => s[1] \notin Methods,
         Moves(g, s)
  PROVE  IInv'
<1>1. /\ frames' = Append(Front(frames), g) /\ stack' = Cut(s, g.sp)
      /\ error' = None /\ eval_depth' = eval_depth
  BY DEF Moves, Running
<1>2. frames # <<>> /\ Links(frames) /\ Top.kind # "native" /\ Top = Last(frames)
  BY TopFacts DEF Running, Top
<1>3. /\ Links(frames') /\ frames' # <<>> /\ Last(frames') = g
      /\ Evaluators(frames') = Evaluators(frames)
  BY <1>1, <1>2, LinksReplaced
<1>4. g.sp \in Nat
  BY DEF FrameRecord
<1>5. /\ stack' \in Seq(Memory) /\ Len(stack') = g.sp
      /\ \A i \in 1 .. g.sp : stack'[i] = s[i]
  BY <1>1, <1>4, CutFacts
<1>6. stack' # <<>> => stack'[1] \notin Methods
  <2> SUFFICES ASSUME stack' # <<>> PROVE stack'[1] \notin Methods
    OBVIOUS
  <2>1. g.sp > 0
    BY <1>4, <1>5, EmptySeq
  <2>2. stack'[1] = s[1]
    BY <1>4, <1>5, <2>1
  <2> QED
    BY <2>1, <2>2
<1>7. SlotsOK(frames', stack', error')
  BY <1>3, <1>5, <1>6 DEF SlotsOK, Memory
<1>8. Chain(frames') /\ ErrorOK(frames', error') /\ DepthOK(frames', eval_depth')
  BY <1>1, <1>2, <1>3 DEF Chain, ErrorOK, DepthOK, IInv
<1> QED
  BY <1>7, <1>8 DEF IInv

(* A step that raises an error in the innermost frame, as g.               *)
LEMMA FailKeeps ==
  ASSUME IInv, Running, NEW g \in FrameRecord, FrameOK(g), g.kind = Top.kind, g.bp = Top.bp,
         NEW s \in Seq(Memory), g.sp <= Len(s),
         g.sp > 0 /\ s[1] \in Methods => g.kind = "script" /\ g.bp = 0,
         NEW e \in Errors, e.value \notin Methods,
         RetWithTrace(Append(Front(frames), g), s, e), eval_depth' = eval_depth
  PROVE  IInv'
<1> DEFINE fs == Append(Front(frames), g)
<1>1. frames # <<>> /\ Links(frames) /\ Top.kind # "native" /\ Top = Last(frames)
  BY TopFacts DEF Running, Top
<1>2. Links(fs) /\ fs # <<>> /\ Last(fs) = g /\ Evaluators(fs) = Evaluators(frames)
  BY <1>1, LinksReplaced
<1>3. RetWithTrace(fs, s, e)
  OBVIOUS
<1> HIDE DEF fs
<1>4. Chain(fs)
  BY <1>1, <1>2 DEF Chain
<1>5. /\ Chain(frames') /\ SlotsOK(frames', stack', error') /\ ErrorOK(frames', error')
      /\ Evaluators(frames') = Evaluators(fs)
  BY <1>2, <1>3, <1>4, Returned
<1> QED
  BY <1>2, <1>5 DEF IInv, DepthOK

LEMMA RaisedIs ==
  ASSUME NEW v \in Values, v \notin Methods
  PROVE  Raised(v) \in Errors /\ Raised(v).value \notin Methods
<1>1. <<>> \in Seq(Values \cup {Junk, None})
  OBVIOUS
<1> QED
  BY <1>1 DEF Raised, Errors

LEMMA RefuseKeeps ==
  ASSUME IInv, Running, Refuse
  PROVE  IInv'
<1>1. /\ Top \in FrameRecord /\ FrameOK(Top) /\ EvaluatesOK(Top) /\ Top.kind # "native"
      /\ stack \in Seq(Memory) /\ Len(stack) = Top.sp /\ Top.sp \in Nat
      /\ Top.sp > 0 => stack[1] \notin Methods
      /\ frames \in Seq(FrameRecord) /\ frames # <<>>
  BY TopFacts DEF Running
<1>2. frames = Append(Front(frames), Top)
  BY <1>1 DEF Top, Front, Last
<1>4. Raised(Error) \in Errors /\ Raised(Error).value \notin Methods
  BY RaisedIs, MethodsApart
<1> QED
  <2>1. RetWithTrace(Append(Front(frames), Top), stack, Raised(Error)) /\ eval_depth' = eval_depth
    BY <1>2 DEF Refuse
  <2>2. Top.sp <= Len(stack) /\ (Top.sp > 0 /\ stack[1] \in Methods => Top.kind = "script" /\ Top.bp = 0)
    BY <1>1
  <2> QED
    BY <1>1, <1>4, <2>1, <2>2, FailKeeps

LEMMA ComputingFacts ==
  ASSUME IInv, Computing
  PROVE  Running /\ frames # <<>> /\ error = None /\ (Top.body \/ AtDefault(Top))
BY DEF Computing, Running, AtDefault

LEMMA BodyFacts ==
  ASSUME IInv, InBody
  PROVE  Running /\ frames # <<>> /\ error = None /\ (Top.body \/ AtDefault(Top))
BY DEF InBody, Running

LEMMA PushValueKeeps ==
  ASSUME IInv, Running, Top.body \/ AtDefault(Top), HasRoom(1),
         NEW v \in Memory, Top.sp = 0 => v \notin Methods, PushValue(v)
  PROVE  IInv'
<1>1. /\ Top \in FrameRecord /\ FrameOK(Top) /\ EvaluatesOK(Top) /\ Top.kind # "native"
      /\ stack \in Seq(Memory) /\ Len(stack) = Top.sp /\ Top.sp \in Nat
      /\ Top.sp > 0 => stack[1] \notin Methods
  BY TopFacts DEF Running
<1>2. /\ Base(Top) \in Nat /\ Operands(Top.fn) \in Nat /\ Floor(Top) \in Nat
      /\ High(Top) = Low(Top) + Operands(Top.fn) /\ Floor(Top) <= Top.sp /\ Low(Top) \in Nat
  BY <1>1, FrameFacts
<1> DEFINE g == [Top EXCEPT !.sp = Top.sp + 1]
<1>3. Top.sp + 1 \in Nat /\ Floor(Top) <= Top.sp + 1 /\ Top.sp + 1 <= High(Top)
  BY <1>1, <1>2 DEF HasRoom
<1>4. g \in FrameRecord /\ FrameOK(g) /\ Same(Top, g) /\ g.sp = Top.sp + 1
  BY <1>1, <1>3, Resized
<1>5. Moves(g, Append(stack, v))
  BY DEF PushValue
<1> HIDE DEF g
<1>6. /\ Append(stack, v) \in Seq(Memory) /\ Len(Append(stack, v)) = Top.sp + 1
      /\ Append(stack, v)[1] = IF Top.sp = 0 THEN v ELSE stack[1]
  BY <1>1
<1>7. Append(stack, v)[1] \notin Methods
  BY <1>1, <1>6
<1> QED
  <2>1. g.kind = Top.kind /\ g.bp = Top.bp /\ g.sp <= Len(Append(stack, v))
    BY <1>1, <1>4, <1>6 DEF Same
  <2> QED
    BY <1>4, <1>5, <1>6, <1>7, <2>1, MovesKeeps
-----------------------------------------------------------------------------
LEMMA PushKeeps == ASSUME IInv, NEW v \in Constants, Push(v) PROVE IInv'
<1>1. v \in Memory /\ v \notin Methods
  BY MethodsApart
<1>2. Computing /\ HasRoom(1) /\ PushValue(v)
  BY DEF Push
<1> QED
  BY <1>1, <1>2, ComputingFacts, PushValueKeeps

LEMMA PopKeeps == ASSUME IInv, Pop PROVE IInv'
<1>1. InBody /\ Holds(1) /\ Moves([Top EXCEPT !.sp = Top.sp - 1], stack)
  BY DEF Pop
<1>2. /\ Top \in FrameRecord /\ FrameOK(Top) /\ EvaluatesOK(Top) /\ Top.kind # "native"
      /\ stack \in Seq(Memory) /\ Len(stack) = Top.sp /\ Top.sp \in Nat
      /\ Top.sp > 0 => stack[1] \notin Methods
      /\ Running
  BY <1>1, TopFacts DEF Running, InBody
<1>3. Floor(Top) \in Nat /\ Top.sp <= High(Top) /\ High(Top) \in Nat
  BY <1>2, FrameFacts
<1>4. Top.sp - 1 \in Nat /\ Floor(Top) <= Top.sp - 1 /\ Top.sp - 1 <= High(Top)
  BY <1>1, <1>2, <1>3 DEF Holds
<1> DEFINE g == [Top EXCEPT !.sp = Top.sp - 1]
<1>5. g \in FrameRecord /\ FrameOK(g) /\ Same(Top, g) /\ g.sp = Top.sp - 1
  BY <1>1, <1>2, <1>4, Resized DEF InBody
<1> HIDE DEF g
<1>6. g.sp <= Len(stack) /\ (g.sp > 0 => stack[1] \notin Methods)
  BY <1>2, <1>4, <1>5
<1> QED
  BY <1>1, <1>2, <1>5, <1>6, MovesKeeps DEF Same, g

(* The variables of a function are below its operands.                     *)
LEMMA LocalSlot ==
  ASSUME IInv, InBody, Top.kind = "user", NEW i \in Nat,
         i < Code[Top.fn].params + Code[Top.fn].locals
  PROVE  /\ Top.bp + 1 + i \in Nat /\ Top.bp + 1 + i < Len(stack)
         /\ Slot(Top.bp + 1 + i) \in Memory
<1>1. /\ Top \in FrameRecord /\ FrameOK(Top) /\ EvaluatesOK(Top)
      /\ stack \in Seq(Memory) /\ Len(stack) = Top.sp /\ Top.sp \in Nat /\ Top.body
      /\ Top.bp \in Nat /\ Top.num_args \in Nat
  BY TopFacts DEF Running, InBody, FrameRecord
<1>2. Top.fn \in DOMAIN Code
  BY <1>1 DEF EvaluatesOK, UserOK
<1> DEFINE b == Top.bp
           p == Code[Top.fn].params
           l == Code[Top.fn].locals
           m == Max2(Top.num_args, Code[Top.fn].params)
<1>3. p \in Nat /\ l \in Nat
  BY <1>2, CodeFacts
<1>4. Base(Top) = b + 1 + m + l /\ m >= p /\ m \in Nat
  BY <1>1, <1>2, <1>3, BaseIs, MaxFacts
<1>5. Base(Top) <= Top.sp
  <2>1. Floor(Top) \in Nat /\ Base(Top) <= Floor(Top) /\ Floor(Top) <= Top.sp /\ Base(Top) \in Nat
    BY <1>1, FrameFacts
  <2> QED
    BY <1>1, <2>1
<1>6. b \in Nat /\ i < p + l
  BY <1>1
<1> HIDE DEF b, p, l, m
<1>7. b + 1 + i \in Nat /\ b + 1 + i < Len(stack)
  BY <1>1, <1>3, <1>4, <1>5, <1>6
<1>8. stack[b + 1 + i + 1] \in Memory
  BY <1>1, <1>7
<1> QED
  BY <1>7, <1>8 DEF Slot, b

LEMMA LoadLocalKeeps == ASSUME IInv, LoadLocal PROVE IInv'
<1>1. InBody /\ HasRoom(1)
  BY DEF LoadLocal
<1>2. PICK i \in 0 .. Top.num - 1 : PushValue(Slot(Top.bp + 1 + i))
  BY DEF LoadLocal
<1>3. /\ Top \in FrameRecord /\ EvaluatesOK(Top) /\ Top.kind \in {"script", "user"}
      /\ Len(stack) = Top.sp /\ Top.num \in Nat
  BY <1>1, TopFacts DEF Running, InBody, FrameRecord
<1>4. Top.kind = "user"
  BY <1>2, <1>3 DEF EvaluatesOK, ScriptOK
<1>5. Top.fn \in DOMAIN Code /\ Top.num <= Code[Top.fn].params + Code[Top.fn].locals
  BY <1>3, <1>4 DEF EvaluatesOK, UserOK
<1>6. Code[Top.fn].params \in Nat /\ Code[Top.fn].locals \in Nat
  BY <1>5, CodeFacts
<1>7. i \in Nat /\ i < Code[Top.fn].params + Code[Top.fn].locals
  BY <1>2, <1>3, <1>5, <1>6
<1>8. Slot(Top.bp + 1 + i) \in Memory /\ Top.sp # 0
  BY <1>1, <1>3, <1>4, <1>7, LocalSlot
<1> QED
  BY <1>1, <1>2, <1>8, BodyFacts, PushValueKeeps
-----------------------------------------------------------------------------
LEMMA SameFloor ==
  ASSUME NEW f, NEW g, Same(f, g), g.left = f.left, g.open = f.open
  PROVE  Floor(g) = Floor(f) /\ Low(g) = Low(f)
BY SameBase DEF Floor, Low

LEMMA OperandFacts ==
  ASSUME IInv, Running, Holds(1)
  PROVE  /\ Operand \in Memory /\ Top.sp > 0 /\ Top.sp - 1 \in Nat
         /\ Floor(Top) \in Nat /\ Floor(Top) <= Top.sp - 1 /\ Top.sp - 1 <= High(Top)
         /\ Operand = stack[Top.sp]
<1>1. /\ Top \in FrameRecord /\ FrameOK(Top) /\ EvaluatesOK(Top) /\ Top.kind # "native"
      /\ stack \in Seq(Memory) /\ Len(stack) = Top.sp /\ Top.sp \in Nat
  BY TopFacts DEF Running
<1>2. Floor(Top) \in Nat /\ Top.sp <= High(Top) /\ High(Top) \in Nat
  BY <1>1, FrameFacts
<1>3. Top.sp > 0 /\ Floor(Top) <= Top.sp - 1
  BY <1>1, <1>2 DEF Holds
<1>4. stack[Top.sp] \in Memory
  BY <1>1, <1>3
<1>5. Operand = stack[Top.sp]
  BY <1>1 DEF Operand, Slot
<1> QED
  BY <1>1, <1>2, <1>3, <1>4, <1>5

LEMMA StoreLocalKeeps == ASSUME IInv, StoreLocal PROVE IInv'
<1>1. InBody /\ Top.kind = "user" /\ HasData /\ Running /\ Holds(1)
  BY DEF StoreLocal, InBody, HasData
<1> DEFINE last == Min2(Top.num, Code[Top.fn].params + Code[Top.fn].locals - 1)
<1>2. PICK i \in 0 .. last :
        Moves([Top EXCEPT !.num = Max2(Top.num, i + 1)], Write(stack, Top.bp + 1 + i, Operand))
  BY DEF StoreLocal
<1>3. /\ Top \in FrameRecord /\ FrameOK(Top) /\ EvaluatesOK(Top) /\ OperandsOK(Top)
      /\ Top.kind # "native" /\ Top.body
      /\ stack \in Seq(Memory) /\ Len(stack) = Top.sp /\ Top.num \in Nat /\ Top.bp \in Nat
      /\ Top.sp > 0 => stack[1] \notin Methods
  BY <1>1, TopFacts DEF Running, InBody, FrameRecord
<1>4. Top.fn \in DOMAIN Code /\ Top.num <= Code[Top.fn].params + Code[Top.fn].locals
  BY <1>1, <1>3 DEF EvaluatesOK, UserOK
<1>5. Code[Top.fn].params \in Nat /\ Code[Top.fn].locals \in Nat
  BY <1>4, CodeFacts
<1>6. last \in Int /\ last <= Code[Top.fn].params + Code[Top.fn].locals - 1
  <2> DEFINE q == Code[Top.fn].params + Code[Top.fn].locals - 1
             n == Top.num
  <2>1. q \in Int /\ n \in Int /\ last = Min2(n, q)
    BY <1>3, <1>5
  <2> HIDE DEF q, n, last
  <2>2. last \in Int /\ last <= q
    BY <2>1, MinFacts
  <2> QED
    BY <2>2 DEF q
<1> HIDE DEF last
<1>7. i \in Nat /\ i < Code[Top.fn].params + Code[Top.fn].locals
  BY <1>2, <1>5, <1>6
<1>8. Top.bp + 1 + i \in Nat /\ Top.bp + 1 + i < Len(stack)
  BY <1>1, <1>7, LocalSlot
<1> DEFINE n == Max2(Top.num, i + 1)
           g == [Top EXCEPT !.num = n]
           s == Write(stack, Top.bp + 1 + i, Operand)
<1>9. n \in Nat /\ n <= Code[Top.fn].params + Code[Top.fn].locals
  BY <1>3, <1>4, <1>5, <1>7 DEF Max2
<1>10. Operand \in Memory /\ Top.sp > 0
  BY <1>1, OperandFacts
<1>11. s \in Seq(Memory) /\ Len(s) = Len(stack) /\ \A j \in 1 .. Len(stack) : j # Top.bp + 1 + i + 1 => s[j] = stack[j]
  <2> DEFINE k == Top.bp + 1 + i
  <2>1. k \in Nat /\ k < Len(stack) /\ s = Write(stack, k, Operand)
    BY <1>8
  <2> HIDE DEF k, s
  <2>2. /\ s \in Seq(Memory) /\ Len(s) = Len(stack)
        /\ \A j \in 1 .. Len(stack) : j # k + 1 => s[j] = stack[j]
    <3>1. stack \in Seq(Memory) /\ Operand \in Memory
      BY <1>3, <1>10
    <3> HIDE DEF s
    <3>2. LET w == Write(stack, k, Operand) IN
          /\ w \in Seq(Memory) /\ Len(w) = Len(stack)
          /\ \A j \in 1 .. Len(stack) : j # k + 1 => w[j] = stack[j]
      BY <2>1, <3>1, WriteFacts
    <3> QED
      BY <2>1, <3>2
  <2> QED
    BY <2>2 DEF k
<1>12. s[1] \notin Methods
  <2>1. 1 # Top.bp + 1 + i + 1 /\ 1 \in 1 .. Len(stack)
    BY <1>3, <1>7, <1>8
  <2> QED
    BY <1>3, <1>10, <1>11, <2>1
<1> HIDE DEF n, s
<1>13. /\ g \in FrameRecord /\ Same(Top, g) /\ g.num = n /\ g.sp = Top.sp
       /\ g.tries = Top.tries /\ g.open = Top.open /\ g.left = Top.left
  BY <1>3, <1>9 DEF FrameRecord, Same
<1>14. Moves(g, s)
  BY <1>2 DEF n, s
<1> HIDE DEF g
<1>15. OperandsOK(g)
  BY <1>3, <1>13, SameBase, SameFloor DEF OperandsOK
<1>16. FrameOK(g)
  BY <1>1, <1>3, <1>9, <1>13, <1>15, Retyped
<1>17. g.kind = Top.kind /\ g.bp = Top.bp /\ g.sp <= Len(s)
  <2>1. Top.sp \in Nat
    BY <1>3 DEF FrameRecord
  <2> QED
    BY <1>3, <1>11, <1>13, <2>1 DEF Same
<1> QED
  BY <1>1, <1>11, <1>12, <1>13, <1>14, <1>16, <1>17, MovesKeeps

LEMMA LoadThisKeeps == ASSUME IInv, LoadThis PROVE IInv'
<1>1. InBody /\ HasRoom(1) /\ Top.fn \in Methods /\ PushValue(Slot(Top.bp - 1))
  BY DEF LoadThis
<1>2. /\ Top \in FrameRecord /\ EvaluatesOK(Top) /\ Top.kind \in {"script", "user"}
      /\ stack \in Seq(Memory) /\ Len(stack) = Top.sp /\ Top.sp \in Nat /\ Top.bp \in Nat
  BY <1>1, TopFacts DEF Running, InBody, FrameRecord
<1>3. Top.fn # None
  BY <1>1, MethodsApart, ConstantsAssumption
<1>4. Top.bp > 0
  BY <1>1, <1>2, <1>3 DEF EvaluatesOK, UserOK, ScriptOK
<1>5. Top.bp <= Top.sp
  <2>1. /\ Floor(Top) \in Nat /\ Base(Top) <= Floor(Top) /\ Floor(Top) <= Top.sp
        /\ Base(Top) \in Nat /\ Top.bp <= Base(Top)
    BY <1>2, FrameFacts
  <2> QED
    BY <1>2, <2>1
<1>6. Slot(Top.bp - 1) \in Memory /\ Top.sp # 0
  <2>1. Top.bp - 1 + 1 = Top.bp /\ Top.bp \in 1 .. Len(stack)
    BY <1>2, <1>4, <1>5
  <2> QED
    BY <1>2, <2>1 DEF Slot
<1> QED
  BY <1>1, <1>6, BodyFacts, PushValueKeeps
-----------------------------------------------------------------------------
(* A function with no operand on the stack.                                *)
LEMMA NoOperand ==
  ASSUME NEW g \in FrameRecord, g.kind = "user", UserOK(g), g.sp = Base(g),
         g.open = <<>>, g.left <= Base(g), g.tries = 0
  PROVE  FrameOK(g) /\ EvaluatesOK(g)
<1>1. g.fn \in DOMAIN Code /\ g.left \in Nat
  BY DEF UserOK, FrameRecord
<1>2. Base(g) \in Nat /\ Operands(g.fn) \in Nat
  BY <1>1, BaseIs, CodeFacts
<1>3. Low(g) = Base(g) /\ Floor(g) = Base(g)
  BY <1>1, <1>2 DEF Low, Floor, Max2
<1>4. OperandsOK(g)
  BY <1>1, <1>2, <1>3 DEF OperandsOK, High
<1> QED
  BY <1>4 DEF FrameOK, EvaluatesOK

LEMMA AtBase ==
  ASSUME NEW f \in FrameRecord, EvaluatesOK(f), f.kind # "native", Floor(f) <= Base(f)
  PROVE  f.open = <<>> /\ f.left <= Base(f)
<1>1. /\ Base(f) \in Nat /\ Low(f) \in Nat /\ Floor(f) \in Nat /\ Base(f) <= Low(f)
      /\ f.left <= Low(f) /\ Low(f) <= Floor(f)
      /\ f.open # <<>> => Last(f.open) \in Nat /\ Last(f.open) > Low(f)
                          /\ Floor(f) = Last(f.open) + 1
  BY FrameFacts
<1>2. f.left \in Nat
  BY DEF FrameRecord
<1> QED
  BY <1>1, <1>2

(* The arguments are there, or given their defaults, one by one.           *)
LEMMA NextDefault ==
  ASSUME NEW f \in FrameRecord, FrameOK(f), f.kind = "user", ~f.body,
         f.phase < Code[f.fn].params,
         f.num_args <= f.phase => f.sp = Base(f) + 1 /\ Floor(f) <= Base(f)
  PROVE  LET g == [f EXCEPT !.phase = f.phase + 1] IN
         g \in FrameRecord /\ FrameOK(g) /\ g.kind = f.kind /\ g.bp = f.bp /\ g.sp = f.sp
<1> DEFINE g == [f EXCEPT !.phase = f.phase + 1]
<1>1. f.phase + 1 \in Nat /\ f.phase \in Nat /\ f.num_args \in Nat /\ f.bp \in Nat /\ f.sp \in Nat
  BY DEF FrameRecord
<1>2. g \in FrameRecord
  BY <1>1 DEF FrameRecord
<1>3. /\ g.kind = f.kind /\ g.fn = f.fn /\ g.bp = f.bp /\ g.num_args = f.num_args
      /\ g.room = f.room /\ g.body = f.body /\ g.phase = f.phase + 1 /\ g.sp = f.sp
      /\ g.num = f.num /\ g.tries = f.tries /\ g.open = f.open /\ g.left = f.left
  BY DEF FrameRecord
<1> HIDE DEF g
<1>4. EvaluatesOK(f) /\ UserOK(f)
  BY DEF FrameOK, EvaluatesOK
<1>5. f.fn \in DOMAIN Code /\ Code[f.fn].params \in Nat
  BY <1>4, CodeFacts DEF UserOK
<1>6. Base(f) = f.bp + 1 + Max2(f.num_args, f.phase) /\ Base(g) = f.bp + 1 + Max2(f.num_args, f.phase + 1)
  BY <1>2, <1>3, <1>5, BaseIs
<1>7. f.num_args > f.phase => Base(g) = Base(f) /\ f.sp = Base(f)
  BY <1>1, <1>4, <1>6 DEF Max2, UserOK
<1>8. f.num_args <= f.phase => Base(g) = Base(f) + 1 /\ f.sp = Base(g)
  BY <1>1, <1>6 DEF Max2
<1>9. Base(f) \in Nat /\ Floor(f) \in Nat /\ Floor(f) <= f.sp
  BY <1>4, FrameFacts
<1>10. Floor(f) <= Base(f) /\ g.sp = Base(g) /\ Base(f) <= Base(g) /\ Base(g) \in Nat
  BY <1>1, <1>3, <1>7, <1>8, <1>9
<1>11. f.open = <<>> /\ f.left <= Base(f) /\ f.left \in Nat
  BY <1>4, <1>10, AtBase DEF FrameRecord
<1>12. UserOK(g)
  BY <1>1, <1>3, <1>4, <1>5, <1>10 DEF UserOK
<1>13. g.open = <<>> /\ g.left <= Base(g) /\ g.tries = 0
  BY <1>3, <1>4, <1>9, <1>10, <1>11 DEF UserOK
<1>14. FrameOK(g)
  BY <1>2, <1>3, <1>10, <1>12, <1>13, NoOperand
<1> QED
  BY <1>2, <1>3, <1>14 DEF g

LEMMA ApplyDefaultArgKeeps == ASSUME IInv, ApplyDefaultArg PROVE IInv'
<1> DEFINE g == [Top EXCEPT !.phase = Top.phase + 1]
<1>1. /\ Running /\ ~Top.body /\ Top.phase < Code[Top.fn].params
      /\ Top.num_args <= Top.phase => Top.sp = Base(Top) + 1 /\ HasData
      /\ Moves(g, stack)
  BY DEF ApplyDefaultArg
<1>2. /\ Top \in FrameRecord /\ FrameOK(Top) /\ EvaluatesOK(Top) /\ Top.kind \in {"script", "user"}
      /\ stack \in Seq(Memory) /\ Len(stack) = Top.sp /\ Top.sp \in Nat
      /\ Top.sp > 0 => stack[1] \notin Methods
  BY <1>1, TopFacts DEF Running
<1>3. Top.kind = "user"
  BY <1>1, <1>2 DEF EvaluatesOK, ScriptOK
<1>4. Top.num_args <= Top.phase => Floor(Top) <= Base(Top)
  <2>1. Base(Top) \in Nat /\ Floor(Top) \in Nat
    BY <1>2, FrameFacts
  <2> QED
    BY <1>1, <2>1 DEF HasData, Holds
<1>5. g \in FrameRecord /\ FrameOK(g) /\ g.kind = Top.kind /\ g.bp = Top.bp /\ g.sp = Top.sp
  BY <1>1, <1>2, <1>3, <1>4, NextDefault
<1> HIDE DEF g
<1> QED
  BY <1>1, <1>2, <1>5, MovesKeeps

LEMMA BodyBegins ==
  ASSUME NEW f \in FrameRecord, FrameOK(f), f.kind = "user", ~f.body,
         f.phase = Code[f.fn].params, NEW n, n = f.sp + Code[f.fn].locals
  PROVE  LET g == [f EXCEPT !.body = TRUE, !.sp = n] IN
         /\ g \in FrameRecord /\ FrameOK(g) /\ g.kind = f.kind /\ g.bp = f.bp /\ g.sp = n
         /\ n \in Nat /\ f.sp > 0
<1> DEFINE g == [f EXCEPT !.body = TRUE, !.sp = n]
<1>1. f.phase \in Nat /\ f.num_args \in Nat /\ f.bp \in Nat /\ f.sp \in Nat
  BY DEF FrameRecord
<1>2. EvaluatesOK(f) /\ UserOK(f)
  BY DEF FrameOK, EvaluatesOK
<1>3. f.fn \in DOMAIN Code /\ Code[f.fn].params \in Nat /\ Code[f.fn].locals \in Nat
  BY <1>2, CodeFacts DEF UserOK
<1>4. n \in Nat
  BY <1>1, <1>3
<1>5. g \in FrameRecord
  BY <1>4 DEF FrameRecord
<1>6. /\ g.kind = f.kind /\ g.fn = f.fn /\ g.bp = f.bp /\ g.num_args = f.num_args
      /\ g.room = f.room /\ g.body /\ g.phase = f.phase /\ g.sp = n
      /\ g.num = f.num /\ g.tries = f.tries /\ g.open = f.open /\ g.left = f.left
  BY DEF FrameRecord
<1> HIDE DEF g
<1>7. f.sp = Base(f)
  BY <1>2 DEF UserOK
<1>8. Base(f) = f.bp + 1 + Max2(f.num_args, f.phase) /\ Base(f) \in Nat /\ f.bp < Base(f)
  BY <1>3, BaseIs
<1>9. Base(g) = f.bp + 1 + Max2(f.num_args, Code[f.fn].params) + Code[f.fn].locals
  BY <1>3, <1>5, <1>6, BaseIs
<1>10. Base(g) = Base(f) + Code[f.fn].locals
  BY <1>8, <1>9
<1>11. Floor(f) \in Nat /\ Floor(f) <= f.sp
  BY <1>2, FrameFacts
<1>12. f.open = <<>> /\ f.left <= Base(f) /\ f.left \in Nat
  BY <1>2, <1>7, <1>11, AtBase DEF FrameRecord
<1>13. UserOK(g)
  BY <1>2, <1>6 DEF UserOK
<1>14. g.sp = Base(g) /\ g.open = <<>> /\ g.left <= Base(g) /\ g.tries = 0
  BY <1>2, <1>3, <1>6, <1>7, <1>8, <1>10, <1>12 DEF UserOK
<1>15. FrameOK(g)
  BY <1>5, <1>6, <1>13, <1>14, NoOperand
<1> QED
  BY <1>1, <1>4, <1>5, <1>6, <1>7, <1>8, <1>15 DEF g

LEMMA AllocateLocalsKeeps == ASSUME IInv, AllocateLocals PROVE IInv'
<1> DEFINE l == Code[Top.fn].locals
           n == Top.sp + l
           g == [Top EXCEPT !.body = TRUE, !.sp = n]
           new == [i \in 1 .. l |-> Null]
<1>1. /\ Running /\ ~Top.body /\ Top.phase = Code[Top.fn].params
      /\ Moves(g, stack \o new)
  BY DEF AllocateLocals
<1>2. /\ Top \in FrameRecord /\ FrameOK(Top) /\ EvaluatesOK(Top) /\ Top.kind \in {"script", "user"}
      /\ stack \in Seq(Memory) /\ Len(stack) = Top.sp /\ Top.sp \in Nat
      /\ Top.sp > 0 => stack[1] \notin Methods
  BY <1>1, TopFacts DEF Running
<1>3. Top.kind = "user"
  BY <1>1, <1>2 DEF EvaluatesOK, ScriptOK
<1>4. l \in Nat
  BY <1>2, <1>3, CodeFacts DEF EvaluatesOK, UserOK
<1>5. /\ g \in FrameRecord /\ FrameOK(g) /\ g.kind = Top.kind /\ g.bp = Top.bp /\ g.sp = n
      /\ n \in Nat /\ Top.sp > 0
  BY <1>1, <1>2, <1>3, BodyBegins
<1>6. new \in Seq(Memory) /\ Len(new) = l
  <2>1. new \in [1 .. l -> Memory]
    BY MethodsApart
  <2> HIDE DEF new, l
  <2> QED
    BY <1>4, <2>1, FunctionIsSeq
<1> HIDE DEF g, new, l
<1>7. /\ stack \o new \in Seq(Memory) /\ Len(stack \o new) = Top.sp + l
      /\ (stack \o new)[1] = stack[1]
  <2>1. 1 \in 1 .. Len(stack)
    BY <1>2, <1>5
  <2> QED
    <3>1. stack \in Seq(Memory) /\ new \in Seq(Memory)
      BY <1>2, <1>6
    <3>2. /\ stack \o new \in Seq(Memory) /\ Len(stack \o new) = Len(stack) + Len(new)
          /\ \A j \in 1 .. Len(stack) : (stack \o new)[j] = stack[j]
      BY <3>1, JoinFacts
    <3> QED
      BY <1>2, <1>6, <2>1, <3>2
<1>8. g.sp <= Len(stack \o new) /\ (g.sp > 0 => (stack \o new)[1] \notin Methods)
  BY <1>2, <1>4, <1>5, <1>7
<1> HIDE DEF n
<1> QED
  BY <1>1, <1>5, <1>7, <1>8, MovesKeeps
-----------------------------------------------------------------------------
(* A try statement begins or ends where no operand is on the stack.        *)
LEMMA Retried ==
  ASSUME NEW f \in FrameRecord, FrameOK(f), f.kind # "native", f.body,
         NEW n \in Nat, n > 0 => Operands(f.fn) > 0
  PROVE  LET g == [f EXCEPT !.tries = n] IN
         g \in FrameRecord /\ FrameOK(g) /\ g.kind = f.kind /\ g.bp = f.bp /\ g.sp = f.sp
<1> DEFINE g == [f EXCEPT !.tries = n]
<1>1. EvaluatesOK(f) /\ OperandsOK(f)
  BY UnfoldOperands
<1>2. /\ g \in FrameRecord /\ Same(f, g) /\ g.num = f.num /\ g.sp = f.sp
      /\ g.tries = n /\ g.open = f.open /\ g.left = f.left
  BY DEF FrameRecord, Same
<1> HIDE DEF g
<1>3. /\ High(g) = High(f) /\ Floor(g) = Floor(f) /\ Low(g) = Low(f)
      /\ Operands(g.fn) = Operands(f.fn)
  BY <1>2, SameBase, SameFloor
<1>4. OperandsOK(g)
  BY <1>1, <1>2, <1>3 DEF OperandsOK
<1>5. /\ f.kind = "script" => g.num = f.num
      /\ f.kind = "user" => g.num <= Code[f.fn].params + Code[f.fn].locals
  BY <1>1, <1>2 DEF EvaluatesOK, UserOK
<1>6. FrameOK(g)
  BY <1>1, <1>2, <1>4, <1>5, Retyped
<1> QED
  BY <1>2, <1>6 DEF g, Same

LEMMA StatementFacts ==
  ASSUME IInv, Statement
  PROVE  /\ Running /\ Top \in FrameRecord /\ FrameOK(Top) /\ EvaluatesOK(Top) /\ OperandsOK(Top)
         /\ Top.kind # "native" /\ Top.body /\ Top.tries \in Nat /\ Top.sp = Floor(Top)
         /\ stack \in Seq(Memory) /\ Len(stack) = Top.sp /\ Top.sp \in Nat
         /\ Top.sp > 0 => stack[1] \notin Methods
         /\ Top.sp = Low(Top) /\ Operands(Top.fn) \in Nat
<1>1. /\ Running /\ Top \in FrameRecord /\ FrameOK(Top) /\ EvaluatesOK(Top) /\ OperandsOK(Top)
      /\ Top.kind # "native" /\ Top.body /\ Top.tries \in Nat
      /\ Top.sp = Floor(Top) /\ Top.open = <<>>
      /\ stack \in Seq(Memory) /\ Len(stack) = Top.sp /\ Top.sp \in Nat
      /\ Top.sp > 0 => stack[1] \notin Methods
  BY TopFacts DEF Statement, InBody, Running, FrameRecord
<1>2. Operands(Top.fn) \in Nat /\ Floor(Top) = Low(Top)
  BY <1>1, FrameFacts
<1> QED
  BY <1>1, <1>2

LEMMA PushTryKeeps == ASSUME IInv, PushTry PROVE IInv'
<1> DEFINE n == Top.tries + 1
           g == [Top EXCEPT !.tries = n]
<1>1. Statement /\ HasRoom(1) /\ Moves(g, stack)
  BY DEF PushTry
<1>2. /\ Running /\ Top \in FrameRecord /\ FrameOK(Top)
      /\ Top.kind # "native" /\ Top.body /\ Top.tries \in Nat
      /\ stack \in Seq(Memory) /\ Len(stack) = Top.sp /\ Top.sp \in Nat
      /\ Top.sp > 0 => stack[1] \notin Methods
      /\ Top.sp = Low(Top) /\ Operands(Top.fn) \in Nat
  BY <1>1, StatementFacts
<1>3. n \in Nat /\ Operands(Top.fn) > 0
  BY <1>1, <1>2 DEF HasRoom
<1> HIDE DEF n
<1>4. g \in FrameRecord /\ FrameOK(g) /\ g.kind = Top.kind /\ g.bp = Top.bp /\ g.sp = Top.sp
  BY <1>2, <1>3, Retried
<1> HIDE DEF g
<1> QED
  BY <1>1, <1>2, <1>4, MovesKeeps

LEMMA PopTryKeeps == ASSUME IInv, PopTry PROVE IInv'
<1> DEFINE n == Top.tries - 1
           g == [Top EXCEPT !.tries = n]
<1>1. Statement /\ Top.tries > 0 /\ Moves(g, stack)
  BY DEF PopTry
<1>2. /\ Running /\ Top \in FrameRecord /\ FrameOK(Top) /\ OperandsOK(Top)
      /\ Top.kind # "native" /\ Top.body /\ Top.tries \in Nat
      /\ stack \in Seq(Memory) /\ Len(stack) = Top.sp /\ Top.sp \in Nat
      /\ Top.sp > 0 => stack[1] \notin Methods
  BY <1>1, StatementFacts
<1>3. n \in Nat /\ Operands(Top.fn) > 0
  BY <1>1, <1>2 DEF OperandsOK
<1> HIDE DEF n
<1>4. g \in FrameRecord /\ FrameOK(g) /\ g.kind = Top.kind /\ g.bp = Top.bp /\ g.sp = Top.sp
  BY <1>2, <1>3, Retried
<1> HIDE DEF g
<1> QED
  BY <1>1, <1>2, <1>4, MovesKeeps

LEMMA ThrowKeeps == ASSUME IInv, Throw PROVE IInv'
<1> DEFINE n == Top.sp - 1
           g == [Top EXCEPT !.sp = n]
<1>1. /\ InBody /\ Running /\ Holds(1) /\ Operand \in Data \cup {Error} /\ Top.body
      /\ RetWithTrace(Append(Front(frames), g), stack, Raised(Operand))
      /\ eval_depth' = eval_depth
  BY DEF Throw, InBody, HasData
<1>2. /\ Top \in FrameRecord /\ FrameOK(Top) /\ EvaluatesOK(Top) /\ Top.kind # "native"
      /\ stack \in Seq(Memory) /\ Len(stack) = Top.sp /\ Top.sp \in Nat
      /\ Top.sp > 0 => stack[1] \notin Methods
  BY <1>1, TopFacts DEF Running
<1>3. /\ Floor(Top) \in Nat /\ Floor(Top) <= n /\ n <= High(Top) /\ n \in Nat
  BY <1>1, OperandFacts
<1>4. n <= High(Top) /\ n <= Top.sp
  <2>1. High(Top) \in Nat
    BY <1>2, FrameFacts
  <2> QED
    BY <1>2, <1>3, <2>1
<1> HIDE DEF n
<1>5. g \in FrameRecord /\ FrameOK(g) /\ Same(Top, g) /\ g.sp = n
  BY <1>1, <1>2, <1>3, <1>4, Resized
<1> HIDE DEF g
<1>6. Raised(Operand) \in Errors /\ Raised(Operand).value \notin Methods
  <2>1. Operand \in Values /\ Operand \notin Methods
    BY <1>1, MethodsApart
  <2> QED
    BY <2>1, RaisedIs
<1>7. g.sp <= Len(stack) /\ g.kind = Top.kind /\ g.bp = Top.bp
  BY <1>2, <1>3, <1>4, <1>5 DEF Same
<1>8. g.sp > 0 => stack[1] \notin Methods
  BY <1>2, <1>3, <1>4, <1>5
<1> QED
  BY <1>1, <1>2, <1>5, <1>6, <1>7, <1>8, FailKeeps

(* A method is loaded above its receiver.                                  *)
LEMMA Opened ==
  ASSUME NEW f \in FrameRecord, FrameOK(f), f.kind # "native", f.body \/ AtDefault(f),
         Floor(f) < f.sp, f.sp + 1 <= High(f)
  PROVE  LET g == [f EXCEPT !.sp = f.sp + 1, !.open = Append(f.open, f.sp)] IN
         g \in FrameRecord /\ FrameOK(g) /\ g.kind = f.kind /\ g.bp = f.bp /\ g.sp = f.sp + 1
<1> DEFINE os == Append(f.open, f.sp)
           n == f.sp + 1
           g == [f EXCEPT !.sp = n, !.open = os]
<1>1. f.sp \in Nat /\ f.open \in Seq(Nat) /\ n \in Nat
  BY DEF FrameRecord
<1>2. EvaluatesOK(f) /\ OperandsOK(f)
  BY UnfoldOperands
<1>3. /\ os \in Seq(Nat) /\ Len(os) = Len(f.open) + 1 /\ Len(f.open) \in Nat
      /\ os[Len(f.open) + 1] = f.sp /\ os # <<>> /\ DOMAIN os = 1 .. Len(f.open) + 1
      /\ \A i \in 1 .. Len(f.open) : os[i] = f.open[i] /\ i \in DOMAIN f.open /\ os[i] \in Nat
  <2>1. /\ os \in Seq(Nat) /\ Len(os) = Len(f.open) + 1 /\ Len(f.open) \in Nat
        /\ os[Len(f.open) + 1] = f.sp
        /\ \A i \in 1 .. Len(f.open) : os[i] = f.open[i]
    BY <1>1, AppendProperties, LenProperties
  <2>2. os # <<>> /\ DOMAIN os = 1 .. Len(f.open) + 1
    BY <2>1, LenProperties, EmptySeq
  <2> QED
    BY <1>1, <2>1, <2>2
<1>4. Last(os) = f.sp
  BY <1>3 DEF Last
<1> HIDE DEF os, n
<1>5. /\ g \in FrameRecord /\ Same(f, g) /\ g.num = f.num /\ g.sp = n
      /\ g.tries = f.tries /\ g.open = os /\ g.left = f.left
  BY <1>1, <1>3 DEF FrameRecord, Same
<1> HIDE DEF g
<1>6. High(g) = High(f) /\ Low(g) = Low(f) /\ Operands(g.fn) = Operands(f.fn)
  BY <1>5, SameBase
<1>7. /\ Low(f) \in Nat /\ Low(f) <= Floor(f) /\ Floor(f) \in Nat /\ High(f) \in Nat
      /\ f.open # <<>> => Last(f.open) \in Nat /\ Floor(f) = Last(f.open) + 1
  BY <1>2, FrameFacts
<1>8. Floor(g) = n
  <2>1. Floor(g) = Max2(Low(f), f.sp + 1)
    BY <1>3, <1>4, <1>5, <1>6 DEF Floor
  <2> QED
    BY <1>1, <1>7, <2>1 DEF Max2, n
<1>9. \A i \in DOMAIN os : os[i] > Low(f)
  <2>1. \A i \in 1 .. Len(f.open) : os[i] > Low(f)
    BY <1>2, <1>3 DEF OperandsOK
  <2>2. f.sp > Low(f)
    BY <1>1, <1>7
  <2> QED
    BY <1>3, <2>1, <2>2, OneMore
<1>10. \A i \in 1 .. Len(f.open) : f.open[i] + 2 <= f.sp
  <2> SUFFICES ASSUME NEW i \in 1 .. Len(f.open) PROVE f.open[i] + 2 <= f.sp
    OBVIOUS
  <2>1. Len(f.open) \in DOMAIN f.open /\ i \in DOMAIN f.open /\ f.open # <<>>
    BY <1>1, <1>3
  <2>2. f.open[i] \in Nat /\ f.open[Len(f.open)] \in Nat
    BY <1>1, <2>1
  <2>3. f.open[i] <= f.open[Len(f.open)]
    <3>1. CASE i = Len(f.open)
      BY <2>2, <3>1
    <3>2. CASE i < Len(f.open)
      <4>1. f.open[i] + 2 <= f.open[Len(f.open)]
        BY <1>2, <2>1, <3>2 DEF OperandsOK
      <4> QED
        BY <2>2, <4>1
    <3> QED
      BY <1>3, <3>1, <3>2
  <2>4. Floor(f) = f.open[Len(f.open)] + 1
    BY <1>7, <2>1 DEF Last
  <2> QED
    BY <1>1, <2>2, <2>3, <2>4
<1>11. \A i, j \in DOMAIN os : i < j => os[i] + 2 <= os[j]
  <2> SUFFICES ASSUME NEW i \in DOMAIN os, NEW j \in DOMAIN os, i < j
               PROVE  os[i] + 2 <= os[j]
    OBVIOUS
  <2>1. i \in 1 .. Len(f.open)
    BY <1>3
  <2>2. CASE j = Len(f.open) + 1
    BY <1>3, <1>10, <2>1, <2>2
  <2>3. CASE j \in 1 .. Len(f.open)
    BY <1>2, <1>3, <2>1, <2>3 DEF OperandsOK
  <2> QED
    BY <1>3, <2>2, <2>3, OneMore
<1>12. OperandsOK(g)
  <2>1. Floor(g) <= g.sp /\ g.sp <= High(g)
    BY <1>1, <1>5, <1>6, <1>7, <1>8 DEF n
  <2>2. g.tries > 0 => Operands(g.fn) > 0
    BY <1>2, <1>5, <1>6 DEF OperandsOK
  <2> QED
    BY <1>5, <1>6, <1>9, <1>11, <2>1, <2>2 DEF OperandsOK
<1>13. /\ f.kind = "script" => g.num = f.num
       /\ f.kind = "user" => g.num <= Code[f.fn].params + Code[f.fn].locals
       /\ ~f.body => g.tries = 0
  BY <1>2, <1>5 DEF EvaluatesOK, UserOK, ScriptOK, FrameRecord
<1>14. FrameOK(g)
  BY <1>2, <1>5, <1>12, <1>13, Retyped
<1> QED
  BY <1>5, <1>14 DEF g, n, os, Same

LEMMA LoadMethodKeeps == ASSUME IInv, LoadMethod PROVE IInv'
<1>1. Computing /\ HasRoom(1) /\ Holds(1) /\ Running /\ (Top.body \/ AtDefault(Top))
  BY ComputingFacts DEF LoadMethod
<1>2. /\ Top \in FrameRecord /\ FrameOK(Top) /\ EvaluatesOK(Top) /\ Top.kind # "native"
      /\ stack \in Seq(Memory) /\ Len(stack) = Top.sp /\ Top.sp \in Nat
      /\ Top.sp > 0 => stack[1] \notin Methods
  BY <1>1, TopFacts DEF Running
<1>3. Floor(Top) \in Nat /\ Floor(Top) <= Top.sp - 1 /\ Top.sp > 0
  BY <1>1, OperandFacts
<1>4. Top.sp + 1 <= High(Top) /\ Floor(Top) < Top.sp
  <2>1. /\ Low(Top) \in Nat /\ Operands(Top.fn) \in Nat
        /\ High(Top) = Low(Top) + Operands(Top.fn)
    BY <1>2, FrameFacts
  <2> QED
    BY <1>1, <1>2, <1>3, <2>1 DEF HasRoom
<1>5. CASE Operand \in DOMAIN MethodOf
  <2> DEFINE g == [Top EXCEPT !.sp = Top.sp + 1, !.open = Append(Top.open, Top.sp)]
             s == Append(stack, MethodOf[Operand])
  <2>1. Moves(g, s)
    BY <1>5 DEF LoadMethod
  <2>2. g \in FrameRecord /\ FrameOK(g) /\ g.kind = Top.kind /\ g.bp = Top.bp /\ g.sp = Top.sp + 1
    BY <1>1, <1>2, <1>4, Opened
  <2>3. MethodOf[Operand] \in Memory
    BY <1>5, MethodsApart DEF Methods
  <2>4. s \in Seq(Memory) /\ Len(s) = Top.sp + 1 /\ s[1] = stack[1]
    <3>1. 1 \in 1 .. Len(stack)
      BY <1>2, <1>3
    <3> QED
      BY <1>2, <2>3, <3>1, AppendProperties
  <2> HIDE DEF g, s
  <2>5. g.sp <= Len(s) /\ s[1] \notin Methods
    BY <1>2, <1>3, <2>2, <2>4
  <2> QED
    BY <1>1, <2>1, <2>2, <2>4, <2>5, MovesKeeps
<1>6. CASE Operand \notin DOMAIN MethodOf
  BY <1>1, <1>6, RefuseKeeps DEF LoadMethod
<1> QED
  BY <1>5, <1>6
-----------------------------------------------------------------------------
(* The frames that calls make.                                             *)
LEMMA NewUser ==
  ASSUME NEW fn \in DOMAIN Code, NEW bp \in Nat, NEW n \in Nat, n >= Code[fn].required,
         NEW room \in Nat, room >= bp + 1 + n + StackSize(fn), fn \in Methods => bp > 0
  PROVE  LET g == Frame("user", fn, bp, n, room) IN
         /\ g \in FrameRecord /\ FrameOK(g) /\ g.kind = "user" /\ g.bp = bp
         /\ g.sp = bp + 1 + n /\ g.tries = 0
<1> DEFINE g == Frame("user", fn, bp, n, room)
<1>1. /\ Code[fn].params \in Nat /\ Code[fn].locals \in Nat /\ Code[fn].required \in Nat
      /\ Code[fn].required <= Code[fn].params
  BY CodeFacts
<1>2. <<>> \in Seq(Nat) /\ bp + 1 + n \in Nat
  OBVIOUS
<1>3. /\ g.kind = "user" /\ g.fn = fn /\ g.bp = bp /\ g.num_args = n /\ g.room = room
      /\ g.sp = bp + 1 + n /\ g.body = FALSE /\ g.phase = Code[fn].required
      /\ g.num = Code[fn].params /\ g.tries = 0 /\ g.open = <<>> /\ g.left = 0
  BY DEF Frame
<1>4. g \in FrameRecord
  BY <1>1, <1>2 DEF Frame, FrameRecord
<1> HIDE DEF g
<1>5. Base(g) = bp + 1 + Max2(n, Code[fn].required)
  BY <1>3, <1>4, BaseIs
<1>6. g.sp = Base(g) /\ g.left <= Base(g)
  BY <1>1, <1>3, <1>5 DEF Max2
<1>7. UserOK(g)
  BY <1>1, <1>3, <1>6 DEF UserOK
<1>8. FrameOK(g)
  BY <1>3, <1>4, <1>6, <1>7, NoOperand
<1> QED
  BY <1>3, <1>4, <1>8 DEF g

LEMMA NewNative ==
  ASSUME NEW fn \in DOMAIN BoundTo \cup {"apply"}, NEW bp \in Nat, NEW n \in Nat,
         NEW room \in Nat
  PROVE  LET g == Frame("native", fn, bp, n, room) IN
         g \in FrameRecord /\ FrameOK(g) /\ g.kind = "native" /\ g.bp = bp
<1>1. <<>> \in Seq(Nat) /\ bp + 1 + n \in Nat
  OBVIOUS
<1> QED
  BY <1>1 DEF Frame, FrameRecord, FrameOK

LEMMA NewScript ==
  ASSUME NEW bp \in Nat
  PROVE  LET g == Frame("script", None, bp, 0, Ensure(StackSize(None), bp)) IN
         /\ g \in FrameRecord /\ FrameOK(g) /\ g.kind = "script" /\ g.bp = bp /\ g.sp = bp
         /\ g.tries = 0
<1> DEFINE room == Ensure(StackSize(None), bp)
           g == Frame("script", None, bp, 0, room)
<1>1. room = bp + MaxOperands /\ room \in Nat
  BY ScriptRoom DEF Ensure
<1>2. <<>> \in Seq(Nat)
  OBVIOUS
<1> HIDE DEF room
<1>3. /\ g.kind = "script" /\ g.fn = None /\ g.bp = bp /\ g.room = room
      /\ g.sp = bp /\ g.body /\ g.num = 0 /\ g.tries = 0 /\ g.open = <<>> /\ g.left = 0
  <2>1. /\ g.kind = "script" /\ g.fn = None /\ g.bp = bp /\ g.room = room
        /\ g.num = 0 /\ g.tries = 0 /\ g.open = <<>> /\ g.left = 0
    BY DEF Frame
  <2>2. g.body
    BY Zenon DEF Frame
  <2>3. g.sp = bp + 0 + 0
    BY DEF Frame
  <2>4. g.sp = bp
    BY <2>3
  <2> HIDE DEF g
  <2> QED
    BY Zenon, <2>1, <2>2, <2>4
<1>4. g \in FrameRecord
  BY <1>1, <1>2 DEF Frame, FrameRecord
<1> HIDE DEF g
<1>5. Base(g) = bp
  BY <1>3, <1>4, BaseIs
<1>6. Low(g) = bp /\ Floor(g) = bp
  BY <1>3, <1>5 DEF Low, Floor, Max2
<1>7. OperandsOK(g)
  BY <1>3, <1>6, ScriptRoom DEF OperandsOK, High
<1>8. ScriptOK(g)
  BY <1>1, <1>3, ScriptRoom DEF ScriptOK
<1>9. FrameOK(g)
  BY <1>3, <1>7, <1>8 DEF FrameOK, EvaluatesOK
<1> QED
  BY <1>3, <1>4, <1>9 DEF g, room

(* cb_eval begins, or refuses to at the limit of the depth.                *)
LEMMA EvalKeeps ==
  ASSUME IInv, Running, NEW fs, Links(fs), fs # <<>>, Cardinality(Evaluators(fs)) = eval_depth,
         NEW f \in FrameRecord, FrameOK(f), f.kind # "native", f.tries = 0,
         PairOK(Last(fs), f),
         NEW s \in Seq(Memory), Len(s) = f.sp, f.sp > 0 => s[1] \notin Methods,
         Eval(fs, f, s)
  PROVE  IInv'
<1> DEFINE all == Append(fs, f)
<1>1. /\ Links(all) /\ all # <<>> /\ Last(all) = f
      /\ Cardinality(Evaluators(all)) = eval_depth + 1
  BY LinksPushed
<1>2. Chain(all)
  BY <1>1 DEF Chain
<1>3. eval_depth' = eval_depth + 1 /\ error = None /\ f.sp \in Nat
  BY DEF Eval, Running, FrameRecord
<1>4. CASE eval_depth + 1 < EvalLimit
  <2>1. frames' = all /\ stack' = s /\ error' = None
    BY <1>3, <1>4 DEF Eval
  <2>2. stack' # <<>> => stack'[1] \notin Methods
    BY <1>3, <2>1
  <2>3. SlotsOK(frames', stack', error')
    BY <1>1, <2>1, <2>2 DEF SlotsOK, Memory
  <2> QED
    BY <1>1, <1>2, <1>3, <2>1, <2>3 DEF IInv, ErrorOK, DepthOK
<1>5. CASE ~(eval_depth + 1 < EvalLimit)
  <2>1. RetWithTrace(all, s, Raised(Error))
    BY <1>5 DEF Eval
  <2> HIDE DEF all
  <2>2. Raised(Error) \in Errors /\ Raised(Error).value \notin Methods
    BY RaisedIs, MethodsApart
  <2>3. /\ Last(all).tries = 0 /\ Last(all).sp <= Len(s)
        /\ Last(all).sp > 0 => s[1] \notin Methods
    BY <1>1, <1>3
  <2>4. /\ Chain(frames') /\ SlotsOK(frames', stack', error') /\ ErrorOK(frames', error')
        /\ Evaluators(frames') = Evaluators(all)
    BY <1>1, <1>2, <2>1, <2>2, <2>3, Returned
  <2> QED
    BY <1>1, <1>3, <2>4 DEF IInv, DepthOK
<1> QED
  BY <1>4, <1>5

(* A caller is computing an expression.                                    *)
LEMMA CallerComputes ==
  ASSUME NEW f \in FrameRecord, FrameOK(f), f.kind # "native", NEW dest \in Nat,
         CallsAt(f, dest)
  PROVE  /\ f.body \/ AtDefault(f)
         /\ Floor(f) <= dest + 1 /\ Base(f) <= dest /\ dest < f.sp /\ f.sp <= High(f)
         /\ Base(f) \in Nat /\ Floor(f) \in Nat /\ High(f) \in Nat /\ f.sp \in Nat
         /\ f.bp \in Nat /\ f.bp <= dest
         /\ dest = 0 => f.kind = "script" /\ f.bp = 0
<1>1. EvaluatesOK(f) /\ f.kind \in {"script", "user"} /\ f.sp \in Nat /\ f.bp \in Nat
  BY UnfoldOperands DEF FrameRecord
<1>2. /\ Base(f) \in Nat /\ Floor(f) \in Nat /\ High(f) \in Nat /\ f.bp <= Base(f)
      /\ Low(f) \in Nat /\ Base(f) <= Low(f) /\ Base(f) <= Floor(f)
      /\ f.open # <<>> => /\ Last(f.open) \in Nat /\ Last(f.open) > Low(f)
                          /\ Floor(f) = Last(f.open) + 1
      /\ f.kind = "user" => f.bp < Base(f)
      /\ f.sp <= High(f)
  BY <1>1, FrameFacts
<1>3. /\ dest < f.sp
      /\ \/ dest >= Floor(f)
         \/ f.open # <<>> /\ Last(f.open) = dest
  BY Zenon DEF CallsAt
<1>4. Floor(f) <= dest + 1 /\ Base(f) <= dest
  BY <1>2, <1>3
<1>5. f.sp # Base(f)
  BY <1>1, <1>2, <1>3, <1>4
<1>6. f.body \/ AtDefault(f)
  <2>1. CASE f.kind = "script"
    BY <1>1, <2>1 DEF EvaluatesOK, ScriptOK
  <2>2. CASE f.kind = "user"
    <3>1. f.phase \in Nat /\ f.num_args \in Nat /\ UserOK(f)
      BY <1>1, <2>2 DEF EvaluatesOK, FrameRecord
    <3>2. Code[f.fn].params \in Nat
      BY <3>1, CodeFacts DEF UserOK
    <3> QED
      BY <1>5, <3>1, <3>2 DEF UserOK, AtDefault
  <2> QED
    BY <1>1, <2>1, <2>2
<1>7. dest = 0 => f.kind = "script" /\ f.bp = 0
  BY <1>1, <1>2, <1>4
<1> QED
  BY <1>1, <1>2, <1>3, <1>4, <1>6, <1>7
-----------------------------------------------------------------------------
(* Where the caller is when it calls with n arguments.                      *)
Calling(n) ==
  /\ Computing
  /\ \/ Holds(n + 1)
     \/ Top.open # <<>> /\ Last(Top.open) = Dest(n)

LEMMA CallFacts ==
  ASSUME IInv, NEW n \in Nat, Calling(n)
  PROVE  /\ Running /\ Dest(n) \in Nat /\ Top.sp = Dest(n) + 1 + n /\ CallsAt(Top, Dest(n))
         /\ Links(frames) /\ frames # <<>> /\ Top = Last(frames) /\ frames \in Seq(FrameRecord)
         /\ Top \in FrameRecord /\ FrameOK(Top) /\ Top.kind # "native"
         /\ stack \in Seq(Memory) /\ Len(stack) = Top.sp /\ Top.sp \in Nat /\ Top.sp > 0
         /\ stack[1] \notin Methods
         /\ eval_depth = Cardinality(Evaluators(frames))
         /\ Slot(Dest(n)) \in Memory /\ (Dest(n) = 0 => Slot(Dest(n)) \notin Methods)
<1>1. /\ Links(frames) /\ frames # <<>> /\ Top = Last(frames) /\ frames \in Seq(FrameRecord)
      /\ Top \in FrameRecord /\ FrameOK(Top) /\ EvaluatesOK(Top) /\ Top.kind # "native"
      /\ stack \in Seq(Memory) /\ Len(stack) = Top.sp /\ Top.sp \in Nat
      /\ Top.sp > 0 => stack[1] \notin Methods
      /\ eval_depth = Cardinality(Evaluators(frames)) /\ Running
  BY TopFacts DEF Calling, Computing, Running, Top
<1>2. /\ Floor(Top) \in Nat
      /\ Top.open # <<>> => /\ Last(Top.open) \in Nat /\ Floor(Top) = Last(Top.open) + 1
                            /\ Floor(Top) <= Top.sp
  BY <1>1, FrameFacts
<1>4. Dest(n) = Top.sp - n - 1
  BY DEF Dest
<1>5. \/ Dest(n) >= Floor(Top)
      \/ Top.open # <<>> /\ Last(Top.open) = Dest(n)
  <2>1. CASE Holds(n + 1)
    BY <1>1, <1>2, <1>4, <2>1 DEF Holds
  <2>2. CASE Top.open # <<>> /\ Last(Top.open) = Dest(n)
    BY <2>2
  <2> QED
    BY <2>1, <2>2 DEF Calling
<1> HIDE DEF Dest
<1>6. Dest(n) \in Nat /\ Top.sp = Dest(n) + 1 + n /\ Dest(n) < Top.sp /\ Top.sp > 0
  <2>1. Dest(n) \in Int /\ Dest(n) >= 0
    BY <1>1, <1>2, <1>4, <1>5
  <2> QED
    BY <1>1, <1>4, <2>1
<1>7. CallsAt(Top, Dest(n))
  BY <1>5, <1>6 DEF CallsAt
<1>8. Dest(n) + 1 \in 1 .. Len(stack)
  BY <1>1, <1>6
<1>9. Slot(Dest(n)) \in Memory /\ (Dest(n) = 0 => Slot(Dest(n)) \notin Methods)
  BY <1>1, <1>6, <1>8 DEF Slot
<1> QED
  BY <1>1, <1>6, <1>7, <1>9

(* The frame of a caller after a call: the result is where the call was.   *)
LEMMA AnsweredFrame ==
  ASSUME NEW f \in FrameRecord, FrameOK(f), f.kind # "native", NEW dest \in Nat,
         CallsAt(f, dest), f.open # <<>>, Last(f.open) = dest
  PROVE  LET g == [f EXCEPT !.sp = dest, !.open = Front(f.open)] IN
         g \in FrameRecord /\ FrameOK(g) /\ g.kind = f.kind /\ g.bp = f.bp /\ g.sp = dest
           /\ dest > 0
<1> DEFINE os == Front(f.open)
           g == [f EXCEPT !.sp = dest, !.open = os]
<1>1. /\ EvaluatesOK(f) /\ OperandsOK(f) /\ f.open \in Seq(Nat) /\ f.sp \in Nat
      /\ f.body \/ AtDefault(f)
  BY UnfoldOperands, CallerComputes DEF FrameRecord
<1>2. /\ os \in Seq(Nat)
      /\ \A i \in DOMAIN os : i \in DOMAIN f.open /\ os[i] = f.open[i]
  BY <1>1, FrontFacts
<1>3. \A i \in DOMAIN os : os[i] \in Nat /\ os[i] + 2 <= dest
  <2> SUFFICES ASSUME NEW i \in DOMAIN os PROVE os[i] \in Nat /\ os[i] + 2 <= dest
    OBVIOUS
  <2>1. i \in DOMAIN f.open /\ os[i] = f.open[i] /\ Len(f.open) \in DOMAIN f.open
        /\ f.open[Len(f.open)] = dest
    BY <1>1, <1>2 DEF Last
  <2>2. i < Len(f.open)
    BY <1>1 DEF Front
  <2>3. os[i] \in Nat
    BY <1>1, <2>1
  <2> HIDE DEF os
  <2> QED
    BY <1>1, <2>1, <2>2, <2>3 DEF OperandsOK
<1>4. /\ Low(f) \in Nat /\ dest > Low(f) /\ High(f) \in Nat /\ f.sp <= High(f) /\ dest < f.sp
      /\ Base(f) \in Nat /\ Base(f) <= Low(f) /\ f.left <= Low(f) /\ f.left \in Nat
  BY <1>1, FrameFacts DEF CallsAt, FrameRecord
<1>5. /\ g \in FrameRecord /\ Same(f, g) /\ g.sp = dest /\ g.open = os
      /\ g.tries = f.tries /\ g.left = f.left /\ g.num = f.num
  <2> HIDE DEF os
  <2> QED
    BY <1>2 DEF FrameRecord, Same
<1> HIDE DEF g
<1>6. High(g) = High(f) /\ Low(g) = Low(f) /\ Operands(g.fn) = Operands(f.fn)
  BY <1>5, SameBase
<1>7. Floor(g) <= dest
  <2>1. Floor(g) = Max2(Low(f), IF os = <<>> THEN 0 ELSE Last(os) + 1)
    BY <1>5, <1>6 DEF Floor
  <2>2. CASE os = <<>>
    BY <1>4, <2>1, <2>2 DEF Max2
  <2>3. CASE os # <<>>
    <3>1. Len(os) \in DOMAIN os
      BY <1>2, <2>3
    <3>2. Last(os) \in Nat /\ Last(os) + 2 <= dest
      BY <1>3, <3>1 DEF Last
    <3> HIDE DEF os
    <3> QED
      BY <1>4, <2>1, <2>3, <3>2 DEF Max2
  <2> QED
    BY <2>2, <2>3
<1> HIDE DEF os
<1>8. OperandsOK(g)
  <2>1. Floor(g) <= g.sp /\ g.sp <= High(g)
    BY <1>1, <1>4, <1>5, <1>6, <1>7
  <2>2. g.tries > 0 => Operands(g.fn) > 0
    BY <1>1, <1>5, <1>6 DEF OperandsOK
  <2>3. \A i \in DOMAIN g.open : g.open[i] > Low(g)
    BY <1>1, <1>2, <1>5, <1>6 DEF OperandsOK
  <2>4. \A i, j \in DOMAIN g.open : i < j => g.open[i] + 2 <= g.open[j]
    BY <1>1, <1>2, <1>5 DEF OperandsOK
  <2> QED
    BY <2>1, <2>2, <2>3, <2>4 DEF OperandsOK
<1>9. /\ f.kind = "script" => g.num = f.num
      /\ f.kind = "user" => g.num <= Code[f.fn].params + Code[f.fn].locals
      /\ ~f.body => g.tries = 0
  BY <1>1, <1>5 DEF EvaluatesOK, UserOK, ScriptOK, FrameRecord
<1>10. FrameOK(g)
  BY <1>1, <1>5, <1>8, <1>9, Retyped
<1> QED
  BY <1>4, <1>5, <1>10 DEF g, os, Same

LEMMA AnsweredIs ==
  ASSUME NEW f \in FrameRecord, FrameOK(f), f.kind # "native", NEW dest \in Nat,
         CallsAt(f, dest), NEW s \in Seq(Memory), dest < Len(s),
         dest > 0 => s[1] \notin Methods,
         NEW v \in Memory, v \notin Methods
  PROVE  LET r == Answered(f, dest, v, s) IN
         /\ r[1] \in FrameRecord /\ FrameOK(r[1]) /\ r[1].kind = f.kind /\ r[1].bp = f.bp
         /\ r[2] \in Seq(Memory) /\ r[1].sp <= Len(r[2]) /\ r[2][1] \notin Methods
         /\ Len(r[2]) = Len(s)
<1>1. Len(s) \in Nat /\ f.sp \in Nat
  BY LenProperties DEF FrameRecord
<1>2. CASE f.open # <<>> /\ Last(f.open) = dest
  <2> DEFINE g == [f EXCEPT !.sp = dest, !.open = Front(f.open)]
             w == Write(s, dest - 1, v)
  <2>1. Answered(f, dest, v, s) = <<g, w>>
    BY <1>2 DEF Answered
  <2>2. g \in FrameRecord /\ FrameOK(g) /\ g.kind = f.kind /\ g.bp = f.bp /\ g.sp = dest
          /\ dest > 0
    BY <1>2, AnsweredFrame
  <2>3. dest - 1 \in Nat /\ dest - 1 < Len(s)
    BY <1>1, <2>2
  <2>4. /\ w \in Seq(Memory) /\ Len(w) = Len(s) /\ w[dest - 1 + 1] = v
        /\ \A j \in 1 .. Len(s) : j # dest - 1 + 1 => w[j] = s[j]
    BY <2>3, WriteFacts
  <2>5. w[1] \notin Methods
    <3> HIDE DEF w
    <3> QED
      BY <1>1, <2>2, <2>4
  <2> HIDE DEF g, w
  <2> QED
    BY <1>1, <2>1, <2>2, <2>4, <2>5
<1>3. CASE ~(f.open # <<>> /\ Last(f.open) = dest)
  <2> DEFINE n == dest + 1
             g == [f EXCEPT !.sp = n]
             w == Write(s, dest, v)
  <2>1. Answered(f, dest, v, s) = <<g, w>>
    BY <1>3 DEF Answered
  <2>2. n \in Nat /\ Floor(f) <= n /\ n <= High(f) /\ (f.body \/ AtDefault(f))
    BY CallerComputes
  <2> HIDE DEF n
  <2>3. g \in FrameRecord /\ FrameOK(g) /\ Same(f, g) /\ g.sp = n
    BY <2>2, Resized
  <2>4. /\ w \in Seq(Memory) /\ Len(w) = Len(s) /\ w[dest + 1] = v
        /\ \A j \in 1 .. Len(s) : j # dest + 1 => w[j] = s[j]
    BY WriteFacts
  <2>5. w[1] \notin Methods
    <3> HIDE DEF w
    <3> QED
      BY <1>1, <2>4
  <2> HIDE DEF g, w
  <2>6. g.kind = f.kind /\ g.bp = f.bp
    BY <2>3 DEF Same
  <2> QED
    BY <1>1, <2>1, <2>3, <2>4, <2>5, <2>6 DEF n
<1> QED
  BY <1>2, <1>3

LEMMA NativeFailsKeeps ==
  ASSUME IInv, NEW n \in Nat, Calling(n), NativeFails(n)
  PROVE  IInv'
<1> DEFINE d == Dest(n)
           k == d + 1
           g == [Top EXCEPT !.sp = k]
           w == Write(stack, d, Junk)
<1>1. /\ Running /\ d \in Nat /\ Top.sp = d + 1 + n /\ CallsAt(Top, d)
      /\ Top \in FrameRecord /\ FrameOK(Top) /\ Top.kind # "native"
      /\ stack \in Seq(Memory) /\ Len(stack) = Top.sp /\ stack[1] \notin Methods
  BY CallFacts
<1>2. RetWithTrace(Append(Front(frames), g), w, Raised(Error)) /\ eval_depth' = eval_depth
  BY DEF NativeFails
<1> HIDE DEF d
<1>3. /\ Top.body \/ AtDefault(Top)
      /\ Floor(Top) <= k /\ k <= High(Top) /\ k \in Nat
  BY <1>1, CallerComputes
<1>4. Raised(Error) \in Errors /\ Raised(Error).value \notin Methods
  BY RaisedIs, MethodsApart
<1>5. /\ w \in Seq(Memory) /\ Len(w) = Len(stack) /\ w[d + 1] = Junk
      /\ \A j \in 1 .. Len(stack) : j # d + 1 => w[j] = stack[j]
  <2>1. d < Len(stack) /\ Junk \in Memory
    BY <1>1, MethodsApart
  <2> QED
    BY <1>1, <2>1, WriteFacts
<1>6. w[1] \notin Methods
  <2> HIDE DEF w
  <2>1. 1 \in 1 .. Len(stack)
    BY <1>1
  <2> QED
    BY <1>1, <1>5, <2>1, MethodsApart
<1> HIDE DEF w
<1>7. k <= Len(w)
  BY <1>1, <1>5
<1> HIDE DEF k
<1>8. g \in FrameRecord /\ FrameOK(g) /\ Same(Top, g) /\ g.sp = k
  BY <1>1, <1>3, Resized
<1> HIDE DEF g
<1>9. g.kind = Top.kind /\ g.bp = Top.bp /\ g.sp <= Len(w)
  BY <1>3, <1>7, <1>8 DEF Same
<1> QED
  BY <1>1, <1>2, <1>4, <1>5, <1>6, <1>8, <1>9, FailKeeps

LEMMA CallNativeKeeps ==
  ASSUME IInv, NEW n \in Nat, Calling(n), CallNative(n)
  PROVE  IInv'
<1>1. CASE NativeFails(n)
  BY <1>1, NativeFailsKeeps
<1>2. ASSUME NEW v \in Data, LET r == Answered(Top, Dest(n), v, stack) IN Moves(r[1], r[2])
      PROVE  IInv'
  <2> DEFINE d == Dest(n)
             r == Answered(Top, d, v, stack)
  <2>1. /\ Running /\ d \in Nat /\ Top.sp = d + 1 + n /\ CallsAt(Top, d)
        /\ Top \in FrameRecord /\ FrameOK(Top) /\ Top.kind # "native"
        /\ stack \in Seq(Memory) /\ Len(stack) = Top.sp /\ stack[1] \notin Methods
    BY CallFacts
  <2>2. Moves(r[1], r[2])
    BY <1>2
  <2> HIDE DEF d
  <2>3. v \in Memory /\ v \notin Methods /\ d < Len(stack)
    BY <2>1, MethodsApart
  <2>4. /\ r[1] \in FrameRecord /\ FrameOK(r[1]) /\ r[1].kind = Top.kind /\ r[1].bp = Top.bp
        /\ r[2] \in Seq(Memory) /\ r[1].sp <= Len(r[2]) /\ r[2][1] \notin Methods
    BY <2>1, <2>3, AnsweredIs
  <2> HIDE DEF r
  <2> QED
    BY <2>1, <2>2, <2>4, MovesKeeps
<1> QED
  BY <1>1, <1>2 DEF CallNative
-----------------------------------------------------------------------------
LEMMA CallUserKeeps ==
  ASSUME IInv, NEW n \in Nat, Calling(n), NEW fn \in DOMAIN Code, fn = Slot(Dest(n)),
         n >= Code[fn].required, CallUser(fn, n)
  PROVE  IInv'
<1> DEFINE d == Dest(n)
           room == Ensure(StackSize(fn), Top.sp)
           g == Frame("user", fn, d, n, room)
<1>1. /\ Running /\ d \in Nat /\ Top.sp = d + 1 + n /\ CallsAt(Top, d)
      /\ Links(frames) /\ frames # <<>> /\ Top = Last(frames) /\ Top.kind # "native"
      /\ stack \in Seq(Memory) /\ Len(stack) = Top.sp /\ Top.sp \in Nat
      /\ stack[1] \notin Methods /\ eval_depth = Cardinality(Evaluators(frames))
      /\ d = 0 => fn \notin Methods
  BY CallFacts
<1>2. Eval(frames, g, stack)
  BY DEF CallUser
<1> HIDE DEF d
<1>3. StackSize(fn) \in Nat
  BY CodeFacts
<1>4. room = Top.sp + StackSize(fn)
  BY DEF Ensure
<1> HIDE DEF room
<1>5. room \in Nat /\ room >= d + 1 + n + StackSize(fn) /\ (fn \in Methods => d > 0)
  BY <1>1, <1>3, <1>4
<1>6. /\ g \in FrameRecord /\ FrameOK(g) /\ g.kind = "user" /\ g.bp = d
      /\ g.sp = d + 1 + n /\ g.tries = 0
  BY <1>1, <1>5, NewUser
<1> HIDE DEF g
<1>7. PairOK(Last(frames), g)
  BY <1>1, <1>6 DEF PairOK
<1>8. Len(stack) = g.sp /\ g.kind # "native"
  BY <1>1, <1>6
<1> QED
  BY <1>1, <1>2, <1>6, <1>7, <1>8, EvalKeeps

(* A native function that calls another has a frame of its own.            *)
LEMMA NativePushed ==
  ASSUME IInv, NEW n \in Nat, Calling(n), NEW fn \in DOMAIN BoundTo \cup {"apply"}
  PROVE  LET fs == Append(frames, Frame("native", fn, Dest(n), n, Top.room)) IN
         /\ Links(fs) /\ fs # <<>> /\ Last(fs).kind = "native" /\ Last(fs).bp = Dest(n)
         /\ Cardinality(Evaluators(fs)) = eval_depth
<1> DEFINE d == Dest(n)
           room == Top.room
           g == Frame("native", fn, d, n, room)
           fs == Append(frames, g)
<1>1. /\ Running /\ d \in Nat /\ Top.sp = d + 1 + n /\ CallsAt(Top, d)
      /\ Links(frames) /\ frames # <<>> /\ Top = Last(frames) /\ Top.kind # "native"
      /\ Top \in FrameRecord /\ FrameOK(Top) /\ frames \in Seq(FrameRecord)
      /\ eval_depth = Cardinality(Evaluators(frames))
  BY CallFacts
<1>2. room \in Nat
  BY <1>1 DEF FrameRecord
<1> HIDE DEF d, room
<1>3. g \in FrameRecord /\ FrameOK(g) /\ g.kind = "native" /\ g.bp = d
  BY <1>1, <1>2, NewNative DEF Frame
<1> HIDE DEF g
<1>4. PairOK(Last(frames), g)
  BY <1>1, <1>3 DEF PairOK
<1>5. Cardinality(Evaluators(frames)) \in Nat
  BY <1>1, EvaluatorsFinite
<1>6. /\ Links(fs) /\ fs # <<>> /\ Last(fs) = g
      /\ Cardinality(Evaluators(fs)) = Cardinality(Evaluators(frames)) + 0
  BY <1>1, <1>3, <1>4, LinksPushed
<1> QED
  BY <1>1, <1>3, <1>5, <1>6 DEF fs, g, d, room

LEMMA ApplyKeeps ==
  ASSUME IInv, NEW n \in Nat, Calling(n), Apply(n)
  PROVE  IInv'
<1> DEFINE g == Args(n)[1]
           arr == Args(n)[2]
           k == Len(Elements[arr])
           sp == Top.sp
           room == Ensure(StackSize(g) + k + 1, sp)
           h == Frame("user", g, sp, k, room)
           fs == Append(frames, Frame("native", "apply", Dest(n), n, Top.room))
           t == <<g>> \o Elements[arr]
           s == stack \o <<g>> \o Elements[arr]
<1>1. CASE g \notin DOMAIN Code \/ arr \notin DOMAIN Elements \/ k < Code[g].required
  BY <1>1, NativeFailsKeeps DEF Apply
<1>2. CASE /\ ~(g \notin DOMAIN Code \/ arr \notin DOMAIN Elements \/ k < Code[g].required)
           /\ Code[g].kind # "user"
  BY <1>2, CallNativeKeeps DEF Apply
<1>3. CASE /\ ~(g \notin DOMAIN Code \/ arr \notin DOMAIN Elements \/ k < Code[g].required)
           /\ Code[g].kind = "user"
  <2>1. g \in DOMAIN Code /\ arr \in DOMAIN Elements /\ ~(k < Code[g].required)
    BY <1>3
  <2>2. Eval(fs, h, s)
    BY <1>3 DEF Apply
  <2>3. Elements[arr] \in Seq(Memory) /\ k \in Nat
    <3>1. Elements[arr] \in Seq(Constants) /\ Constants \subseteq Memory
      BY <2>1, ConstantsAssumption, MethodsApart
    <3> QED
      BY <3>1
  <2>4. /\ Running /\ Dest(n) \in Nat /\ sp = Dest(n) + 1 + n
        /\ stack \in Seq(Memory) /\ Len(stack) = sp /\ sp \in Nat /\ sp > 0
        /\ stack[1] \notin Methods
    BY CallFacts
  <2>5. /\ Links(fs) /\ fs # <<>> /\ Last(fs).kind = "native" /\ Last(fs).bp = Dest(n)
        /\ Cardinality(Evaluators(fs)) = eval_depth
    BY NativePushed
  <2>6. StackSize(g) \in Nat /\ Code[g].required \in Nat /\ g \in Memory
    <3> HIDE DEF g
    <3> QED
      BY <2>1, CodeFacts, MethodsApart
  <2>7. /\ s \in Seq(Memory) /\ Len(s) = sp + 1 + k /\ s[1] = stack[1]
    <3> DEFINE u == stack \o <<g>>
    <3> HIDE DEF g
    <3>1. <<g>> \in Seq(Memory) /\ Len(<<g>>) = 1
      BY <2>6
    <3>2. /\ u \in Seq(Memory) /\ Len(u) = Len(stack) + Len(<<g>>)
          /\ \A j \in 1 .. Len(stack) : u[j] = stack[j]
      BY <2>4, <3>1, JoinFacts
    <3>3. Len(u) = sp + 1 /\ u[1] = stack[1] /\ 1 \in 1 .. Len(u)
      BY <2>4, <3>1, <3>2
    <3> HIDE DEF u
    <3>4. /\ u \o Elements[arr] \in Seq(Memory) /\ Len(u \o Elements[arr]) = Len(u) + Len(Elements[arr])
          /\ \A j \in 1 .. Len(u) : (u \o Elements[arr])[j] = u[j]
      BY <2>3, <3>2, JoinFacts
    <3> QED
      BY <3>3, <3>4 DEF u
  <2>8. room = sp + (StackSize(g) + k + 1)
    BY DEF Ensure
  <2> HIDE DEF room, k, sp, g, s, fs
  <2>9. room \in Nat /\ room >= sp + 1 + k + StackSize(g) /\ k >= Code[g].required
    <3> DEFINE z == StackSize(g)
               q == Code[g].required
    <3>1. k \in Nat /\ sp \in Nat /\ z \in Nat /\ q \in Nat /\ ~(k < q) /\ room = sp + (z + k + 1)
      BY <2>1, <2>3, <2>4, <2>6, <2>8
    <3> HIDE DEF z, q
    <3>2. room \in Nat /\ room >= sp + 1 + k + z /\ k >= q
      BY <3>1
    <3> QED
      BY <3>2 DEF z, q
  <2>10. /\ h \in FrameRecord /\ FrameOK(h) /\ h.kind = "user" /\ h.bp = sp
         /\ h.sp = sp + 1 + k /\ h.tries = 0
    BY <2>1, <2>3, <2>4, <2>9, NewUser
  <2> HIDE DEF h
  <2>11. PairOK(Last(fs), h)
    <3>1. Last(fs).bp < h.bp
      BY <2>4, <2>5, <2>10
    <3> QED
      BY <2>5, <2>10, <3>1 DEF PairOK
  <2>12. Len(s) = h.sp /\ h.kind # "native" /\ s[1] \notin Methods
    BY <2>4, <2>7, <2>10
  <2> QED
    BY <2>2, <2>4, <2>5, <2>7, <2>10, <2>11, <2>12, EvalKeeps
<1> QED
  BY <1>1, <1>2, <1>3

LEMMA CallBoundKeeps ==
  ASSUME IInv, NEW n \in Nat, Calling(n), NEW b \in DOMAIN BoundTo,
         ~(n < Code[BoundTo[b].method].required), CallBound(b, n)
  PROVE  IInv'
<1> DEFINE m == BoundTo[b].method
           v == BoundTo[b].receiver
           d == Dest(n)
           bp == d + 1
           sp == Top.sp
           room == Ensure(StackSize(m) + 1, sp)
           h == Frame("user", m, bp, n, room)
           fs == Append(frames, Frame("native", b, d, n, Top.room))
           s == Append(stack, Junk)
           w == Write(s, d, v)
           x == Write(w, bp, m)
<1>1. /\ m \in DOMAIN Code /\ m \in Memory /\ v \in Memory /\ v \notin Methods /\ Junk \in Memory
  BY BoundFacts, MethodsApart
<1>2. Eval(fs, h, x)
  BY DEF CallBound
<1>3. /\ Running /\ d \in Nat /\ sp = d + 1 + n
      /\ stack \in Seq(Memory) /\ Len(stack) = sp /\ sp \in Nat /\ sp > 0
      /\ stack[1] \notin Methods
  BY CallFacts
<1>4. /\ Links(fs) /\ fs # <<>> /\ Last(fs).kind = "native" /\ Last(fs).bp = d
      /\ Cardinality(Evaluators(fs)) = eval_depth
  BY NativePushed
<1> HIDE DEF d, sp, v, m
<1>5. StackSize(m) \in Nat /\ Code[m].required \in Nat
  BY <1>1, CodeFacts
<1>6. /\ s \in Seq(Memory) /\ Len(s) = sp + 1 /\ s[1] = stack[1]
  <2>1. 1 \in 1 .. Len(stack)
    BY <1>3
  <2> QED
    BY <1>1, <1>3, <2>1, AppendProperties
<1> HIDE DEF s
<1>7. /\ w \in Seq(Memory) /\ Len(w) = sp + 1 /\ w[1] \notin Methods
  <2>1. d < Len(s)
    BY <1>3, <1>6
  <2>2. /\ w \in Seq(Memory) /\ Len(w) = Len(s) /\ w[d + 1] = v
        /\ \A j \in 1 .. Len(s) : j # d + 1 => w[j] = s[j]
    BY <1>1, <1>3, <1>6, <2>1, WriteFacts
  <2> HIDE DEF w
  <2>3. 1 \in 1 .. Len(s)
    BY <1>3, <1>6
  <2> QED
    BY <1>1, <1>3, <1>6, <2>2, <2>3
<1> HIDE DEF w
<1>8. /\ x \in Seq(Memory) /\ Len(x) = sp + 1 /\ x[1] \notin Methods
  <2>1. bp \in Nat /\ bp < Len(w)
    BY <1>3, <1>7
  <2>2. /\ x \in Seq(Memory) /\ Len(x) = Len(w)
        /\ \A j \in 1 .. Len(w) : j # bp + 1 => x[j] = w[j]
    BY <1>1, <1>7, <2>1, WriteFacts
  <2> HIDE DEF x
  <2>3. 1 \in 1 .. Len(w) /\ 1 # bp + 1
    BY <1>3, <1>7
  <2> QED
    BY <1>7, <2>2, <2>3
<1>9. room = sp + (StackSize(m) + 1)
  BY DEF Ensure
<1> HIDE DEF room, x, fs
<1>10. /\ room \in Nat /\ room >= bp + 1 + n + StackSize(m) /\ bp > 0 /\ bp \in Nat
       /\ n >= Code[m].required
  <2> DEFINE z == StackSize(m)
             q == Code[m].required
  <2>1. z \in Nat /\ q \in Nat
    BY <1>5
  <2>2. room = sp + (z + 1) /\ ~(n < q)
    BY <1>9 DEF m
  <2> HIDE DEF z, q
  <2>3. room \in Nat /\ room >= bp + 1 + n + z /\ bp > 0 /\ bp \in Nat /\ n >= q
    BY ONLY <1>3, <2>1, <2>2 DEF bp
  <2> QED
    BY <2>3 DEF z, q
<1>11. bp = d + 1
  OBVIOUS
<1> HIDE DEF bp
<1>12. /\ h \in FrameRecord /\ FrameOK(h) /\ h.kind = "user" /\ h.bp = bp
       /\ h.sp = bp + 1 + n /\ h.tries = 0
  <2>1. m \in DOMAIN Code /\ bp \in Nat /\ n \in Nat /\ room \in Nat
    BY <1>1, <1>10
  <2>2. n >= Code[m].required /\ room >= bp + 1 + n + StackSize(m)
    BY <1>10
  <2>3. m \in Methods => bp > 0
    BY <1>10
  <2> QED
    BY ONLY <2>1, <2>2, <2>3, NewUser, SMTT(60)
<1> HIDE DEF h
<1>13. PairOK(Last(fs), h)
  <2>1. Last(fs).bp < h.bp
    BY <1>3, <1>4, <1>11, <1>12
  <2> QED
    BY <1>4, <1>12, <2>1 DEF PairOK
<1>14. Len(x) = h.sp /\ h.kind # "native"
  BY <1>3, <1>8, <1>11, <1>12
<1> QED
  BY <1>2, <1>3, <1>4, <1>8, <1>12, <1>13, <1>14, EvalKeeps

LEMMA DoCallKeeps ==
  ASSUME IInv, NEW n \in Nat, Calling(n), DoCall(n)
  PROVE  IInv'
<1> DEFINE fn == Slot(Dest(n))
<1>1. Running
  BY CallFacts
<1>2. CASE Refuse
  BY <1>1, <1>2, RefuseKeeps
<1>3. CASE fn \in DOMAIN BoundTo
  <2>1. CASE n < Code[BoundTo[fn].method].required
    BY <1>2, <1>3, <2>1 DEF DoCall
  <2>2. CASE ~(n < Code[BoundTo[fn].method].required)
    <3>1. CallBound(fn, n)
      BY <1>3, <2>2 DEF DoCall
    <3> QED
      BY <1>3, <2>2, <3>1, CallBoundKeeps
  <2> QED
    BY <2>1, <2>2
<1>4. CASE fn \notin DOMAIN BoundTo /\ (fn \notin DOMAIN Code \/ n < Code[fn].required)
  BY <1>2, <1>4 DEF DoCall
<1>5. CASE fn \notin DOMAIN BoundTo /\ ~(fn \notin DOMAIN Code \/ n < Code[fn].required)
  <2>1. fn \in DOMAIN Code /\ Code[fn].kind \in {"user", "native", "apply"}
    BY <1>5, ConstantsAssumption
  <2>2. CASE Code[fn].kind = "user"
    <3>1. CallUser(fn, n)
      BY <1>5, <2>2 DEF DoCall
    <3>2. n >= Code[fn].required
      BY <1>5, <2>1, CodeFacts
    <3> QED
      BY <2>1, <3>1, <3>2, CallUserKeeps
  <2>3. CASE Code[fn].kind = "native"
    <3>1. CallNative(n)
      BY <1>5, <2>3 DEF DoCall
    <3> QED
      BY <3>1, CallNativeKeeps
  <2>4. CASE Code[fn].kind = "apply"
    <3>1. Apply(n)
      BY <1>5, <2>4 DEF DoCall
    <3> QED
      BY <3>1, ApplyKeeps
  <2> QED
    BY <2>1, <2>2, <2>3, <2>4
<1> QED
  BY <1>3, <1>4, <1>5

LEMMA CallKeeps == ASSUME IInv, NEW n \in 0 .. MaxArgs, Call(n) PROVE IInv'
<1>1. n \in Nat /\ Calling(n) /\ DoCall(n)
  BY BoundsAssumption DEF Call, Calling
<1> QED
  BY <1>1, DoCallKeeps

LEMMA CallMethodKeeps == ASSUME IInv, NEW n \in 0 .. MaxArgs, CallMethod(n) PROVE IInv'
<1>1. n \in Nat /\ Calling(n) /\ DoCall(n)
  BY BoundsAssumption DEF CallMethod, Calling
<1> QED
  BY <1>1, DoCallKeeps
-----------------------------------------------------------------------------
LEMMA ImportModuleKeeps == ASSUME IInv, ImportModule PROVE IInv'
<1> DEFINE sp == Top.sp
           g == Frame("script", None, sp, 0, Ensure(StackSize(None), sp))
<1>1. Statement /\ Eval(frames, g, stack)
  BY DEF ImportModule
<1>2. /\ Running /\ stack \in Seq(Memory) /\ Len(stack) = sp /\ sp \in Nat
      /\ sp > 0 => stack[1] \notin Methods
      /\ Top.kind # "native"
  BY <1>1, StatementFacts
<1>3. /\ Links(frames) /\ frames # <<>> /\ Top = Last(frames)
      /\ eval_depth = Cardinality(Evaluators(frames))
  BY <1>2, TopFacts DEF Running, Top
<1>4. /\ g \in FrameRecord /\ FrameOK(g) /\ g.kind = "script" /\ g.bp = sp /\ g.sp = sp
      /\ g.tries = 0
  BY <1>2, NewScript
<1> HIDE DEF g
<1>5. PairOK(Last(frames), g)
  BY <1>2, <1>3, <1>4 DEF PairOK
<1>6. Len(stack) = g.sp /\ g.kind # "native" /\ (g.sp > 0 => stack[1] \notin Methods)
  BY <1>2, <1>4
<1> QED
  BY <1>1, <1>2, <1>3, <1>4, <1>5, <1>6, EvalKeeps

(* The frames that called the innermost one.                               *)
LEMMA CallersFacts ==
  ASSUME IInv, frames # <<>>
  PROVE  /\ Links(Below) /\ Links(Callers)
         /\ Below = <<>> => Top.kind = "script"
         /\ Below # <<>> => PairOK(Last(Below), Top)
         /\ Native => /\ Top.kind = "user" /\ Callers # <<>>
                      /\ Last(Below).bp \in Nat /\ Last(Below).bp < Top.bp
                      /\ PairOK(Last(Callers), Last(Below))
         /\ ~Native => Callers = Below
         /\ Callers = <<>> => Below = <<>>
         /\ Callers # <<>> => /\ Last(Callers) \in FrameRecord /\ FrameOK(Last(Callers))
                              /\ Last(Callers).kind # "native"
         /\ Cardinality(Evaluators(Callers)) = eval_depth - 1
<1>1. /\ Links(frames) /\ Top = Last(frames) /\ Top.kind # "native"
      /\ eval_depth = Cardinality(Evaluators(frames)) /\ eval_depth \in Nat
  BY TopFacts DEF Top
<1>2. /\ Links(Below) /\ Below \in Seq(FrameRecord)
      /\ Cardinality(Evaluators(Below)) = eval_depth - 1
      /\ Below = <<>> => Top.kind = "script"
      /\ Below # <<>> => PairOK(Last(Below), Top)
  BY <1>1, LinksFront DEF Below
<1>3. CASE Native
  <2>1. Below # <<>> /\ Last(Below).kind = "native"
    BY <1>3 DEF Native
  <2>2. /\ Links(Front(Below)) /\ Front(Below) \in Seq(FrameRecord)
        /\ Last(Below) \in FrameRecord
        /\ Cardinality(Evaluators(Front(Below))) = Cardinality(Evaluators(Below)) - 0
        /\ Front(Below) = <<>> => Last(Below).kind = "script"
        /\ Front(Below) # <<>> => PairOK(Last(Front(Below)), Last(Below))
    BY <1>2, <2>1, LinksFront
  <2>3. Callers = Front(Below) /\ Callers # <<>>
    BY <1>3, <2>1, <2>2 DEF Callers
  <2>4. Top.kind = "user" /\ Last(Below).bp < Top.bp /\ Last(Below).bp \in Nat
    BY <1>2, <2>1, <2>2 DEF PairOK, FrameRecord
  <2>5. Last(Callers) \in FrameRecord /\ FrameOK(Last(Callers))
    BY <2>2, <2>3, LinksFront
  <2>6. Last(Callers).kind # "native"
    BY <2>1, <2>2, <2>3 DEF PairOK
  <2>7. Cardinality(Evaluators(Callers)) = eval_depth - 1
    BY <1>1, <1>2, <2>2, <2>3
  <2> QED
    BY <1>2, <1>3, <2>2, <2>3, <2>4, <2>5, <2>6, <2>7
<1>4. CASE ~Native
  <2>1. Callers = Below
    BY <1>4 DEF Callers
  <2>2. Callers # <<>> => Last(Callers) \in FrameRecord /\ FrameOK(Last(Callers))
    BY <1>2, <2>1, LinksFront
  <2> QED
    BY <1>2, <1>4, <2>1, <2>2 DEF Native
<1> QED
  BY <1>3, <1>4

(* A caller, when a function ends, is where it called it.                   *)
LEMMA CallerFacts ==
  ASSUME IInv, frames # <<>>, Callers # <<>>, Top.kind = "user"
  PROVE  /\ CallerDest \in Nat /\ CallsAt(Last(Callers), CallerDest)
         /\ CallerDest <= Top.bp /\ Top.bp < Top.sp
<1>1. Top \in FrameRecord /\ EvaluatesOK(Top) /\ Top.bp \in Nat /\ Top.sp \in Nat
  BY TopFacts DEF FrameRecord
<1>2. Top.bp < Top.sp
  <2>1. Top.bp < Base(Top) /\ Base(Top) \in Nat /\ Base(Top) <= Floor(Top) /\ Floor(Top) \in Nat
        /\ Floor(Top) <= Top.sp
    BY <1>1, FrameFacts
  <2> QED
    BY <1>1, <2>1
<1>3. CASE Native
  <2>1. /\ Last(Below).bp \in Nat /\ Last(Below).bp < Top.bp
        /\ PairOK(Last(Callers), Last(Below)) /\ Last(Callers).kind # "native"
        /\ CallerDest = Last(Below).bp /\ Last(Below).kind = "native"
    BY <1>3, CallersFacts DEF CallerDest, Native
  <2> QED
    BY <1>1, <1>2, <2>1 DEF PairOK
<1>4. CASE ~Native
  <2>1. /\ PairOK(Last(Callers), Top) /\ Last(Callers).kind # "native"
        /\ CallerDest = Top.bp
    BY <1>4, CallersFacts DEF CallerDest
  <2> QED
    BY <1>1, <1>2, <2>1 DEF PairOK
<1> QED
  BY <1>3, <1>4

LEMMA ReturnKeeps == ASSUME IInv, Return PROVE IInv'
<1> DEFINE f == Last(Callers)
           d == CallerDest
           v == Operand
           bp == Top.bp
           s == Write(stack, bp, v)
           r == Answered(f, d, v, s)
           g == r[1]
<1>1. /\ InBody /\ Running /\ frames # <<>> /\ error = None /\ Holds(1) /\ Top.kind = "user"
      /\ v \in Data \cup {Error} /\ eval_depth' = eval_depth - 1 /\ error' = error
      /\ frames' = Append(Front(Callers), g) /\ stack' = Cut(r[2], g.sp)
  BY DEF Return, InBody, Running, HasData, Leave
<1>2. /\ stack \in Seq(Memory) /\ Len(stack) = Top.sp /\ Top.sp \in Nat
      /\ Top.sp > 0 => stack[1] \notin Methods
      /\ Top \in FrameRecord /\ bp \in Nat
  BY <1>1, TopFacts DEF FrameRecord
<1>3. Callers # <<>>
  BY <1>1, CallersFacts
<1>4. /\ Links(Callers) /\ f \in FrameRecord /\ FrameOK(f) /\ f.kind # "native"
      /\ Cardinality(Evaluators(Callers)) = eval_depth - 1
  BY <1>1, <1>3, CallersFacts
<1>5. d \in Nat /\ CallsAt(f, d) /\ d <= bp /\ bp < Top.sp
  BY <1>1, <1>3, CallerFacts
<1>6. v \in Memory /\ v \notin Methods
  BY <1>1, MethodsApart
<1> HIDE DEF v, bp, d, f
<1>7. /\ s \in Seq(Memory) /\ Len(s) = Len(stack) /\ s[bp + 1] = v
      /\ \A j \in 1 .. Len(stack) : j # bp + 1 => s[j] = stack[j]
  BY <1>2, <1>5, <1>6, WriteFacts
<1> HIDE DEF s
<1>8. s[1] \notin Methods /\ d < Len(s)
  BY <1>2, <1>5, <1>6, <1>7
<1>9. /\ g \in FrameRecord /\ FrameOK(g) /\ g.kind = f.kind /\ g.bp = f.bp
      /\ r[2] \in Seq(Memory) /\ g.sp <= Len(r[2]) /\ r[2][1] \notin Methods
  BY <1>4, <1>5, <1>6, <1>7, <1>8, AnsweredIs
<1> HIDE DEF r
<1>10. g.kind = Last(Callers).kind /\ g.bp = Last(Callers).bp /\ g.sp \in Nat
  BY <1>9 DEF f, FrameRecord
<1>11. /\ Links(frames') /\ frames' # <<>> /\ Last(frames') = g
       /\ Evaluators(frames') = Evaluators(Callers)
  BY <1>1, <1>3, <1>4, <1>9, <1>10, LinksReplaced
<1>12. /\ stack' \in Seq(Memory) /\ Len(stack') = g.sp
       /\ \A i \in 1 .. g.sp : stack'[i] = r[2][i]
  <2> DEFINE t == r[2]
             n == g.sp
  <2>1. t \in Seq(Memory) /\ n \in Nat /\ n <= Len(t) /\ stack' = Cut(t, n)
    BY <1>1, <1>9, <1>10
  <2> HIDE DEF t, n
  <2>2. Cut(t, n) \in Seq(Memory) /\ Len(Cut(t, n)) = n /\ \A i \in 1 .. n : Cut(t, n)[i] = t[i]
    BY <2>1, CutFacts
  <2> QED
    BY <2>1, <2>2 DEF t, n
<1>13. stack' # <<>> => stack'[1] \notin Methods
  <2> SUFFICES ASSUME stack' # <<>> PROVE stack'[1] \notin Methods
    OBVIOUS
  <2>1. g.sp > 0
    BY <1>10, <1>12, EmptySeq
  <2>2. stack'[1] = r[2][1]
    BY <1>10, <1>12, <2>1
  <2> QED
    BY <1>9, <2>2
<1>14. SlotsOK(frames', stack', error')
  BY <1>11, <1>12, <1>13 DEF SlotsOK, Memory
<1>15. Chain(frames') /\ ErrorOK(frames', error') /\ DepthOK(frames', eval_depth')
  BY <1>1, <1>4, <1>9, <1>11 DEF Chain, ErrorOK, DepthOK
<1> QED
  BY <1>14, <1>15 DEF IInv

(* A script was begun where the stack pointer of its caller is.            *)
LEMMA ScriptFacts ==
  ASSUME IInv, frames # <<>>, Top.kind = "script"
  PROVE  /\ Callers = Below /\ ~Native /\ Top.bp \in Nat /\ Top.bp <= Top.sp
         /\ Below # <<>> => Last(Below).sp = Top.bp
<1>1. Callers = Below /\ ~Native /\ (Below # <<>> => PairOK(Last(Below), Top))
  BY CallersFacts
<1>2. Top.bp \in Nat /\ Top.bp <= Top.sp
  BY TopFacts, FrameFits DEF FrameRecord
<1>3. Below # <<>> => Last(Below).kind # "native"
  BY <1>1 DEF Native
<1> QED
  BY <1>1, <1>2, <1>3 DEF PairOK

LEMMA HaltKeeps == ASSUME IInv, Halt PROVE IInv'
<1> DEFINE bp == Top.bp
<1>1. /\ frames # <<>> /\ error = None /\ Top.kind = "script"
      /\ eval_depth' = eval_depth - 1 /\ error' = error
      /\ frames' = Below /\ stack' = Cut(stack, bp)
  BY DEF Halt, Statement, InBody, Running, Leave
<1>2. /\ stack \in Seq(Memory) /\ Len(stack) = Top.sp /\ Top.sp \in Nat
      /\ Top.sp > 0 => stack[1] \notin Methods
  BY <1>1, TopFacts
<1>3. /\ Callers = Below /\ ~Native /\ bp \in Nat /\ bp <= Top.sp
      /\ Below # <<>> => Last(Below).sp = bp
  BY <1>1, ScriptFacts
<1>4. /\ Links(Below) /\ Cardinality(Evaluators(Below)) = eval_depth - 1
      /\ Below # <<>> => Last(Below).kind # "native"
  BY <1>1, <1>3, CallersFacts
<1> HIDE DEF bp
<1>5. /\ stack' \in Seq(Memory) /\ Len(stack') = bp
      /\ \A i \in 1 .. bp : stack'[i] = stack[i]
  BY <1>1, <1>2, <1>3, CutFacts
<1>6. stack' # <<>> => stack'[1] \notin Methods
  <2> SUFFICES ASSUME stack' # <<>> PROVE stack'[1] \notin Methods
    OBVIOUS
  <2>1. bp > 0
    BY <1>3, <1>5, EmptySeq
  <2> QED
    BY <1>2, <1>3, <1>5, <2>1
<1>7. SlotsOK(frames', stack', error')
  BY <1>1, <1>3, <1>5, <1>6 DEF SlotsOK, Memory
<1>8. Chain(frames') /\ ErrorOK(frames', error') /\ DepthOK(frames', eval_depth')
  BY <1>1, <1>4 DEF Chain, ErrorOK, DepthOK
<1> QED
  BY <1>7, <1>8 DEF IInv

LEMMA UnwindKeeps == ASSUME IInv, Unwind PROVE IInv'
<1> DEFINE f == Last(Callers)
           sp == IF Top.kind = "script" THEN Top.bp ELSE CallerDest + 1
           g == [f EXCEPT !.sp = sp]
           fs == Append(Front(Callers), g)
           s == IF Native THEN Write(stack, CallerDest, Slot(Top.bp)) ELSE stack
<1>1. error # None /\ eval_depth' = eval_depth - 1
  BY DEF Unwind, Leave
<1>2. frames # <<>> /\ error \in Errors /\ error.value \notin Methods
  BY <1>1 DEF IInv, ErrorOK
<1>3. /\ stack \in Seq(Memory) /\ Len(stack) = Top.sp /\ Top.sp \in Nat /\ Top \in FrameRecord
      /\ Top.kind \in {"script", "user"}
  BY <1>2, TopFacts
<1>4. Top.sp > 0 /\ stack[1] \in Methods => Top.kind = "script" /\ Top.bp = 0
  <2>1. Top.sp > 0 => stack # <<>>
    BY <1>3
  <2> QED
    BY <2>1 DEF IInv, SlotsOK, Top
<1>5. CASE Callers = <<>>
  <2>1. frames' = <<>> /\ stack' = <<>> /\ error' = None
    BY <1>5 DEF Unwind
  <2>2. Cardinality(Evaluators(Callers)) = eval_depth - 1 /\ Links(Callers)
    BY <1>2, CallersFacts
  <2>3. <<>> \in Seq(Values \cup {Junk})
    OBVIOUS
  <2>4. Chain(frames') /\ SlotsOK(frames', stack', error') /\ ErrorOK(frames', error')
    BY <1>5, <2>1, <2>2, <2>3 DEF Chain, SlotsOK, ErrorOK
  <2>5. DepthOK(frames', eval_depth')
    BY <1>1, <1>5, <2>1, <2>2 DEF DepthOK
  <2> QED
    BY <2>4, <2>5 DEF IInv
<1>6. CASE Callers # <<>>
  <2>1. RetWithTrace(fs, s, error)
    BY <1>6 DEF Unwind
  <2>2. /\ Links(Callers) /\ f \in FrameRecord /\ FrameOK(f) /\ f.kind # "native"
        /\ Cardinality(Evaluators(Callers)) = eval_depth - 1
    BY <1>2, <1>6, CallersFacts
  <2>3. /\ g \in FrameRecord /\ FrameOK(g) /\ g.kind = f.kind /\ g.bp = f.bp
        /\ s \in Seq(Memory) /\ g.sp <= Len(s)
        /\ g.sp > 0 /\ s[1] \in Methods => g.kind = "script" /\ g.bp = 0
    <3>1. CASE Top.kind = "script"
      <4>1. /\ Callers = Below /\ ~Native /\ Top.bp \in Nat /\ Top.bp <= Top.sp
            /\ Last(Below).sp = Top.bp
        BY <1>2, <1>6, <3>1, ScriptFacts
      <4>2. sp = f.sp /\ s = stack /\ f.sp = Top.bp
        BY <3>1, <4>1
      <4>3. g = f
        <5> HIDE DEF f, sp
        <5> QED
          BY <2>2, <4>2 DEF FrameRecord
      <4> HIDE DEF f, sp, g, s
      <4> QED
        BY <1>3, <1>4, <2>2, <4>1, <4>2, <4>3
    <3>2. CASE Top.kind = "user"
      <4> DEFINE d == CallerDest
                 bp == Top.bp
                 n == d + 1
      <4>1. d \in Nat /\ CallsAt(f, d) /\ d <= bp /\ bp < Top.sp /\ bp \in Nat
        BY <1>2, <1>3, <1>6, <3>2, CallerFacts DEF FrameRecord
      <4>2. g = [f EXCEPT !.sp = n]
        BY <3>2
      <4>3. s = IF Native THEN Write(stack, d, Slot(bp)) ELSE stack
        OBVIOUS
      <4> HIDE DEF f, sp, g, s, d, bp
      <4>4. /\ f.body \/ AtDefault(f)
            /\ Floor(f) <= n /\ n <= High(f) /\ n \in Nat
            /\ d = 0 => f.kind = "script" /\ f.bp = 0
        BY <2>2, <4>1, CallerComputes
      <4>5. bp + 1 \in 1 .. Len(stack) /\ Slot(bp) \in Memory
        <5>1. bp + 1 \in 1 .. Len(stack)
          BY <1>3, <4>1
        <5> QED
          BY <1>3, <5>1 DEF Slot
      <4>6. stack[1] \notin Methods /\ d < Len(stack) /\ 1 \in 1 .. Len(stack)
        BY <1>3, <1>4, <3>2, <4>1
      <4>7. s \in Seq(Memory) /\ Len(s) = Len(stack) /\ (d # 0 => s[1] \notin Methods)
        <5>1. CASE Native
          <6> DEFINE w == Write(stack, d, Slot(bp))
          <6>1. /\ w \in Seq(Memory) /\ Len(w) = Len(stack)
                /\ \A j \in 1 .. Len(stack) : j # d + 1 => w[j] = stack[j]
            BY <1>3, <4>1, <4>5, <4>6, WriteFacts
          <6> HIDE DEF w
          <6>2. s = w
            BY <4>3, <5>1 DEF w
          <6> QED
            BY <4>1, <4>6, <6>1, <6>2
        <5>2. CASE ~Native
          BY <1>3, <4>3, <4>6, <5>2
        <5> QED
          BY <5>1, <5>2
      <4>8. n <= Len(s)
        BY <1>3, <4>1, <4>7
      <4> HIDE DEF n
      <4>9. /\ [f EXCEPT !.sp = n] \in FrameRecord /\ FrameOK([f EXCEPT !.sp = n])
            /\ Same(f, [f EXCEPT !.sp = n]) /\ [f EXCEPT !.sp = n].sp = n
        BY <2>2, <4>4, Resized
      <4>10. g \in FrameRecord /\ FrameOK(g) /\ Same(f, g) /\ g.sp = n
        BY <4>2, <4>9
      <4>11. g.kind = f.kind /\ g.bp = f.bp
        BY <4>10 DEF Same
      <4> QED
        BY <4>4, <4>7, <4>8, <4>10, <4>11
    <3> QED
      BY <1>3, <3>1, <3>2
  <2> HIDE DEF g, s
  <2>4. g.kind = Last(Callers).kind /\ g.bp = Last(Callers).bp
    BY <2>3
  <2> HIDE DEF f
  <2>5. Links(fs) /\ fs # <<>> /\ Last(fs) = g /\ Evaluators(fs) = Evaluators(Callers)
    BY <1>6, <2>2, <2>3, <2>4, LinksReplaced
  <2> HIDE DEF fs
  <2>6. Chain(fs)
    BY <2>2, <2>3, <2>5 DEF Chain
  <2>7. /\ Last(fs).sp <= Len(s)
        /\ Last(fs).sp > 0 /\ s[1] \in Methods => Last(fs).kind = "script" /\ Last(fs).bp = 0
    BY <2>3, <2>5
  <2>8. s \in Seq(Memory)
    BY <2>3
  <2>9. /\ Chain(frames') /\ SlotsOK(frames', stack', error') /\ ErrorOK(frames', error')
        /\ Evaluators(frames') = Evaluators(fs)
    BY <1>2, <2>1, <2>5, <2>6, <2>7, <2>8, Returned
  <2> QED
    BY <1>1, <2>2, <2>5, <2>9 DEF IInv, DepthOK
<1> QED
  BY <1>5, <1>6
-----------------------------------------------------------------------------
LEMMA InitIInv == Init => IInv
<1> SUFFICES ASSUME Init PROVE IInv
  OBVIOUS
<1> DEFINE g == Frame("script", None, 0, 0, Ensure(StackSize(None), 0))
<1>1. g = Frame("script", None, 0, 0, StackSize(None))
  BY ScriptRoom DEF Ensure
<1>2. /\ g \in FrameRecord /\ FrameOK(g) /\ g.kind = "script" /\ g.bp = 0 /\ g.sp = 0
  BY NewScript
<1>3. stack = <<>> /\ frames = <<g>> /\ error = None /\ eval_depth = 1
  BY <1>1 DEF Init
<1> HIDE DEF g
<1>4. /\ frames \in Seq(FrameRecord) /\ Len(frames) = 1 /\ DOMAIN frames = {1}
      /\ frames[1] = g /\ Last(frames) = g /\ frames # <<>>
  BY <1>2, <1>3 DEF Last
<1>5. Chain(frames)
  BY <1>2, <1>4 DEF Chain, Links
<1>6. SlotsOK(frames, stack, error) /\ ErrorOK(frames, error)
  <2>1. <<>> \in Seq(Values \cup {Junk}) /\ Len(<<>>) = 0
    OBVIOUS
  <2> QED
    BY <1>2, <1>3, <1>4, <2>1 DEF SlotsOK, ErrorOK
<1>7. Evaluators(frames) = {1}
  BY <1>2, <1>4 DEF Evaluators
<1>8. Cardinality({1}) = 1
  BY FS_Singleton
<1> QED
  BY <1>3, <1>5, <1>6, <1>7, <1>8 DEF IInv, DepthOK

LEMMA StepIInv == IInv /\ [Next]_vars => IInv'
<1> SUFFICES ASSUME IInv, [Next]_vars PROVE IInv'
  OBVIOUS
<1>1. CASE UNCHANGED vars
  BY <1>1 DEF vars, IInv
<1>2. CASE Next
  <2>1. ASSUME NEW v \in Constants, Push(v) PROVE IInv'
    BY <2>1, PushKeeps
  <2>2. ASSUME NEW n \in 0 .. MaxArgs, Call(n) PROVE IInv'
    BY <2>2, CallKeeps
  <2>3. ASSUME NEW n \in 0 .. MaxArgs, CallMethod(n) PROVE IInv'
    BY <2>3, CallMethodKeeps
  <2>4. CASE Ended
    BY <2>4 DEF Ended, vars, IInv
  <2> QED
    BY <1>2, <2>1, <2>2, <2>3, <2>4, PopKeeps, LoadLocalKeeps, StoreLocalKeeps, LoadThisKeeps,
       LoadMethodKeeps, ApplyDefaultArgKeeps, AllocateLocalsKeeps, PushTryKeeps, PopTryKeeps,
       ThrowKeeps, ReturnKeeps, ImportModuleKeeps, HaltKeeps, UnwindKeeps DEF Next
<1> QED
  BY <1>1, <1>2

LEMMA Invariance == Spec => []IInv
BY InitIInv, StepIInv, PTL DEF Spec

LEMMA PairBelow ==
  ASSUME NEW f \in FrameRecord, FrameOK(f), NEW g \in FrameRecord, FrameOK(g), PairOK(f, g)
  PROVE  f.bp <= g.bp
<1>1. f.bp \in Nat /\ g.bp \in Nat /\ f.sp \in Nat
  BY DEF FrameRecord
<1>2. CASE f.kind = "native"
  BY <1>1, <1>2 DEF PairOK
<1>3. CASE f.kind # "native" /\ g.kind = "script"
  BY <1>1, <1>3, FrameFits DEF PairOK
<1>4. CASE f.kind # "native" /\ g.kind # "script"
  <2>1. CallsAt(f, g.bp)
    BY <1>4 DEF PairOK
  <2> QED
    BY <1>1, <1>4, <2>1, CallerComputes
<1> QED
  BY <1>2, <1>3, <1>4

LEMMA IInvTypeOK == IInv => TypeOK
<1> SUFFICES ASSUME IInv PROVE TypeOK
  OBVIOUS
<1>1. Links(frames) /\ frames \in Seq(FrameRecord)
  BY DEF IInv, Chain, Links
<1>2. stack \in Seq(Values \cup {Junk}) /\ (frames # <<>> => Len(stack) = Top.sp)
  BY DEF IInv, SlotsOK, Top
<1>3. ASSUME NEW d \in DOMAIN frames
      PROVE  LET f == frames[d] IN
             /\ f.kind \in {"script", "user", "native"}
             /\ f.bp <= f.sp
             /\ d > 1 => frames[d - 1].bp <= f.bp
  <2> DEFINE f == frames[d]
  <2>1. f \in FrameRecord /\ FrameOK(f)
    BY <1>1 DEF Links
  <2>2. f.bp <= f.sp /\ f.kind \in {"script", "user", "native"}
    BY <2>1, FrameFits DEF FrameRecord, FrameOK
  <2>3. ASSUME d > 1 PROVE frames[d - 1].bp <= f.bp
    <3> DEFINE e == frames[d - 1]
    <3>1. d \in DOMAIN frames /\ d - 1 \in DOMAIN frames
      BY <1>1, <2>3
    <3>2. PairOK(e, f) /\ FrameOK(e)
      BY <2>3, <3>1 DEF IInv, Chain, Links
    <3>3. e \in FrameRecord
      BY <1>1, <3>1
    <3> QED
      BY <2>1, <3>2, <3>3, PairBelow
  <2> QED
    BY <2>2, <2>3
<1>4. error # None => error.value \in Values /\ error.tb # <<>>
  BY DEF IInv, ErrorOK, Errors
<1>5. eval_depth = Cardinality(Evaluators(frames))
  BY DEF IInv, DepthOK
<1> QED
  BY <1>2, <1>3, <1>4, <1>5 DEF TypeOK

LEMMA IInvRoom == IInv => RoomSuffices
<1> SUFFICES ASSUME IInv, NEW d \in DOMAIN frames, frames[d].kind # "native"
             PROVE  frames[d].sp <= frames[d].room + (Low(frames[d]) - Base(frames[d]))
  BY DEF RoomSuffices, Evaluators
<1>1. Links(frames) /\ frames \in Seq(FrameRecord)
  BY DEF IInv, Chain, Links
<1>2. frames[d] \in FrameRecord /\ FrameOK(frames[d])
  BY <1>1 DEF Links
<1> QED
  BY <1>2, FrameFits

(* eval.c: the slots hold values, each frame lies above its caller's base   *)
(* pointer, an error that is unwinding has a traceback, and eval_depth is   *)
(* the number of calls of cb_eval that have not ended.                     *)
THEOREM TypeCorrect == Spec => []TypeOK
BY Invariance, IInvTypeOK, PTL

(* eval.c, compiler.c: no code that is evaluated, whether it runs or has   *)
(* called other code, and however that ended, uses a slot above those that *)
(* ensure_stack made room for when it was called, but for as many as       *)
(* caught errors have left in its frame.                                   *)
THEOREM RoomAlwaysSuffices == Spec => []RoomSuffices
BY Invariance, IInvRoom, PTL
-----------------------------------------------------------------------------
(* The activations of a chain of frames.                                   *)

(* A set of numbers that is not empty has a least one.                     *)
LEMMA LeastNumber ==
  ASSUME NEW S \in SUBSET Nat, S # {}
  PROVE  \E m \in S : \A n \in S : m <= n
<1> DEFINE Less == {ss \in Nat \X Nat : ss[1] < ss[2]}
<1>1. IsWellFoundedOn(Less, Nat)
  BY NatLessThanWellFounded DEF OpToRel
<1>2. PICK m \in S : \A n \in S : <<n, m>> \notin Less
  <2> HIDE DEF Less
  <2> QED
    BY <1>1, WFMin, Zenon
<1>3. ASSUME NEW n \in S PROVE m <= n
  <2>1. n \in Nat /\ m \in Nat /\ <<n, m>> \notin Less
    BY <1>2
  <2> QED
    BY <2>1
<1> QED
  BY <1>3

LEMMA LinkedFrames ==
  ASSUME NEW fs, Links(fs)
  PROVE  /\ fs \in Seq(FrameRecord) /\ Len(fs) \in Nat /\ DOMAIN fs = 1 .. Len(fs)
         /\ \A j \in DOMAIN fs : fs[j] \in FrameRecord /\ FrameOK(fs[j]) /\ fs[j].bp \in Nat
         /\ \A j \in DOMAIN fs : j > 1 => PairOK(fs[j - 1], fs[j])
<1>1. fs \in Seq(FrameRecord)
  BY DEF Links
<1>2. Len(fs) \in Nat /\ DOMAIN fs = 1 .. Len(fs)
  BY <1>1, LenProperties
<1>3. \A j \in DOMAIN fs : fs[j] \in FrameRecord
  BY <1>1, <1>2
<1>4. \A f \in FrameRecord : f.bp \in Nat
  BY DEF FrameRecord
<1>5. /\ \A j \in DOMAIN fs : FrameOK(fs[j])
      /\ \A j \in DOMAIN fs : j > 1 => PairOK(fs[j - 1], fs[j])
  BY DEF Links
<1> QED
  BY <1>1, <1>2, <1>3, <1>4, <1>5

LEMMA PairAt ==
  ASSUME NEW fs, Links(fs), NEW d \in Nat, d > 0, d + 1 \in DOMAIN fs
  PROVE  PairOK(fs[d], fs[d + 1])
<1> DEFINE k == d + 1
<1>1. d = k - 1 /\ k > 1
  OBVIOUS
<1> HIDE DEF k
<1>2. k \in DOMAIN fs
  BY DEF k
<1>3. PairOK(fs[k - 1], fs[k])
  BY <1>1, <1>2 DEF Links
<1> QED
  BY <1>1, <1>3 DEF k

(* The base pointers of a chain grow.                                      *)
LEMMA BasesGrow ==
  ASSUME NEW fs, Links(fs), NEW d \in DOMAIN fs, NEW k \in DOMAIN fs, d <= k
  PROVE  fs[d].bp <= fs[k].bp
<1> SUFFICES ASSUME ~(fs[d].bp <= fs[k].bp) PROVE FALSE
  OBVIOUS
<1>1. /\ fs \in Seq(FrameRecord) /\ Len(fs) \in Nat /\ DOMAIN fs = 1 .. Len(fs)
      /\ \A j \in DOMAIN fs : fs[j] \in FrameRecord /\ FrameOK(fs[j]) /\ fs[j].bp \in Nat
      /\ \A j \in DOMAIN fs : j > 1 => PairOK(fs[j - 1], fs[j])
  BY LinkedFrames
<1> DEFINE S == {j \in 1 .. Len(fs) : d <= j /\ ~(fs[d].bp <= fs[j].bp)}
<1>2. S \in SUBSET Nat /\ k \in S
  BY <1>1
<1>3. PICK m \in S : \A n \in S : m <= n
  BY <1>2, LeastNumber
<1>4. m # d /\ m \in 1 .. Len(fs) /\ d \in 1 .. Len(fs) /\ d <= m
  BY <1>1
<1>5. m - 1 \in DOMAIN fs /\ m > 1 /\ m - 1 \notin S /\ d <= m - 1
  BY <1>1, <1>3, <1>4
<1>6. fs[m - 1].bp <= fs[m].bp
  BY <1>1, <1>4, <1>5, PairBelow
<1>7. fs[d].bp <= fs[m - 1].bp
  BY <1>1, <1>5
<1> QED
  BY <1>1, <1>4, <1>5, <1>6, <1>7
-----------------------------------------------------------------------------
(* EvaluatorAt counts the evaluators.                                      *)
Rank(fs, d) == Cardinality(Evaluators(fs) \cap 1 .. d)

LEMMA RankFacts ==
  ASSUME NEW fs \in Seq(FrameRecord)
  PROVE  /\ IsFiniteSet(Evaluators(fs)) /\ Cardinality(Evaluators(fs)) \in Nat
         /\ \A d : Rank(fs, d) \in Nat /\ Rank(fs, d) <= Cardinality(Evaluators(fs))
         /\ \A d \in Evaluators(fs) : Rank(fs, d) > 0
         /\ \A c, d \in Evaluators(fs) : c < d => Rank(fs, c) < Rank(fs, d)
         /\ Rank(fs, Len(fs)) = Cardinality(Evaluators(fs))
<1> DEFINE E == Evaluators(fs)
<1>1. IsFiniteSet(E) /\ Cardinality(E) \in Nat
  BY EvaluatorsFinite
<1>2. Len(fs) \in Nat /\ E \subseteq 1 .. Len(fs)
  BY LenProperties DEF Evaluators
<1>3. \A d : Rank(fs, d) = Cardinality(E \cap 1 .. d)
  BY DEF Rank
<1> HIDE DEF E
<1>4. \A d : IsFiniteSet(E \cap 1 .. d)
  BY <1>1, FS_Subset
<1>5. \A d : Rank(fs, d) \in Nat /\ Rank(fs, d) <= Cardinality(E)
  <2> SUFFICES ASSUME NEW d PROVE Rank(fs, d) \in Nat /\ Rank(fs, d) <= Cardinality(E)
    OBVIOUS
  <2>1. E \cap 1 .. d \in SUBSET E
    OBVIOUS
  <2> QED
    <3>1. Cardinality(E \cap 1 .. d) \in Nat
      BY <1>4, FS_CardinalityType
    <3>2. Cardinality(E \cap 1 .. d) <= Cardinality(E)
      BY <1>1, <2>1, FS_Subset
    <3> QED
      BY <1>3, <3>1, <3>2
<1>6. ASSUME NEW d \in E PROVE Rank(fs, d) > 0
  <2>1. d \in E \cap 1 .. d
    BY <1>2
  <2>2. Cardinality(E \cap 1 .. d) # 0
    BY <1>4, <2>1, FS_EmptySet
  <2> QED
    BY <1>3, <1>5, <2>2
<1>7. ASSUME NEW c \in E, NEW d \in E, c < d PROVE Rank(fs, c) < Rank(fs, d)
  <2>1. E \cap 1 .. c \in SUBSET (E \cap 1 .. d) /\ d \in E \cap 1 .. d /\ d \notin E \cap 1 .. c
    BY <1>2, <1>7
  <2>2. /\ Cardinality(E \cap 1 .. c) <= Cardinality(E \cap 1 .. d)
        /\ Cardinality(E \cap 1 .. c) # Cardinality(E \cap 1 .. d)
    BY <1>4, <2>1, FS_Subset
  <2> QED
    BY <1>3, <1>5, <2>2
<1>8. E \cap 1 .. Len(fs) = E
  BY <1>2
<1> QED
  BY <1>1, <1>3, <1>5, <1>6, <1>7, <1>8 DEF E

LEMMA RankedAt ==
  ASSUME NEW fs \in Seq(FrameRecord)
  PROVE  /\ \A d \in Evaluators(fs) :
              /\ Rank(fs, d) \in 1 .. Cardinality(Evaluators(fs))
              /\ EvaluatorAt(fs, Rank(fs, d)) = d
         /\ \A i \in 1 .. Cardinality(Evaluators(fs)) :
              EvaluatorAt(fs, i) \in Evaluators(fs) /\ Rank(fs, EvaluatorAt(fs, i)) = i
<1> DEFINE E == Evaluators(fs)
           n == Cardinality(E)
           r == [d \in E |-> Rank(fs, d)]
<1>1. /\ IsFiniteSet(E) /\ n \in Nat
      /\ \A d : Rank(fs, d) \in Nat /\ Rank(fs, d) <= n
      /\ \A d \in E : Rank(fs, d) > 0
      /\ \A c, d \in E : c < d => Rank(fs, c) < Rank(fs, d)
  BY RankFacts
<1>2. E \subseteq Nat
  BY LenProperties DEF Evaluators
<1> DEFINE At(d, i) ==
             /\ fs[d].kind # "native"
             /\ d = i + Cardinality({c \in 1 .. d : fs[c].kind = "native"})
<1>3. \A i : EvaluatorAt(fs, i) = CHOOSE d \in i .. Len(fs) : At(d, i)
  BY DEF EvaluatorAt
<1>4. Len(fs) \in Nat /\ \A d : d \in E <=> d \in 1 .. Len(fs) /\ fs[d].kind # "native"
  BY LenProperties DEF Evaluators
<1>5. ASSUME NEW d \in 1 .. Len(fs), NEW i \in Nat
       PROVE  At(d, i) <=> d \in E /\ Rank(fs, d) = i
  <2> DEFINE natives == {c \in 1 .. d : fs[c].kind = "native"}
             rest == E \cap 1 .. d
  <2>1. natives = (1 .. d) \ rest /\ (1 .. d) \cap rest = rest
    BY <1>4
  <2>2. IsFiniteSet(1 .. d) /\ Cardinality(1 .. d) = d
    <3>1. d \in Nat
      BY <1>4
    <3> QED
      BY <3>1, FS_Interval
  <2>3. Cardinality(natives) = d - Rank(fs, d)
    <3> HIDE DEF natives, rest
    <3>1. Cardinality((1 .. d) \ rest) = Cardinality(1 .. d) - Cardinality((1 .. d) \cap rest)
      BY <2>2, FS_Difference
    <3> QED
      BY <2>1, <2>2, <3>1 DEF Rank, rest
  <2>4. At(d, i) <=> fs[d].kind # "native" /\ d = i + Cardinality(natives)
    OBVIOUS
  <2> DEFINE before == Rank(fs, d)
             m == Cardinality(natives)
  <2>5. d \in Nat /\ before \in Nat /\ m = d - before
    BY <1>4, <1>1, <2>3
  <2> HIDE DEF before, m
  <2>6. d = i + m <=> before = i
    BY <2>5
  <2> QED
    BY <1>4, <2>4, <2>6 DEF before, m
<1> HIDE DEF E, At
<1>6. \A d \in E : Rank(fs, d) \in 1 .. n
  BY <1>1
<1>7. \A c, d \in E : Rank(fs, c) = Rank(fs, d) => c = d
  BY <1>1, <1>2
<1>8. r \in Injection(E, 1 .. n)
  BY <1>6, <1>7 DEF Injection, IsInjective
<1>9. IsFiniteSet(1 .. n) /\ Cardinality(1 .. n) = n
  BY <1>1, FS_Interval
<1>10. r \in Surjection(E, 1 .. n)
  BY <1>8, <1>9, FS_Injection
<1>11. \A i \in 1 .. n : \E d \in E : Rank(fs, d) = i
  BY <1>10 DEF Surjection
<1>12. ASSUME NEW i \in 1 .. n
       PROVE  EvaluatorAt(fs, i) \in E /\ Rank(fs, EvaluatorAt(fs, i)) = i
  <2>1. PICK d \in E : Rank(fs, d) = i
    BY <1>11
  <2>2. i \in Nat /\ d \in 1 .. Len(fs)
    BY <1>4, <1>1
  <2>3. At(d, i)
    BY <1>5, <2>1, <2>2
  <2>4. i <= d
    <3> DEFINE m == Cardinality({c \in 1 .. d : fs[c].kind = "native"})
    <3>1. m \in Nat
      <4>1. IsFiniteSet(1 .. d)
        BY <1>4, <2>2, FS_Interval
      <4> QED
        BY <4>1, FS_Subset, FS_CardinalityType
    <3>2. d = i + m
      BY <2>3 DEF At
    <3> HIDE DEF m
    <3> QED
      BY <2>2, <3>1, <3>2
  <2>5. d \in i .. Len(fs)
    BY <1>4, <2>2, <2>4
  <2> DEFINE e == EvaluatorAt(fs, i)
  <2>6. e \in i .. Len(fs) /\ At(e, i)
    BY <1>3, <2>3, <2>5
  <2> HIDE DEF e
  <2>7. e \in 1 .. Len(fs)
    BY <1>4, <2>2, <2>6
  <2> QED
    BY <1>5, <2>2, <2>6, <2>7 DEF e
<1>13. \A d \in E : EvaluatorAt(fs, Rank(fs, d)) = d
  BY <1>6, <1>7, <1>12
<1> QED
  BY <1>6, <1>12, <1>13 DEF E

(* Frames above a chain leave its evaluators where they are.               *)
LEMMA RanksKept ==
  ASSUME NEW fs \in Seq(FrameRecord), NEW gs \in Seq(FrameRecord), Len(fs) <= Len(gs),
         \A d \in 1 .. Len(fs) : gs[d].kind = fs[d].kind
  PROVE  \A i \in 1 .. Cardinality(Evaluators(fs)) :
           EvaluatorAt(gs, i) = EvaluatorAt(fs, i) /\ EvaluatorAt(fs, i) \in Evaluators(fs)
<1>1. /\ Len(fs) \in Nat /\ DOMAIN fs = 1 .. Len(fs)
      /\ Len(gs) \in Nat /\ DOMAIN gs = 1 .. Len(gs)
  BY LenProperties
<1>2. \A d \in 1 .. Len(fs) : d \in Evaluators(fs) <=> d \in Evaluators(gs)
  BY <1>1 DEF Evaluators
<1>3. ASSUME NEW d \in 1 .. Len(fs) PROVE Rank(fs, d) = Rank(gs, d)
  <2>1. \A c \in 1 .. d : c \in 1 .. Len(fs)
    BY <1>1
  <2>2. Evaluators(fs) \cap 1 .. d = Evaluators(gs) \cap 1 .. d
    BY <1>2, <2>1
  <2> QED
    BY <2>2 DEF Rank
<1> SUFFICES ASSUME NEW i \in 1 .. Cardinality(Evaluators(fs))
             PROVE  /\ EvaluatorAt(gs, i) = EvaluatorAt(fs, i)
                    /\ EvaluatorAt(fs, i) \in Evaluators(fs)
  OBVIOUS
<1>4. EvaluatorAt(fs, i) \in Evaluators(fs) /\ Rank(fs, EvaluatorAt(fs, i)) = i
  BY RankedAt
<1> DEFINE c == EvaluatorAt(fs, i)
<1> HIDE DEF c
<1>5. c \in Evaluators(fs) /\ Rank(fs, c) = i
  BY <1>4 DEF c
<1>6. c \in 1 .. Len(fs)
  BY <1>1, <1>5 DEF Evaluators
<1>7. c \in Evaluators(gs) /\ Rank(gs, c) = i
  BY <1>2, <1>3, <1>5, <1>6
<1>8. EvaluatorAt(gs, Rank(gs, c)) = c
  BY <1>7, RankedAt
<1> QED
  BY <1>4, <1>7, <1>8 DEF c

(* The innermost frame is the last evaluator.                              *)
LEMMA LastRank ==
  ASSUME NEW fs, Chain(fs), fs # <<>>
  PROVE  LET n == Cardinality(Evaluators(fs)) IN
         /\ n \in Nat /\ n > 0 /\ EvaluatorAt(fs, n) = Len(fs) /\ Len(fs) \in Evaluators(fs)
         /\ \A i \in 1 .. n - 1 : /\ EvaluatorAt(fs, i) \in Evaluators(fs)
                                  /\ EvaluatorAt(fs, i) < Len(fs)
<1>1. /\ fs \in Seq(FrameRecord) /\ Len(fs) \in Nat /\ DOMAIN fs = 1 .. Len(fs) /\ Len(fs) > 0
  BY LinkedFrames, EmptySeq DEF Chain
<1>2. Len(fs) \in Evaluators(fs) /\ Evaluators(fs) \subseteq 1 .. Len(fs)
  BY <1>1 DEF Evaluators, Chain, Last
<1>3. /\ Rank(fs, Len(fs)) = Cardinality(Evaluators(fs)) /\ Rank(fs, Len(fs)) > 0
      /\ Cardinality(Evaluators(fs)) \in Nat
  BY <1>1, <1>2, RankFacts
<1>4. EvaluatorAt(fs, Cardinality(Evaluators(fs))) = Len(fs)
  BY <1>1, <1>2, <1>3, RankedAt
<1>5. ASSUME NEW i \in 1 .. Cardinality(Evaluators(fs)) - 1
      PROVE  EvaluatorAt(fs, i) \in Evaluators(fs) /\ EvaluatorAt(fs, i) < Len(fs)
  <2>1. i \in 1 .. Cardinality(Evaluators(fs)) /\ i # Cardinality(Evaluators(fs))
    BY <1>3
  <2>2. EvaluatorAt(fs, i) \in Evaluators(fs) /\ Rank(fs, EvaluatorAt(fs, i)) = i
    BY <1>1, <2>1, RankedAt
  <2>3. EvaluatorAt(fs, i) # Len(fs)
    BY <1>3, <2>1, <2>2
  <2> QED
    BY <1>1, <1>2, <2>2, <2>3
<1> QED
  BY <1>2, <1>3, <1>4, <1>5
-----------------------------------------------------------------------------
LEMMA SlotsFacts ==
  ASSUME NEW s \in Seq(Memory), NEW i \in Nat, NEW j \in Nat, i <= j, j <= Len(s)
  PROVE  /\ Slots(s, i, j) \in Seq(Memory) /\ Len(Slots(s, i, j)) = j - i
         /\ \A k \in 1 .. j - i : Slots(s, i, j)[k] = s[i + k]
<1>1. Len(s) \in Nat
  BY LenProperties
<1>2. /\ SubSeq(s, i + 1, j) \in Seq(Memory)
      /\ Len(SubSeq(s, i + 1, j)) = j - i
      /\ \A k \in 1 .. j - i : SubSeq(s, i + 1, j)[k] = s[i + k]
  <2>1. \A m \in 1 .. Len(s) + 1 : \A n \in m - 1 .. Len(s) :
          /\ SubSeq(s, m, n) \in Seq(Memory)
          /\ Len(SubSeq(s, m, n)) = n - m + 1
          /\ \A k \in 1 .. n - m + 1 : SubSeq(s, m, n)[k] = s[m + k - 1]
    BY SubSeqProperties
  <2>2. i + 1 \in 1 .. Len(s) + 1 /\ j \in i + 1 - 1 .. Len(s)
    BY <1>1
  <2>3. j - (i + 1) + 1 = j - i /\ \A k \in 1 .. j - i : i + 1 + k - 1 = i + k
    OBVIOUS
  <2> QED
    BY <2>1, <2>2, <2>3
<1> QED
  BY <1>2 DEF Slots

LEMMA NoSlots == \A s : \A i \in Int : Slots(s, i, i) = <<>>
BY DEF Slots

LEMMA SameSeq ==
  ASSUME NEW T, NEW s \in Seq(T), NEW t \in Seq(T), Len(s) = Len(t),
         \A k \in 1 .. Len(s) : s[k] = t[k]
  PROVE  s = t
BY SeqEqual

LEMMA FrontItems ==
  ASSUME NEW T, NEW s \in Seq(T), NEW n \in Nat, n > 0, Len(s) = n
  PROVE  /\ Front(s) \in Seq(T) /\ Len(Front(s)) = n - 1
         /\ \A i \in 1 .. n - 1 : Front(s)[i] = s[i]
<1> DEFINE m == n - 1
<1>1. Front(s) = SubSeq(s, 1, m) /\ m \in Nat
  BY DEF Front
<1>2. \A i \in 1 .. m : s[i] \in T
  OBVIOUS
<1> HIDE DEF m
<1>3. /\ SubSeq(s, 1, m) \in Seq(T) /\ Len(SubSeq(s, 1, m)) = m
      /\ \A i \in 1 .. m : SubSeq(s, 1, m)[i] = s[i]
  BY <1>1, <1>2, SubSeqProperties
<1> QED
  BY <1>1, <1>3 DEF m

LEMMA SlotsAgree ==
  ASSUME NEW s \in Seq(Memory), NEW t \in Seq(Memory), NEW i \in Nat, NEW j \in Nat, i <= j,
         j <= Len(s), j <= Len(t), \A k \in 1 .. j : t[k] = s[k]
  PROVE  Slots(t, i, j) = Slots(s, i, j)
<1>1. /\ Slots(s, i, j) \in Seq(Memory) /\ Len(Slots(s, i, j)) = j - i
      /\ \A k \in 1 .. j - i : Slots(s, i, j)[k] = s[i + k]
  BY SlotsFacts
<1>2. /\ Slots(t, i, j) \in Seq(Memory) /\ Len(Slots(t, i, j)) = j - i
      /\ \A k \in 1 .. j - i : Slots(t, i, j)[k] = t[i + k]
  BY SlotsFacts
<1>3. \A k \in 1 .. j - i : i + k \in 1 .. j
  OBVIOUS
<1> QED
  BY <1>1, <1>2, <1>3, SameSeq

(* One slot more.                                                          *)
LEMMA SlotsMore ==
  ASSUME NEW s \in Seq(Memory), NEW i \in Nat, NEW j \in Nat, i <= j, j < Len(s)
  PROVE  /\ Slots(s, i, j + 1) = Append(Slots(s, i, j), s[j + 1])
         /\ Front(Slots(s, i, j + 1)) = Slots(s, i, j)
         /\ Last(Slots(s, i, j + 1)) = s[j + 1] /\ s[j + 1] \in Memory
         /\ Slots(s, i, j + 1) # <<>>
<1>0. j <= Len(s) /\ j + 1 \in Nat /\ i <= j + 1 /\ j + 1 <= Len(s)
  BY LenProperties
<1>1. /\ Slots(s, i, j) \in Seq(Memory) /\ Len(Slots(s, i, j)) = j - i
      /\ \A k \in 1 .. j - i : Slots(s, i, j)[k] = s[i + k]
  BY <1>0, SlotsFacts
<1>2. /\ Slots(s, i, j + 1) \in Seq(Memory) /\ Len(Slots(s, i, j + 1)) = j + 1 - i
      /\ \A k \in 1 .. j + 1 - i : Slots(s, i, j + 1)[k] = s[i + k]
  <2>1. \A h \in Nat : i <= h /\ h <= Len(s) =>
          /\ Slots(s, i, h) \in Seq(Memory) /\ Len(Slots(s, i, h)) = h - i
          /\ \A k \in 1 .. h - i : Slots(s, i, h)[k] = s[i + k]
    BY SlotsFacts
  <2> QED
    BY <1>0, <2>1
<1> DEFINE a == Slots(s, i, j)
           b == Slots(s, i, j + 1)
           m == j - i
<1>3. m \in Nat /\ j + 1 - i = m + 1 /\ i + (m + 1) = j + 1
  OBVIOUS
<1>4. /\ a \in Seq(Memory) /\ Len(a) = m /\ \A k \in 1 .. m : a[k] = s[i + k]
      /\ b \in Seq(Memory) /\ Len(b) = m + 1 /\ \A k \in 1 .. m + 1 : b[k] = s[i + k]
  BY <1>1, <1>2, <1>3
<1>5. s[j + 1] \in Memory
  OBVIOUS
<1> DEFINE v == s[j + 1]
<1> HIDE DEF a, b, m, v
<1>6. b[m + 1] = v /\ \A k \in 1 .. m : b[k] = a[k]
  <2>1. m + 1 \in 1 .. m + 1 /\ \A k \in 1 .. m : k \in 1 .. m + 1
    BY <1>3
  <2>2. b[m + 1] = s[j + 1]
    BY <1>3, <1>4, <2>1
  <2>3. \A k \in 1 .. m : b[k] = a[k]
    BY <1>4, <2>1
  <2> QED
    BY <2>2, <2>3 DEF v
<1>7. /\ Append(a, v) \in Seq(Memory) /\ Len(Append(a, v)) = m + 1
      /\ Append(a, v)[m + 1] = v /\ \A k \in 1 .. m : Append(a, v)[k] = a[k]
  BY <1>4, <1>5, AppendProperties DEF v
<1>8. b = Append(a, v)
  <2>1. \A k \in 1 .. m + 1 : Append(a, v)[k] = b[k]
    BY <1>3, <1>6, <1>7, OneMore
  <2> QED
    BY <1>4, <1>7, <2>1, SameSeq
<1>9. Last(b) = v /\ b # <<>>
  BY <1>3, <1>4, <1>6, EmptySeq DEF Last
<1>10. Front(b) = a
  <2>1. Front(b) \in Seq(Memory) /\ Len(Front(b)) = m /\ \A k \in 1 .. m : Front(b)[k] = b[k]
    BY <1>3, <1>4 DEF Front
  <2> QED
    BY <1>4, <1>6, <2>1, SameSeq
<1> QED
  BY <1>5, <1>8, <1>9, <1>10 DEF a, b, v
-----------------------------------------------------------------------------
(* The activation of a frame: its type, and what of the stack it reads.    *)
ActType ==
  [fn : DOMAIN Code \cup {None}, vars : Seq(Memory), operands : Seq(Memory),
   this : Memory \cup {None}, tries : Nat]
Acts == Seq(ActType)

(* A frame that evaluates code.                                            *)
Evaluates(f) == f \in FrameRecord /\ EvaluatesOK(f) /\ f.kind # "native"

LEMMA EvaluatesFacts ==
  ASSUME NEW f, Evaluates(f)
  PROVE  /\ f.bp \in Nat /\ Base(f) \in Nat /\ f.bp <= Base(f) /\ f.sp \in Nat /\ Base(f) <= f.sp
         /\ f.open \in Seq(Nat) /\ f.tries \in Nat /\ f.kind \in {"script", "user"}
         /\ f.fn \in DOMAIN Code \cup {None} /\ f.body \in BOOLEAN
         /\ f.kind = "user" => f.fn \in DOMAIN Code /\ f.bp < Base(f)
         /\ f.kind = "script" => f.fn = None /\ Base(f) = f.bp
         /\ f.fn \in Methods => f.kind = "user" /\ f.bp > 0
         /\ \A i \in DOMAIN f.open : f.open[i] \in Nat /\ f.open[i] > Low(f) /\ f.open[i] > Base(f)
         /\ \A i, j \in DOMAIN f.open : i < j => f.open[i] + 2 <= f.open[j]
<1>1. /\ f.bp \in Nat /\ f.sp \in Nat /\ f.open \in Seq(Nat) /\ f.tries \in Nat
      /\ f.kind \in {"script", "user"} /\ f.body \in BOOLEAN
  BY DEF Evaluates, FrameRecord
<1>2. /\ Base(f) \in Nat /\ f.bp <= Base(f) /\ (f.kind = "user" => f.bp < Base(f))
      /\ Low(f) \in Nat /\ Base(f) <= Low(f)
      /\ Floor(f) \in Nat /\ Base(f) <= Floor(f) /\ Floor(f) <= f.sp
  BY FrameFacts DEF Evaluates
<1>3. /\ f.kind = "user" => f.fn \in DOMAIN Code
      /\ f.kind = "script" => f.fn = None
      /\ f.kind = "user" /\ f.fn \in Methods => f.bp > 0
  BY DEF Evaluates, EvaluatesOK, UserOK, ScriptOK
<1>4. f.kind = "script" => Base(f) = f.bp
  BY BaseIs DEF Evaluates
<1>5. Methods \subseteq DOMAIN Code /\ None \notin DOMAIN Code
  BY ConstantsAssumption, CodeNames
<1>6. f.fn \in Methods => f.kind = "user" /\ f.bp > 0
  BY <1>1, <1>3, <1>5
<1>7. /\ \A i \in DOMAIN f.open : f.open[i] > Low(f)
      /\ \A i, j \in DOMAIN f.open : i < j => f.open[i] + 2 <= f.open[j]
  BY DEF Evaluates, EvaluatesOK, OperandsOK
<1>8. \A i \in DOMAIN f.open : f.open[i] \in Nat
  BY <1>1
<1>9. \A i \in DOMAIN f.open : f.open[i] > Base(f)
  BY <1>2, <1>7, <1>8
<1>10. f.fn \in DOMAIN Code \cup {None} /\ Base(f) <= f.sp
  BY <1>1, <1>2, <1>3
<1> QED
  BY <1>1, <1>2, <1>3, <1>4, <1>6, <1>7, <1>8, <1>9, <1>10

(* The variables that have a value are below the operands.                 *)
LEMMA VariablesFit ==
  ASSUME NEW f, Evaluates(f)
  PROVE  /\ Variables(f) \in Nat
         /\ f.kind = "script" => Variables(f) = 0
         /\ f.kind = "user" => f.bp + 1 + Variables(f) <= Base(f)
<1>1. /\ f.bp \in Nat /\ f.num_args \in Nat /\ f.phase \in Nat /\ f.num \in Nat
      /\ f.kind \in {"script", "user"} /\ f.body \in BOOLEAN
  BY DEF Evaluates, FrameRecord
<1>2. CASE f.kind = "script"
  <2>1. f.body /\ f.num = 0
    BY <1>2 DEF Evaluates, EvaluatesOK, ScriptOK
  <2> QED
    BY <1>2, <2>1 DEF Variables
<1>3. CASE f.kind = "user"
  <2>1. f.fn \in DOMAIN Code /\ f.num <= Code[f.fn].params + Code[f.fn].locals
    BY <1>3 DEF Evaluates, EvaluatesOK, UserOK
  <2>2. Code[f.fn].params \in Nat /\ Code[f.fn].locals \in Nat
    BY <2>1, CodeFacts
  <2>3. /\ f.body => Base(f) = f.bp + 1 + Max2(f.num_args, Code[f.fn].params) + Code[f.fn].locals
        /\ ~f.body => Base(f) = f.bp + 1 + Max2(f.num_args, f.phase)
    BY <1>3, <2>1, BaseIs DEF Evaluates
  <2>4. CASE f.body
    <3>1. Max2(f.num_args, Code[f.fn].params) \in Nat
          /\ Max2(f.num_args, Code[f.fn].params) >= Code[f.fn].params
      BY <1>1, <2>2, MaxFacts
    <3>2. Variables(f) = f.num
      BY <2>4 DEF Variables
    <3> QED
      BY <1>1, <1>3, <2>1, <2>2, <2>3, <2>4, <3>1, <3>2
  <2>5. CASE ~f.body
    <3>1. Max2(f.num_args, f.phase) \in Nat
      BY <1>1, MaxFacts
    <3> DEFINE m == Max2(f.num_args, f.phase)
    <3>2. Variables(f) = Min2(m, Code[f.fn].params)
      BY <2>5 DEF Variables
    <3> HIDE DEF m
    <3>3. Min2(m, Code[f.fn].params) \in Nat /\ Min2(m, Code[f.fn].params) <= m
      BY <2>2, <3>1 DEF Min2, m
    <3>4. Base(f) = f.bp + 1 + m
      BY <2>3, <2>5 DEF m
    <3> QED
      BY <1>1, <1>3, <3>1, <3>2, <3>3, <3>4 DEF m
  <2> QED
    BY <2>4, <2>5
<1> QED
  BY <1>1, <1>2, <1>3

LEMMA ActivationFacts ==
  ASSUME NEW f, Evaluates(f), NEW s \in Seq(Memory), NEW end \in Nat, Base(f) <= end,
         end <= Len(s)
  PROVE  LET a == ActivationOf(f, s, end) IN
         /\ a \in ActType /\ a.fn = f.fn /\ a.operands = Slots(s, Base(f), end)
         /\ a.vars = Slots(s, f.bp + 1, f.bp + 1 + Variables(f))
         /\ a.vars \in Seq(Memory) /\ Len(a.vars) = Variables(f)
         /\ \A k \in 1 .. Variables(f) : a.vars[k] = s[f.bp + 1 + k]
         /\ a.operands \in Seq(Memory) /\ Len(a.operands) = end - Base(f)
         /\ a.this = IF f.fn \in Methods THEN s[f.bp] ELSE None
         /\ a.tries = f.tries
<1> DEFINE a == ActivationOf(f, s, end)
           vs == Slots(s, f.bp + 1, f.bp + 1 + Variables(f))
           this == IF f.fn \in Methods THEN s[f.bp] ELSE None
<1>1. /\ f.bp \in Nat /\ Base(f) \in Nat /\ f.bp <= Base(f) /\ f.kind \in {"script", "user"}
      /\ f.fn \in DOMAIN Code \cup {None} /\ (f.fn \in Methods => f.bp > 0)
  BY EvaluatesFacts
<1>2. Variables(f) \in Nat /\ (f.kind = "script" => Variables(f) = 0)
      /\ (f.kind = "user" => f.bp + 1 + Variables(f) <= Base(f))
  BY VariablesFit
<1>3. Len(s) \in Nat /\ <<>> \in Seq(Memory) /\ Len(<<>>) = 0
  BY LenProperties
<1>4. /\ vs \in Seq(Memory) /\ Len(vs) = Variables(f)
      /\ \A k \in 1 .. Variables(f) : vs[k] = s[f.bp + 1 + k]
  <2>1. CASE f.kind = "script"
    <3>1. vs = <<>>
      <4>1. f.bp + 1 + Variables(f) = f.bp + 1 /\ f.bp + 1 \in Int
        BY <1>1, <1>2, <2>1
      <4> QED
        BY <4>1, NoSlots
    <3>2. Variables(f) = 0 /\ \A k \in 1 .. 0 : FALSE
      BY <1>2, <2>1
    <3> HIDE DEF vs
    <3>3. vs \in Seq(Memory) /\ Len(vs) = 0
      BY <1>3, <3>1
    <3> QED
      BY <3>2, <3>3
  <2>2. CASE f.kind = "user"
    <3> DEFINE i == f.bp + 1
               j == f.bp + 1 + Variables(f)
    <3>1. i \in Nat /\ j \in Nat /\ i <= j /\ j <= Len(s) /\ j - i = Variables(f)
      BY <1>1, <1>2, <1>3, <2>2
    <3>2. vs = Slots(s, i, j)
      OBVIOUS
    <3> HIDE DEF i, j
    <3>3. /\ Slots(s, i, j) \in Seq(Memory) /\ Len(Slots(s, i, j)) = j - i
          /\ \A k \in 1 .. j - i : Slots(s, i, j)[k] = s[i + k]
      BY <3>1, SlotsFacts
    <3> QED
      BY <3>1, <3>2, <3>3 DEF i
  <2> QED
    BY <1>1, <2>1, <2>2
<1>5. Slots(s, Base(f), end) \in Seq(Memory) /\ Len(Slots(s, Base(f), end)) = end - Base(f)
  BY <1>1, SlotsFacts
<1>6. this \in Memory \cup {None}
  <2>1. f.fn \in Methods => f.bp \in 1 .. Len(s)
    BY <1>1, <1>3
  <2> QED
    BY <2>1
<1>7. a.tries = f.tries
  BY DEF ActivationOf
<1>8. f.tries \in Nat
  BY EvaluatesFacts
<1>9. /\ a.fn = f.fn /\ a.operands = Slots(s, Base(f), end) /\ a.vars = vs /\ a.this = this
  BY DEF ActivationOf
<1>10. a \in ActType
  <2> DEFINE ops == Slots(s, Base(f), end)
             n == f.tries
  <2>1. a = [fn |-> f.fn, vars |-> vs, operands |-> ops, this |-> this, tries |-> n]
    BY DEF ActivationOf
  <2>2. ops \in Seq(Memory)
    BY <1>5
  <2> HIDE DEF vs, this, a, ops, n
  <2> QED
    BY <1>1, <1>4, <1>6, <1>8, <2>1, <2>2 DEF ActType, n
<1> HIDE DEF a, vs, this
<1> QED
  BY <1>4, <1>5, <1>7, <1>9, <1>10 DEF a, vs, this

(* An activation is made of what is below the end of its operands.         *)
LEMMA ActivationAgrees ==
  ASSUME NEW f, Evaluates(f), NEW s \in Seq(Memory), NEW t \in Seq(Memory),
         NEW end \in Nat, Base(f) <= end, end <= Len(s), end <= Len(t),
         \A k \in 1 .. end : t[k] = s[k]
  PROVE  ActivationOf(f, t, end) = ActivationOf(f, s, end)
<1>1. /\ f.bp \in Nat /\ Base(f) \in Nat /\ f.bp <= Base(f) /\ f.kind \in {"script", "user"}
      /\ (f.fn \in Methods => f.bp > 0)
  BY EvaluatesFacts
<1>2. Variables(f) \in Nat /\ (f.kind = "script" => Variables(f) = 0)
      /\ (f.kind = "user" => f.bp + 1 + Variables(f) <= Base(f))
  BY VariablesFit
<1> DEFINE i == f.bp + 1
           j == f.bp + 1 + Variables(f)
<1>3. Slots(t, i, j) = Slots(s, i, j)
  <2>1. CASE f.kind = "script"
    <3>1. i = j /\ i \in Int
      BY <1>1, <1>2, <2>1
    <3> HIDE DEF i, j
    <3>2. Slots(t, i, i) = <<>> /\ Slots(s, i, i) = <<>>
      BY <3>1, NoSlots
    <3> QED
      BY <3>1, <3>2
  <2>2. CASE f.kind = "user"
    <3>1. /\ i \in Nat /\ j \in Nat /\ i <= j /\ j <= Len(s) /\ j <= Len(t)
          /\ \A k \in 1 .. j : t[k] = s[k]
      <4>1. Len(s) \in Nat /\ Len(t) \in Nat
        BY LenProperties
      <4> QED
        BY <1>1, <1>2, <2>2, <4>1
    <3> HIDE DEF i, j
    <3> QED
      BY <3>1, SlotsAgree
  <2> QED
    BY <1>1, <2>1, <2>2
<1>4. Slots(t, Base(f), end) = Slots(s, Base(f), end)
  BY <1>1, SlotsAgree
<1>5. f.fn \in Methods => t[f.bp] = s[f.bp]
  BY <1>1
<1> QED
  BY <1>3, <1>4, <1>5 DEF ActivationOf

(* The operands that a call leaves in place.                               *)
LEMMA EndFacts ==
  ASSUME NEW f, Evaluates(f), NEW g \in FrameRecord, PairOK(f, g)
  PROVE  /\ End(f, g) \in Nat /\ Base(f) <= End(f, g) /\ End(f, g) <= g.bp /\ g.bp <= f.sp
         /\ g.bp \in Nat
<1>1. /\ Base(f) \in Nat /\ f.sp \in Nat /\ f.open \in Seq(Nat)
      /\ g.bp \in Nat /\ Base(f) <= f.sp
  BY EvaluatesFacts DEF FrameRecord
<1>2. /\ Low(f) \in Nat /\ Base(f) <= Low(f)
      /\ Base(f) <= Floor(f) /\ Floor(f) \in Nat
      /\ f.open # <<>> => Last(f.open) \in Nat /\ Last(f.open) > Low(f)
  BY FrameFacts DEF Evaluates
<1>3. CASE g.kind = "script"
  <2>1. g.bp = f.sp
    BY <1>3 DEF PairOK, Evaluates
  <2>2. End(f, g) = g.bp
    BY <1>3 DEF End
  <2> QED
    BY <1>1, <2>1, <2>2
<1>4. CASE g.kind # "script"
  <2>1. g.bp < f.sp /\ (g.bp >= Floor(f) \/ (f.open # <<>> /\ Last(f.open) = g.bp))
    <3>1. CallsAt(f, g.bp)
      BY <1>4 DEF PairOK, Evaluates
    <3> QED
      BY <3>1 DEF CallsAt
  <2>2. CASE f.open # <<>> /\ Last(f.open) = g.bp
    <3>1. End(f, g) = g.bp - 1
      BY <1>4, <2>2 DEF End
    <3> QED
      BY <1>1, <1>2, <2>1, <2>2, <3>1
  <2>3. CASE ~(f.open # <<>> /\ Last(f.open) = g.bp)
    <3>1. End(f, g) = g.bp
      BY <2>3 DEF End
    <3> QED
      BY <1>1, <1>2, <2>1, <2>3, <3>1
  <2> QED
    BY <2>2, <2>3
<1> QED
  BY <1>3, <1>4

(* A chain of frames on a stack that holds their slots.                    *)
Fits(fs, s) == Chain(fs) /\ fs # <<>> /\ s \in Seq(Memory) /\ Last(fs).sp <= Len(s)

LEMMA FitsFacts ==
  ASSUME NEW fs, NEW s, Fits(fs, s)
  PROVE  /\ Links(fs) /\ fs \in Seq(FrameRecord) /\ Len(fs) \in Nat /\ Len(fs) > 0
         /\ DOMAIN fs = 1 .. Len(fs) /\ Last(fs) = fs[Len(fs)]
         /\ s \in Seq(Memory) /\ Len(s) \in Nat /\ Evaluates(Last(fs))
         /\ \A d \in DOMAIN fs : fs[d] \in FrameRecord /\ fs[d].bp \in Nat /\ fs[d].bp <= Len(s)
         /\ Len(fs) \in Evaluators(fs)
         /\ \A d \in Evaluators(fs) : d \in DOMAIN fs /\ Evaluates(fs[d])
<1>1. /\ Links(fs) /\ fs \in Seq(FrameRecord) /\ Len(fs) \in Nat /\ DOMAIN fs = 1 .. Len(fs)
      /\ \A d \in DOMAIN fs : fs[d] \in FrameRecord /\ FrameOK(fs[d]) /\ fs[d].bp \in Nat
  BY LinkedFrames DEF Fits, Chain
<1>2. Len(fs) > 0 /\ Last(fs) = fs[Len(fs)] /\ Last(fs).kind # "native"
  BY <1>1, EmptySeq DEF Fits, Chain, Last
<1>3. \A d \in Evaluators(fs) : d \in DOMAIN fs /\ Evaluates(fs[d])
  BY <1>1 DEF Evaluators, Evaluates, FrameOK
<1>4. Len(fs) \in Evaluators(fs)
  BY <1>1, <1>2 DEF Evaluators
<1>5. Evaluates(Last(fs))
  BY <1>2, <1>3, <1>4
<1>6. s \in Seq(Memory) /\ Len(s) \in Nat /\ Last(fs).sp <= Len(s)
  BY LenProperties DEF Fits
<1>7. ASSUME NEW d \in DOMAIN fs PROVE fs[d].bp <= Len(s)
  <2>1. Len(fs) \in DOMAIN fs /\ d <= Len(fs)
    BY <1>1, <1>2
  <2>2. fs[d].bp <= fs[Len(fs)].bp
    BY <1>1, <2>1, BasesGrow
  <2>3. /\ Last(fs).bp \in Nat /\ Last(fs).sp \in Nat /\ Base(Last(fs)) \in Nat
        /\ Last(fs).bp <= Base(Last(fs)) /\ Base(Last(fs)) <= Last(fs).sp
    BY <1>5, EvaluatesFacts
  <2> QED
    BY <1>1, <1>2, <1>6, <2>2, <2>3
<1> QED
  BY <1>1, <1>2, <1>3, <1>4, <1>5, <1>6, <1>7

(* Where the operands of the frame d end.                                  *)
LEMMA EndOfFacts ==
  ASSUME NEW fs, NEW s, Fits(fs, s), NEW e, NEW d \in Evaluators(fs)
  PROVE  /\ EndOf(fs, e, d) \in Nat /\ Base(fs[d]) <= EndOf(fs, e, d)
         /\ EndOf(fs, e, d) <= Len(s)
         /\ d # Len(fs) => /\ d + 1 \in DOMAIN fs /\ d < Len(fs) /\ PairOK(fs[d], fs[d + 1])
                           /\ EndOf(fs, e, d) = End(fs[d], fs[d + 1])
                           /\ EndOf(fs, e, d) <= fs[d + 1].bp
         /\ d = Len(fs) => EndOf(fs, e, d) = IF e = None THEN fs[d].sp ELSE Base(fs[d])
<1>1. /\ Links(fs) /\ fs \in Seq(FrameRecord) /\ Len(fs) \in Nat /\ Len(fs) > 0
      /\ DOMAIN fs = 1 .. Len(fs) /\ Last(fs) = fs[Len(fs)] /\ Len(s) \in Nat
      /\ \A c \in DOMAIN fs : fs[c] \in FrameRecord /\ fs[c].bp \in Nat /\ fs[c].bp <= Len(s)
      /\ d \in DOMAIN fs /\ Evaluates(fs[d])
  BY FitsFacts
<1>2. CASE d = Len(fs)
  <2>1. EndOf(fs, e, d) = IF e = None THEN fs[d].sp ELSE Base(fs[d])
    BY <1>1, <1>2 DEF EndOf
  <2>2. Base(fs[d]) \in Nat /\ fs[d].sp \in Nat /\ Base(fs[d]) <= fs[d].sp
    BY <1>1, EvaluatesFacts
  <2>3. fs[d].sp <= Len(s)
    BY <1>1, <1>2 DEF Fits
  <2> QED
    BY <1>1, <1>2, <2>1, <2>2, <2>3
<1>3. CASE d # Len(fs)
  <2>1. d + 1 \in DOMAIN fs /\ d < Len(fs) /\ d + 1 > 1 /\ d + 1 - 1 = d
    BY <1>1, <1>3
  <2>2. PairOK(fs[d], fs[d + 1])
    BY <1>1, <2>1, PairAt
  <2>3. EndOf(fs, e, d) = End(fs[d], fs[d + 1])
    BY <2>1 DEF EndOf
  <2>4. /\ End(fs[d], fs[d + 1]) \in Nat /\ Base(fs[d]) <= End(fs[d], fs[d + 1])
        /\ End(fs[d], fs[d + 1]) <= fs[d + 1].bp
    BY <1>1, <2>1, <2>2, EndFacts
  <2>5. fs[d + 1].bp <= Len(s) /\ fs[d + 1].bp \in Nat
    BY <1>1, <2>1
  <2> QED
    BY <1>1, <1>3, <2>1, <2>2, <2>3, <2>4, <2>5
<1> QED
  BY <1>2, <1>3
-----------------------------------------------------------------------------
(* What the slots of a frame hold: its function; the receiver of a method;  *)
(* no method, but for the ones it has loaded, each above its receiver.     *)
Clean(f, s, end) ==
  /\ f.kind = "user" => s[f.bp + 1] = f.fn
  /\ f.kind = "user" /\ ~f.body => f.num = Code[f.fn].params
  /\ f.fn \in Methods => s[f.bp] \notin Methods
  /\ \A i \in f.bp + 1 .. Base(f) - 1 : s[i + 1] \notin Methods
  /\ \A i \in Base(f) .. end - 1 :
       /\ i \notin Range(f.open) => s[i + 1] \notin Methods
       /\ i \in Range(f.open) => s[i] \in DOMAIN MethodOf /\ s[i + 1] = MethodOf[s[i]]
CleanAll(fs, s, e) == \A d \in Evaluators(fs) : Clean(fs[d], s, EndOf(fs, e, d))

LEMMA CleanAgrees ==
  ASSUME NEW f, Evaluates(f), NEW s, NEW t, NEW end \in Nat, Base(f) <= end,
         NEW upto \in Nat, upto <= end, \A k \in 1 .. end : t[k] = s[k], Clean(f, s, end)
  PROVE  Clean(f, t, upto)
<1>1. /\ f.bp \in Nat /\ Base(f) \in Nat /\ f.bp <= Base(f) /\ f.kind \in {"script", "user"}
      /\ (f.kind = "user" => f.bp < Base(f)) /\ (f.fn \in Methods => f.bp > 0)
  BY EvaluatesFacts
<1>2. f.kind = "user" => t[f.bp + 1] = f.fn
  BY <1>1 DEF Clean
<1>3. f.fn \in Methods => t[f.bp] \notin Methods
  BY <1>1 DEF Clean
<1>4. \A i \in f.bp + 1 .. Base(f) - 1 : t[i + 1] \notin Methods
  BY <1>1 DEF Clean
<1>5. ASSUME NEW i \in Base(f) .. upto - 1
      PROVE  /\ i \notin Range(f.open) => t[i + 1] \notin Methods
             /\ i \in Range(f.open) => t[i] \in DOMAIN MethodOf /\ t[i + 1] = MethodOf[t[i]]
  <2>1. i \in Base(f) .. end - 1 /\ i + 1 \in 1 .. end
    BY <1>1
  <2>2. i \in Range(f.open) => i \in 1 .. end
    <3> SUFFICES ASSUME i \in Range(f.open) PROVE i \in 1 .. end
      OBVIOUS
    <3>1. i > Base(f)
      BY EvaluatesFacts DEF Range
    <3> QED
      BY <1>1, <2>1, <3>1
  <2> QED
    BY <2>1, <2>2 DEF Clean
<1>6. f.kind = "user" /\ ~f.body => f.num = Code[f.fn].params
  BY DEF Clean
<1> QED
  BY <1>2, <1>3, <1>4, <1>5, <1>6 DEF Clean
-----------------------------------------------------------------------------
LEMMA ActsFacts ==
  ASSUME NEW fs, NEW s, Fits(fs, s), NEW e
  PROVE  LET as == ActsOf(fs, s, e)
             n == Cardinality(Evaluators(fs))
         IN  /\ as \in Acts /\ Len(as) = n /\ n \in Nat /\ n > 0
             /\ \A i \in 1 .. n : as[i] = ActivationOf(fs[EvaluatorAt(fs, i)], s,
                                                       EndOf(fs, e, EvaluatorAt(fs, i)))
             /\ as[n] = ActivationOf(Last(fs), s, EndOf(fs, e, Len(fs)))
<1> DEFINE n == Cardinality(Evaluators(fs))
           as == ActsOf(fs, s, e)
           g == [i \in 1 .. n |-> ActivationOf(fs[EvaluatorAt(fs, i)], s,
                                               EndOf(fs, e, EvaluatorAt(fs, i)))]
<1>1. as = g
  BY DEF ActsOf
<1>2. n \in Nat /\ n > 0 /\ EvaluatorAt(fs, n) = Len(fs)
  BY LastRank DEF Fits
<1>3. /\ fs \in Seq(FrameRecord) /\ s \in Seq(Memory) /\ Last(fs) = fs[Len(fs)]
      /\ \A d \in Evaluators(fs) : Evaluates(fs[d])
  BY FitsFacts
<1>4. \A i \in 1 .. n : EvaluatorAt(fs, i) \in Evaluators(fs)
  BY <1>3, RankedAt
<1>5. ASSUME NEW d \in Evaluators(fs) PROVE ActivationOf(fs[d], s, EndOf(fs, e, d)) \in ActType
  <2>1. /\ EndOf(fs, e, d) \in Nat /\ Base(fs[d]) <= EndOf(fs, e, d)
        /\ EndOf(fs, e, d) <= Len(s)
    BY EndOfFacts
  <2> QED
    BY <1>3, <2>1, ActivationFacts
<1>6. g \in [1 .. n -> ActType]
  BY <1>4, <1>5
<1>7. \A i \in 1 .. n : g[i] = ActivationOf(fs[EvaluatorAt(fs, i)], s,
                                            EndOf(fs, e, EvaluatorAt(fs, i)))
  OBVIOUS
<1> HIDE DEF g, n
<1>8. g \in Acts /\ Len(g) = n
  BY <1>2, <1>6, FunctionIsSeq DEF Acts
<1>9. g[n] = ActivationOf(Last(fs), s, EndOf(fs, e, Len(fs)))
  BY <1>2, <1>3, <1>7
<1> HIDE DEF as
<1> QED
  BY <1>1, <1>2, <1>7, <1>8, <1>9 DEF n, as

(* What is below two frames that begin at the same place is the same.       *)
Under(fs, s, gs, t) ==
  /\ Fits(fs, s) /\ Fits(gs, t) /\ Len(fs) <= Len(gs)
  /\ \A d \in 1 .. Len(fs) - 1 : gs[d] = fs[d]
  /\ gs[Len(fs)].kind = Last(fs).kind /\ gs[Len(fs)].bp = Last(fs).bp
  /\ \A i \in 1 .. Last(fs).bp : t[i] = s[i]

LEMMA UnderSame ==
  ASSUME NEW fs, NEW s, NEW gs, NEW t, Under(fs, s, gs, t), NEW e, NEW e2,
         NEW d \in Evaluators(fs), d < Len(fs)
  PROVE  LET end == EndOf(fs, e, d) IN
         /\ d \in Evaluators(gs) /\ EndOf(gs, e2, d) = end /\ gs[d] = fs[d]
         /\ ActivationOf(gs[d], t, end) = ActivationOf(fs[d], s, end)
         /\ Clean(fs[d], s, end) <=> Clean(gs[d], t, end)
<1> DEFINE k == Len(fs)
           end == EndOf(fs, e, d)
<1>1. /\ Links(fs) /\ k \in Nat /\ k > 0 /\ DOMAIN fs = 1 .. k /\ Last(fs) = fs[k]
      /\ s \in Seq(Memory) /\ Len(s) \in Nat
      /\ \A c \in DOMAIN fs : fs[c].bp \in Nat /\ fs[c].bp <= Len(s)
      /\ d \in DOMAIN fs /\ Evaluates(fs[d])
  BY FitsFacts DEF Under
<1>2. /\ Links(gs) /\ Len(gs) \in Nat /\ DOMAIN gs = 1 .. Len(gs)
      /\ t \in Seq(Memory) /\ Len(t) \in Nat
      /\ \A c \in DOMAIN gs : gs[c].bp \in Nat /\ gs[c].bp <= Len(t)
  BY FitsFacts DEF Under
<1>3. /\ d + 1 \in DOMAIN fs /\ d + 1 \in DOMAIN gs /\ d \in DOMAIN gs /\ k \in DOMAIN fs
      /\ d \in 1 .. k - 1 /\ k <= Len(gs) /\ d < Len(gs) /\ k \in DOMAIN gs
  BY <1>1, <1>2 DEF Under
<1>4. gs[d] = fs[d] /\ d \in Evaluators(gs)
  BY <1>1, <1>3 DEF Under, Evaluators
<1>5. gs[d + 1].kind = fs[d + 1].kind /\ gs[d + 1].bp = fs[d + 1].bp
  <2>1. CASE d + 1 = k
    BY <1>1, <2>1 DEF Under
  <2>2. CASE d + 1 # k
    <3>1. d + 1 \in 1 .. k - 1
      BY <1>1, <1>3, <2>2
    <3> QED
      BY <3>1 DEF Under
  <2> QED
    BY <2>1, <2>2
<1>6. EndOf(gs, e2, d) = end
  BY <1>3, <1>4, <1>5 DEF EndOf, End
<1>7. /\ end \in Nat /\ Base(fs[d]) <= end /\ end <= fs[d + 1].bp
  BY <1>3, EndOfFacts DEF Under
<1>8. fs[d + 1].bp <= fs[k].bp
  BY <1>1, <1>3, BasesGrow
<1>9. end <= Last(fs).bp /\ Last(fs).bp \in Nat /\ Last(fs).bp <= Len(s) /\ Last(fs).bp <= Len(t)
  <2>1. fs[k].bp = gs[k].bp
    BY <1>1 DEF Under
  <2> QED
    BY <1>1, <1>2, <1>3, <1>7, <1>8, <2>1
<1>10. \A i \in 1 .. end : t[i] = s[i]
  <2>1. \A i \in 1 .. end : i \in 1 .. Last(fs).bp
    BY <1>1, <1>7, <1>9
  <2> QED
    BY <2>1 DEF Under
<1> HIDE DEF end
<1>11. ActivationOf(fs[d], t, end) = ActivationOf(fs[d], s, end)
  <2>1. end <= Len(s) /\ end <= Len(t)
    BY <1>1, <1>2, <1>7, <1>9
  <2> QED
    BY <1>1, <1>2, <1>7, <1>10, <2>1, ActivationAgrees
<1>12. Clean(fs[d], s, end) => Clean(fs[d], t, end)
  BY <1>1, <1>7, <1>10, CleanAgrees
<1>13. Clean(fs[d], t, end) => Clean(fs[d], s, end)
  BY <1>1, <1>7, <1>10, CleanAgrees
<1> QED
  BY <1>4, <1>6, <1>11, <1>12, <1>13 DEF end

(* The activations below the innermost frame of fs are the same.           *)
LEMMA UnderActs ==
  ASSUME NEW fs, NEW s, NEW gs, NEW t, Under(fs, s, gs, t),
         \A d \in 1 .. Len(fs) : gs[d].kind = fs[d].kind, NEW e, NEW e2
  PROVE  LET n == Cardinality(Evaluators(fs)) IN
         /\ n <= Cardinality(Evaluators(gs)) /\ Cardinality(Evaluators(gs)) \in Nat
         /\ \A i \in 1 .. n - 1 : ActsOf(gs, t, e2)[i] = ActsOf(fs, s, e)[i]
         /\ EvaluatorAt(gs, n) = Len(fs)
<1> DEFINE n == Cardinality(Evaluators(fs))
           m == Cardinality(Evaluators(gs))
<1>1. Fits(fs, s) /\ Fits(gs, t) /\ Len(fs) <= Len(gs)
  BY DEF Under
<1>2. fs \in Seq(FrameRecord) /\ gs \in Seq(FrameRecord)
  BY <1>1, FitsFacts
<1>3. /\ n \in Nat /\ n > 0 /\ EvaluatorAt(fs, n) = Len(fs)
      /\ \A i \in 1 .. n - 1 : EvaluatorAt(fs, i) \in Evaluators(fs) /\ EvaluatorAt(fs, i) < Len(fs)
  BY <1>1, LastRank DEF Fits
<1>4. m \in Nat
  BY <1>2, EvaluatorsFinite
<1>5. \A i \in 1 .. n : EvaluatorAt(gs, i) = EvaluatorAt(fs, i)
  BY <1>1, <1>2, RanksKept
<1>6. n <= m
  <2>1. Evaluators(fs) \subseteq Evaluators(gs)
    <3>1. DOMAIN fs = 1 .. Len(fs) /\ DOMAIN gs = 1 .. Len(gs) /\ Len(fs) \in Nat /\ Len(gs) \in Nat
      BY <1>2, LenProperties
    <3> QED
      BY <1>1, <3>1 DEF Evaluators
  <2>2. IsFiniteSet(Evaluators(gs))
    BY <1>2, EvaluatorsFinite
  <2> QED
    BY <2>1, <2>2, FS_Subset
<1>7. EvaluatorAt(gs, n) = Len(fs)
  BY <1>3, <1>5
<1>8. ASSUME NEW i \in 1 .. n - 1 PROVE ActsOf(gs, t, e2)[i] = ActsOf(fs, s, e)[i]
  <2>1. i \in 1 .. n /\ i \in 1 .. m
    BY <1>3, <1>4, <1>6
  <2> DEFINE d == EvaluatorAt(fs, i)
  <2>2. ActsOf(fs, s, e)[i] = ActivationOf(fs[d], s, EndOf(fs, e, d))
    BY <2>1 DEF ActsOf
  <2>3. ActsOf(gs, t, e2)[i] = ActivationOf(gs[d], t, EndOf(gs, e2, d))
    BY <1>5, <2>1 DEF ActsOf
  <2>4. d \in Evaluators(fs) /\ d < Len(fs)
    BY <1>3
  <2> HIDE DEF d
  <2>5. /\ EndOf(gs, e2, d) = EndOf(fs, e, d)
        /\ ActivationOf(gs[d], t, EndOf(fs, e, d)) = ActivationOf(fs[d], s, EndOf(fs, e, d))
    BY <2>4, UnderSame
  <2> QED
    BY <2>2, <2>3, <2>5
<1> QED
  BY <1>4, <1>6, <1>7, <1>8

LEMMA Splits ==
  ASSUME NEW m \in Nat, NEW n \in Nat
  PROVE  \A d \in 1 .. n : /\ d \in 1 .. n - 1 \/ d = n
                           /\ d \in 1 .. m \/ d \in m + 1 .. n - 1 \/ d = n
OBVIOUS

LEMMA SeqReplaced ==
  ASSUME NEW a \in Acts, NEW b \in Acts, NEW n \in Nat, n > 0,
         Len(a) = n, Len(b) = n, \A i \in 1 .. n - 1 : b[i] = a[i]
  PROVE  /\ Front(b) = Front(a) /\ Front(a) \in Acts /\ Len(Front(a)) = n - 1
         /\ b = Append(Front(a), b[n]) /\ a = Append(Front(a), a[n])
         /\ Last(a) = a[n] /\ Last(b) = b[n] /\ a[n] \in ActType /\ b[n] \in ActType
<1>0. Acts = Seq(ActType)
  BY DEF Acts
<1>1. /\ Front(a) \in Acts /\ Len(Front(a)) = n - 1
      /\ \A i \in 1 .. n - 1 : Front(a)[i] = a[i]
  BY <1>0 DEF Front
<1>2. /\ Front(b) \in Acts /\ Len(Front(b)) = n - 1
      /\ \A i \in 1 .. n - 1 : Front(b)[i] = b[i]
  BY <1>0 DEF Front
<1>3. Front(b) = Front(a)
  BY <1>1, <1>2, <1>0, SameSeq
<1>4. a[n] \in ActType /\ b[n] \in ActType /\ Last(a) = a[n] /\ Last(b) = b[n]
  BY <1>0 DEF Last
<1> DEFINE h == Front(a)
<1> HIDE DEF h
<1>5. ASSUME NEW c \in Acts, Len(c) = n, \A i \in 1 .. n - 1 : c[i] = a[i]
      PROVE  c = Append(h, c[n])
  <2> DEFINE v == c[n]
  <2>0. n \in 1 .. n /\ n - 1 + 1 = n
    OBVIOUS
  <2>1. v \in ActType
    BY <1>0, <1>5, <2>0
  <2> HIDE DEF v
  <2>2. h \in Acts /\ Len(h) = n - 1 /\ \A i \in 1 .. n - 1 : h[i] = a[i]
    BY <1>1 DEF h
  <2>3. /\ Append(h, v) \in Acts /\ Len(Append(h, v)) = n /\ Append(h, v)[n] = v
        /\ \A i \in 1 .. n - 1 : Append(h, v)[i] = h[i]
    BY <1>0, <2>0, <2>1, <2>2, AppendProperties
  <2>4. \A i \in 1 .. n : i \in 1 .. n - 1 \/ i = n
    OBVIOUS
  <2>5. \A i \in 1 .. n : c[i] = Append(h, v)[i]
    BY <1>5, <2>2, <2>3, <2>4 DEF v
  <2>6. c = Append(h, v)
    BY <1>5, <2>3, <2>5, <1>0, SameSeq
  <2> QED
    BY <2>6 DEF v
<1>6. a = Append(h, a[n]) /\ b = Append(h, b[n])
  BY <1>5
<1> QED
  BY <1>1, <1>3, <1>4, <1>6 DEF h

(* A step that changes the innermost frame only.                           *)
LEMMA ActsReplaced ==
  ASSUME NEW fs, NEW s, NEW gs, NEW t, Under(fs, s, gs, t), Len(gs) = Len(fs), NEW e, NEW e2
  PROVE  LET as == ActsOf(fs, s, e)
             a == ActivationOf(Last(fs), s, EndOf(fs, e, Len(fs)))
             b == ActivationOf(Last(gs), t, EndOf(gs, e2, Len(gs)))
         IN  /\ as \in Acts /\ Len(as) > 0 /\ Front(as) \in Acts /\ a \in ActType /\ b \in ActType
             /\ as = Append(Front(as), a) /\ ActsOf(gs, t, e2) = Append(Front(as), b)
             /\ Last(as) = a /\ Len(as) = Cardinality(Evaluators(fs))
<1> DEFINE as == ActsOf(fs, s, e)
           bs == ActsOf(gs, t, e2)
           n == Cardinality(Evaluators(fs))
           a == ActivationOf(Last(fs), s, EndOf(fs, e, Len(fs)))
           b == ActivationOf(Last(gs), t, EndOf(gs, e2, Len(gs)))
<1>1. Fits(fs, s) /\ Fits(gs, t)
  BY DEF Under
<1>2. /\ fs \in Seq(FrameRecord) /\ Len(fs) \in Nat /\ Len(fs) > 0 /\ DOMAIN fs = 1 .. Len(fs)
      /\ Last(fs) = fs[Len(fs)] /\ DOMAIN gs = 1 .. Len(gs)
  BY <1>1, FitsFacts
<1>3. \A d \in 1 .. Len(fs) : gs[d].kind = fs[d].kind
  <2>1. \A d \in 1 .. Len(fs) : d \in 1 .. Len(fs) - 1 \/ d = Len(fs)
    BY <1>2, Splits
  <2> QED
    BY <1>2, <2>1 DEF Under
<1>4. Evaluators(gs) = Evaluators(fs)
  BY <1>2, <1>3 DEF Evaluators
<1>5. as \in Acts /\ Len(as) = n /\ n \in Nat /\ n > 0 /\ as[n] = a
  BY <1>1, ActsFacts
<1>6. bs \in Acts /\ Len(bs) = n /\ bs[n] = b
  BY <1>1, <1>4, ActsFacts
<1>7. \A i \in 1 .. n - 1 : bs[i] = as[i]
  BY <1>3, UnderActs
<1> HIDE DEF as, bs, n, a, b
<1>8. /\ Front(as) \in Acts /\ bs = Append(Front(as), bs[n]) /\ as = Append(Front(as), as[n])
      /\ Last(as) = as[n] /\ as[n] \in ActType /\ bs[n] \in ActType
  BY <1>5, <1>6, <1>7, SeqReplaced
<1> QED
  BY <1>5, <1>6, <1>8 DEF as, bs, n, a, b

(* A frame called by the last of fs, through a native one or not.          *)
Above(fs, s, gs, t) ==
  /\ Fits(fs, s) /\ Fits(gs, t) /\ Len(fs) < Len(gs)
  /\ \A d \in 1 .. Len(fs) : gs[d] = fs[d]
  /\ \A d \in Len(fs) + 1 .. Len(gs) - 1 : gs[d].kind = "native"
  /\ \A i \in 1 .. gs[Len(fs) + 1].bp : t[i] = s[i]
Callee(fs, gs) == gs[Len(fs) + 1]

LEMMA AboveUnder ==
  ASSUME NEW fs, NEW s, NEW gs, NEW t, Above(fs, s, gs, t)
  PROVE  /\ Under(fs, s, gs, t) /\ \A d \in 1 .. Len(fs) : gs[d].kind = fs[d].kind
         /\ Evaluators(gs) = Evaluators(fs) \cup {Len(gs)}
         /\ Cardinality(Evaluators(gs)) = Cardinality(Evaluators(fs)) + 1
         /\ Len(fs) \in Nat /\ Len(fs) > 0 /\ Len(gs) \in Nat /\ Len(fs) \in Evaluators(gs)
         /\ PairOK(Last(fs), Callee(fs, gs)) /\ Callee(fs, gs) \in FrameRecord
         /\ \A e : EndOf(gs, e, Len(fs)) = End(Last(fs), Callee(fs, gs))
         /\ Last(fs) = fs[Len(fs)] /\ Evaluates(Last(fs)) /\ Callee(fs, gs).bp <= Len(s)
         /\ Callee(fs, gs).bp <= Len(t)
<1>1. Fits(fs, s) /\ Fits(gs, t) /\ Len(fs) < Len(gs)
  BY DEF Above
<1>2. /\ fs \in Seq(FrameRecord) /\ Len(fs) \in Nat /\ Len(fs) > 0 /\ DOMAIN fs = 1 .. Len(fs)
      /\ Last(fs) = fs[Len(fs)] /\ Evaluates(Last(fs)) /\ Last(fs).kind # "native"
      /\ \A c \in DOMAIN fs : fs[c].bp \in Nat
      /\ Len(fs) \in Evaluators(fs)
      /\ s \in Seq(Memory) /\ Len(s) \in Nat
  BY <1>1, FitsFacts DEF Evaluates
<1>3. /\ Links(gs) /\ gs \in Seq(FrameRecord) /\ Len(gs) \in Nat /\ DOMAIN gs = 1 .. Len(gs)
      /\ \A c \in DOMAIN gs : gs[c] \in FrameRecord /\ gs[c].bp \in Nat /\ gs[c].bp <= Len(t)
      /\ Len(gs) \in Evaluators(gs)
  BY <1>1, FitsFacts
<1>4. Len(fs) + 1 \in DOMAIN gs /\ Len(fs) \in DOMAIN gs /\ Len(fs) \in DOMAIN fs
  BY <1>1, <1>2, <1>3
<1>5. gs[Len(fs)] = Last(fs) /\ \A d \in 1 .. Len(fs) : gs[d].kind = fs[d].kind
  BY <1>2, <1>4 DEF Above
<1>6. PairOK(Last(fs), Callee(fs, gs)) /\ Callee(fs, gs) \in FrameRecord
  <2>1. PairOK(gs[Len(fs)], gs[Len(fs) + 1])
    BY <1>2, <1>3, <1>4, PairAt
  <2> QED
    BY <1>3, <1>4, <1>5, <2>1 DEF Callee
<1>7. \A e : EndOf(gs, e, Len(fs)) = End(Last(fs), Callee(fs, gs))
  BY <1>1, <1>5 DEF EndOf, Callee
<1>8. Last(fs).bp <= gs[Len(fs) + 1].bp
  <2>1. Len(fs) <= Len(fs) + 1
    BY <1>2
  <2>2. gs[Len(fs)].bp <= gs[Len(fs) + 1].bp
    BY <1>3, <1>4, <2>1, BasesGrow
  <2> QED
    BY <1>5, <2>2
<1>9. Under(fs, s, gs, t)
  <2>1. \A i \in 1 .. Last(fs).bp : i \in 1 .. gs[Len(fs) + 1].bp
    <3> DEFINE x == Last(fs).bp
               y == gs[Len(fs) + 1].bp
    <3>1. x \in Nat
      BY <1>2, <1>4
    <3>2. y \in Nat
      BY <1>3, <1>4
    <3>3. x <= y
      BY <1>8
    <3> HIDE DEF x, y
    <3>4. \A i \in 1 .. x : i \in 1 .. y
      BY <3>1, <3>2, <3>3
    <3> QED
      BY <3>4 DEF x, y
  <2>2. \A d \in 1 .. Len(fs) - 1 : d \in 1 .. Len(fs)
    BY <1>2
  <2> QED
    BY <1>1, <1>2, <1>3, <1>5, <2>1, <2>2 DEF Under, Above
<1>10. Evaluators(gs) = Evaluators(fs) \cup {Len(gs)}
  <2>1. \A d \in 1 .. Len(gs) : d \in 1 .. Len(fs) \/ d \in Len(fs) + 1 .. Len(gs) - 1 \/ d = Len(gs)
    BY <1>2, <1>3, Splits
  <2>2. \A d \in Len(fs) + 1 .. Len(gs) - 1 : gs[d].kind = "native" /\ d \notin DOMAIN fs
    BY <1>2, <1>3 DEF Above
  <2>3. gs[Len(gs)].kind # "native"
    BY <1>3 DEF Evaluators
  <2>4. \A d \in 1 .. Len(fs) : d \in 1 .. Len(gs)
    BY <1>1, <1>2, <1>3
  <2> QED
    BY <1>2, <1>3, <1>5, <2>1, <2>2, <2>3, <2>4 DEF Evaluators
<1>11. Cardinality(Evaluators(gs)) = Cardinality(Evaluators(fs)) + 1
  <2>1. Len(gs) \notin Evaluators(fs)
    BY <1>1, <1>2, <1>3 DEF Evaluators
  <2>2. IsFiniteSet(Evaluators(fs))
    BY <1>2, EvaluatorsFinite
  <2> QED
    BY <1>10, <2>1, <2>2, FS_AddElement
<1>12. Callee(fs, gs).bp <= Len(s)
  <2>1. Callee(fs, gs).bp <= Last(fs).sp /\ Callee(fs, gs).bp \in Nat
    BY <1>2, <1>6, EndFacts
  <2>2. Last(fs).sp <= Len(s) /\ Last(fs).sp \in Nat
    BY <1>1, <1>2, EvaluatesFacts DEF Fits
  <2> QED
    BY <1>2, <2>1, <2>2
<1> QED
  BY <1>2, <1>3, <1>4, <1>5, <1>6, <1>7, <1>9, <1>10, <1>11, <1>12 DEF Callee

LEMMA SeqAppended ==
  ASSUME NEW T, NEW h \in Seq(T), NEW v \in T
  PROVE  /\ Append(h, v) \in Seq(T) /\ Len(Append(h, v)) = Len(h) + 1 /\ Append(h, v) # <<>>
         /\ Front(Append(h, v)) = h /\ Last(Append(h, v)) = v
<1> DEFINE b == Append(h, v)
           n == Len(h)
<1>1. /\ n \in Nat /\ b \in Seq(T) /\ Len(b) = n + 1 /\ b[n + 1] = v
      /\ \A i \in 1 .. n : b[i] = h[i]
  BY LenProperties, AppendProperties
<1>2. h \in Seq(T) /\ Len(h) = n
  OBVIOUS
<1>3. Append(h, v) = b
  OBVIOUS
<1> HIDE DEF b, n
<1>4. Last(b) = v /\ b # <<>>
  BY <1>1, EmptySeq DEF Last
<1>5. Front(b) \in Seq(T) /\ Len(Front(b)) = n /\ \A i \in 1 .. n : Front(b)[i] = b[i]
  BY <1>1 DEF Front
<1>6. Front(b) = h
  BY <1>1, <1>2, <1>5, SameSeq
<1> QED
  BY <1>1, <1>2, <1>3, <1>4, <1>6

(* The activations of a call: the caller has lost what it passed.          *)
LEMMA ActsAbove ==
  ASSUME NEW fs, NEW s, NEW gs, NEW t, Above(fs, s, gs, t), NEW e, NEW e2
  PROVE  LET as == ActsOf(fs, s, e)
             bs == ActsOf(gs, t, e2)
             a == ActivationOf(Last(fs), s, End(Last(fs), Callee(fs, gs)))
             b == ActivationOf(Last(gs), t, EndOf(gs, e2, Len(gs)))
         IN  /\ as \in Acts /\ Len(as) > 0 /\ Len(as) = Cardinality(Evaluators(fs))
             /\ Front(as) \in Acts /\ a \in ActType /\ b \in ActType
             /\ bs = Append(Append(Front(as), a), b)
             /\ Front(bs) = Append(Front(as), a) /\ Last(bs) = b
             /\ Front(bs) \in Acts /\ bs \in Acts /\ Len(bs) = Len(as) + 1
             /\ Front(Front(bs)) = Front(as) /\ Last(Front(bs)) = a
             /\ as = Append(Front(as), ActivationOf(Last(fs), s, EndOf(fs, e, Len(fs))))
             /\ Last(as) = ActivationOf(Last(fs), s, EndOf(fs, e, Len(fs)))
<1> DEFINE as == ActsOf(fs, s, e)
           bs == ActsOf(gs, t, e2)
           n == Cardinality(Evaluators(fs))
           end == End(Last(fs), Callee(fs, gs))
           a == ActivationOf(Last(fs), s, end)
           b == ActivationOf(Last(gs), t, EndOf(gs, e2, Len(gs)))
           h == Front(as)
<1>1. /\ Fits(fs, s) /\ Fits(gs, t) /\ Under(fs, s, gs, t)
      /\ \A d \in 1 .. Len(fs) : gs[d].kind = fs[d].kind
      /\ Cardinality(Evaluators(gs)) = n + 1
      /\ Len(fs) > 0 /\ Len(fs) \in Nat /\ Last(fs) = fs[Len(fs)] /\ Evaluates(Last(fs))
      /\ PairOK(Last(fs), Callee(fs, gs)) /\ Callee(fs, gs) \in FrameRecord
      /\ EndOf(gs, e2, Len(fs)) = end
      /\ Callee(fs, gs).bp <= Len(s) /\ Callee(fs, gs).bp <= Len(t)
  BY AboveUnder DEF Above
<1>2. as \in Acts /\ Len(as) = n /\ n \in Nat /\ n > 0
      /\ as[n] = ActivationOf(Last(fs), s, EndOf(fs, e, Len(fs)))
  BY <1>1, ActsFacts
<1>3. /\ bs \in Acts /\ Len(bs) = n + 1 /\ bs[n + 1] = b
      /\ \A i \in 1 .. n + 1 : bs[i] = ActivationOf(gs[EvaluatorAt(gs, i)], t,
                                                    EndOf(gs, e2, EvaluatorAt(gs, i)))
  BY <1>1, ActsFacts
<1>4. EvaluatorAt(gs, n) = Len(fs) /\ \A i \in 1 .. n - 1 : bs[i] = as[i]
  BY <1>1, UnderActs
<1>5. /\ end \in Nat /\ Base(Last(fs)) <= end /\ end <= Callee(fs, gs).bp
      /\ Callee(fs, gs).bp \in Nat
  BY <1>1, EndFacts
<1>6. s \in Seq(Memory) /\ t \in Seq(Memory) /\ Len(s) \in Nat /\ Len(t) \in Nat
      /\ end <= Len(s) /\ end <= Len(t)
      /\ \A i \in 1 .. end : t[i] = s[i]
  <2>1. \A i \in 1 .. end : i \in 1 .. Callee(fs, gs).bp
    BY <1>5
  <2>2. \A i \in 1 .. end : t[i] = s[i]
    BY <2>1 DEF Above, Callee
  <2>3. s \in Seq(Memory) /\ t \in Seq(Memory) /\ Len(s) \in Nat /\ Len(t) \in Nat
    BY <1>1, FitsFacts
  <2> QED
    BY <1>1, <1>5, <2>2, <2>3
<1> HIDE DEF end
<1>7. a \in ActType
  BY <1>1, <1>5, <1>6, ActivationFacts
<1>8. ActivationOf(Last(fs), t, end) = a
  BY <1>1, <1>5, <1>6, ActivationAgrees
<1>9. bs[n] = a
  <2>1. n \in 1 .. n + 1 /\ gs[Len(fs)] = Last(fs)
    <3>1. Len(fs) \in 1 .. Len(fs)
      BY <1>1
    <3> QED
      BY <1>1, <1>2, <3>1 DEF Above
  <2> QED
    BY <1>1, <1>3, <1>4, <1>8, <2>1
<1> HIDE DEF as, bs, n, a, b
<1>10. /\ h \in Seq(ActType) /\ Len(h) = n - 1 /\ as = Append(h, as[n]) /\ Last(as) = as[n]
  <2>0. /\ Front(as) \in Acts /\ Len(Front(as)) = n - 1
        /\ as = Append(Front(as), as[n]) /\ Last(as) = as[n]
    <3>1. \A x \in Acts : Len(x) = n =>
            /\ Front(x) \in Acts /\ Len(Front(x)) = n - 1
            /\ x = Append(Front(x), x[n]) /\ Last(x) = x[n]
      BY <1>2, SeqReplaced
    <3> QED
      BY <1>2, <3>1
  <2>1. h \in Acts /\ Len(h) = n - 1 /\ as = Append(h, as[n]) /\ Last(as) = as[n]
    BY <2>0
  <2> QED
    BY <2>1 DEF Acts
<1>11. \A i \in 1 .. n - 1 : h[i] = as[i]
  <2>1. \A i \in 1 .. n - 1 : Front(as)[i] = as[i]
    BY <1>2, FrontItems DEF Acts
  <2> QED
    BY <2>1
<1>12. b \in ActType
  BY <1>2, <1>3 DEF Acts
<1> HIDE DEF h
<1> DEFINE ha == Append(h, a)
           hab == Append(ha, b)
<1>13. ha \in Seq(ActType) /\ Len(ha) = n /\ Front(ha) = h /\ Last(ha) = a
  BY <1>2, <1>7, <1>10, SeqAppended
<1>14. ha[n] = a /\ \A i \in 1 .. n - 1 : ha[i] = h[i]
  <2>1. n - 1 + 1 = n
    BY <1>2
  <2> QED
    BY <1>7, <1>10, <2>1, AppendProperties
<1> HIDE DEF ha
<1>15. hab \in Seq(ActType) /\ Len(hab) = n + 1 /\ Front(hab) = ha /\ Last(hab) = b
  BY <1>12, <1>13, SeqAppended
<1>16. hab[n + 1] = b /\ \A i \in 1 .. n : hab[i] = ha[i]
  BY <1>12, <1>13, AppendProperties
<1> HIDE DEF hab
<1>17. bs = hab
  <2>1. \A i \in 1 .. n + 1 : i \in 1 .. n - 1 \/ i = n \/ i = n + 1
    BY <1>2
  <2>2. \A i \in 1 .. n - 1 : i \in 1 .. n
    BY <1>2
  <2>3. \A i \in 1 .. n - 1 : bs[i] = hab[i]
    BY <1>4, <1>11, <1>14, <1>16, <2>2
  <2>4. bs[n] = hab[n]
    BY <1>2, <1>9, <1>14, <1>16
  <2>5. \A i \in 1 .. n + 1 : bs[i] = hab[i]
    BY <1>3, <1>16, <2>1, <2>3, <2>4
  <2> QED
    BY <1>3, <1>15, <2>5, SameSeq DEF Acts
<1>18. Front(bs) = ha /\ Last(bs) = b /\ Front(Front(bs)) = h /\ Last(Front(bs)) = a
  BY <1>13, <1>15, <1>17
<1>19. Front(as) = h /\ h \in Acts /\ ha \in Acts
  BY <1>10, <1>13 DEF h, Acts
<1>20. bs = Append(Append(Front(as), a), b) /\ Front(bs) = Append(Front(as), a)
  BY <1>17, <1>18, <1>19 DEF hab, ha
<1> QED
  <2>1. /\ as \in Acts /\ Len(as) > 0 /\ Len(as) = n /\ Front(as) \in Acts /\ a \in ActType
        /\ b \in ActType /\ Front(bs) \in Acts /\ bs \in Acts /\ Len(bs) = Len(as) + 1
    BY <1>2, <1>3, <1>7, <1>12, <1>18, <1>19
  <2>2. as = Append(Front(as), as[n]) /\ Last(as) = as[n]
    BY <1>10, <1>19
  <2> QED
    BY <1>2, <1>18, <1>19, <1>20, <2>1, <2>2 DEF as, bs, n, a, b, end
-----------------------------------------------------------------------------
(* The frames below the innermost one.                                     *)
CleanUnder(fs, s) ==
  \A d \in Evaluators(fs) : d < Len(fs) => Clean(fs[d], s, End(fs[d], fs[d + 1]))

LEMMA CleanSplits ==
  ASSUME NEW fs, NEW s, Fits(fs, s), NEW e
  PROVE  CleanAll(fs, s, e)
           <=> CleanUnder(fs, s) /\ Clean(Last(fs), s, EndOf(fs, e, Len(fs)))
<1>1. /\ Len(fs) \in Nat /\ Last(fs) = fs[Len(fs)] /\ Len(fs) \in Evaluators(fs)
      /\ \A d \in Evaluators(fs) : d \in 1 .. Len(fs)
  BY FitsFacts
<1>2. \A d \in Evaluators(fs) : d < Len(fs) \/ d = Len(fs)
  BY <1>1
<1>3. \A d \in Evaluators(fs) : d < Len(fs) => EndOf(fs, e, d) = End(fs[d], fs[d + 1])
  BY DEF EndOf
<1> QED
  BY <1>1, <1>2, <1>3 DEF CleanAll, CleanUnder

LEMMA UnderClean ==
  ASSUME NEW fs, NEW s, NEW gs, NEW t, Under(fs, s, gs, t), Len(gs) = Len(fs),
         CleanUnder(fs, s)
  PROVE  CleanUnder(gs, t)
<1>1. /\ fs \in Seq(FrameRecord) /\ Len(fs) \in Nat /\ DOMAIN fs = 1 .. Len(fs)
      /\ gs \in Seq(FrameRecord) /\ Len(gs) \in Nat /\ DOMAIN gs = 1 .. Len(gs)
  BY FitsFacts DEF Under
<1> SUFFICES ASSUME NEW d \in Evaluators(gs), d < Len(gs)
             PROVE  Clean(gs[d], t, End(gs[d], gs[d + 1]))
  BY DEF CleanUnder
<1>2. d \in 1 .. Len(fs) - 1 /\ gs[d].kind # "native" /\ d < Len(fs)
  BY <1>1 DEF Evaluators
<1>3. gs[d] = fs[d]
  BY <1>2 DEF Under
<1>4. d \in Evaluators(fs)
  BY <1>1, <1>2, <1>3 DEF Evaluators
<1>5. Clean(fs[d], s, EndOf(fs, None, d)) /\ EndOf(gs, None, d) = End(gs[d], gs[d + 1])
  BY <1>2, <1>4 DEF CleanUnder, EndOf
<1>6. /\ EndOf(gs, None, d) = EndOf(fs, None, d)
      /\ Clean(fs[d], s, EndOf(fs, None, d)) <=> Clean(gs[d], t, EndOf(fs, None, d))
  BY <1>2, <1>4, UnderSame
<1> QED
  BY <1>5, <1>6

LEMMA AboveClean ==
  ASSUME NEW fs, NEW s, NEW gs, NEW t, Above(fs, s, gs, t)
  PROVE  CleanUnder(gs, t)
           <=> CleanUnder(fs, s) /\ Clean(Last(fs), s, End(Last(fs), Callee(fs, gs)))
<1> DEFINE end == End(Last(fs), Callee(fs, gs))
<1>1. /\ Under(fs, s, gs, t) /\ Evaluators(gs) = Evaluators(fs) \cup {Len(gs)}
      /\ Len(fs) \in Nat /\ Len(fs) > 0 /\ Len(gs) \in Nat /\ Len(fs) \in Evaluators(gs)
      /\ PairOK(Last(fs), Callee(fs, gs)) /\ Callee(fs, gs) \in FrameRecord
      /\ Last(fs) = fs[Len(fs)] /\ Evaluates(Last(fs)) /\ Callee(fs, gs).bp <= Len(s)
      /\ Callee(fs, gs).bp <= Len(t) /\ EndOf(gs, None, Len(fs)) = end /\ Len(fs) < Len(gs)
  BY AboveUnder DEF Above
<1>2. /\ \A d \in Evaluators(fs) : d \in 1 .. Len(fs) /\ Evaluates(fs[d])
      /\ Len(fs) \in Evaluators(fs)
  BY FitsFacts DEF Above
<1>3. \A d \in Evaluators(gs) : d < Len(gs) => EndOf(gs, None, d) = End(gs[d], gs[d + 1])
  BY DEF EndOf
<1>4. \A d \in Evaluators(fs) : d < Len(fs) => EndOf(fs, None, d) = End(fs[d], fs[d + 1])
  BY DEF EndOf
<1>5. ASSUME NEW d \in Evaluators(fs), d < Len(fs)
      PROVE  Clean(fs[d], s, End(fs[d], fs[d + 1])) <=> Clean(gs[d], t, End(gs[d], gs[d + 1]))
  <2>1. /\ EndOf(gs, None, d) = EndOf(fs, None, d) /\ d \in Evaluators(gs)
        /\ Clean(fs[d], s, EndOf(fs, None, d)) <=> Clean(gs[d], t, EndOf(fs, None, d))
    BY <1>1, <1>5, UnderSame
  <2>2. d < Len(gs)
    BY <1>1, <1>2, <1>5
  <2> QED
    BY <1>3, <1>4, <1>5, <2>1, <2>2
<1>6. /\ end \in Nat /\ Base(Last(fs)) <= end /\ end <= Callee(fs, gs).bp
      /\ Callee(fs, gs).bp \in Nat
  BY <1>1, EndFacts
<1>7. \A i \in 1 .. end : t[i] = s[i]
  <2>1. \A i \in 1 .. end : i \in 1 .. Callee(fs, gs).bp
    BY <1>6
  <2> QED
    BY <2>1 DEF Above, Callee
<1>8. gs[Len(fs)] = Last(fs) /\ End(gs[Len(fs)], gs[Len(fs) + 1]) = end
  <2>1. Len(fs) \in 1 .. Len(fs)
    BY <1>1
  <2> QED
    BY <1>1, <2>1 DEF Above, Callee
<1> HIDE DEF end
<1>9. Clean(Last(fs), s, end) => Clean(Last(fs), t, end)
  BY <1>1, <1>6, <1>7, CleanAgrees
<1>10. Clean(Last(fs), t, end) => Clean(Last(fs), s, end)
  BY <1>1, <1>6, <1>7, CleanAgrees
<1>11. ASSUME CleanUnder(gs, t)
       PROVE  CleanUnder(fs, s) /\ Clean(Last(fs), s, end)
  <2>1. \A d \in Evaluators(fs) : d < Len(fs) => d \in Evaluators(gs) /\ d < Len(gs)
    BY <1>1, <1>2
  <2>2. CleanUnder(fs, s)
    BY <1>5, <1>11, <2>1 DEF CleanUnder
  <2>3. Clean(gs[Len(fs)], t, End(gs[Len(fs)], gs[Len(fs) + 1]))
    BY <1>1, <1>11 DEF CleanUnder
  <2> QED
    BY <1>8, <1>10, <2>2, <2>3
<1>12. ASSUME CleanUnder(fs, s), Clean(Last(fs), s, end)
       PROVE  CleanUnder(gs, t)
  <2> SUFFICES ASSUME NEW d \in Evaluators(gs), d < Len(gs)
               PROVE  Clean(gs[d], t, End(gs[d], gs[d + 1]))
    BY DEF CleanUnder
  <2>1. d \in Evaluators(fs) /\ (d < Len(fs) \/ d = Len(fs))
    BY <1>1, <1>2
  <2>2. CASE d < Len(fs)
    BY <1>5, <1>12, <2>1, <2>2 DEF CleanUnder
  <2>3. CASE d = Len(fs)
    BY <1>8, <1>9, <1>12, <2>3
  <2> QED
    BY <2>1, <2>2, <2>3
<1> QED
  BY <1>11, <1>12 DEF end
-----------------------------------------------------------------------------
(* The steps of Activations.                                               *)
LEMMA AbstractOperators ==
  /\ \A s : Abstract!Front(s) = Front(s) /\ Abstract!Last(s) = Last(s)
  /\ \A f : Abstract!Range(f) = Range(f)
BY DEF Abstract!Front, Front, Abstract!Last, Last, Abstract!Range, Range

LEMMA ComputeStep ==
  ASSUME error = None, error' = None,
         NEW as \in Acts, NEW a \in ActType, NEW b \in ActType,
         ActsOf(frames, stack, error) = Append(as, a),
         ActsOf(frames', stack', error') = Append(as, b), Abstract!Computes(a, b)
  PROVE  Abstract!Next
<1> DEFINE A == Append(as, a)
           B == Append(as, b)
<1>1. /\ A # <<>> /\ Front(A) = as /\ Last(A) = a /\ Len(A) = Len(as) + 1
      /\ Front(B) = as /\ Last(B) = b /\ Len(B) = Len(as) + 1
  BY SeqAppended DEF Acts
<1> HIDE DEF A, B
<1>2. ActsOf(frames, stack, error) = A /\ ActsOf(frames', stack', error') = B
  BY DEF A, B
<1>3. Abstract!Compute
  BY <1>1, <1>2, AbstractOperators DEF Abstract!Compute, Abstract!Innermost
<1> QED
  BY <1>1, <1>2, <1>3 DEF Abstract!Next, Abstract!Run

(* The invariant of the refinement.                                        *)
CInv == IInv /\ CleanAll(frames, stack, error)

LEMMA FramesFit == ASSUME IInv, frames # <<>> PROVE Fits(frames, stack)
BY TopFacts DEF IInv, Fits, Top

LEMMA TopEvaluates == ASSUME IInv, frames # <<>> PROVE Evaluates(Top) /\ Len(stack) = Top.sp
BY TopFacts DEF Evaluates

LEMMA TopClean ==
  ASSUME CInv, frames # <<>>
  PROVE  /\ CleanUnder(frames, stack)
         /\ Clean(Top, stack, IF error = None THEN Top.sp ELSE Base(Top))
<1>1. Fits(frames, stack)
  BY FramesFit DEF CInv
<1>2. CleanUnder(frames, stack) /\ Clean(Top, stack, EndOf(frames, error, Len(frames)))
  BY <1>1, CleanSplits DEF CInv, Top
<1>3. EndOf(frames, error, Len(frames)) = IF error = None THEN Top.sp ELSE Base(Top)
  <2>1. /\ Len(frames) \in Evaluators(frames) /\ Top = frames[Len(frames)]
    BY <1>1, FitsFacts DEF Top
  <2> QED
    BY <1>1, <2>1, EndOfFacts
<1> QED
  BY <1>2, <1>3

(* A step of the innermost activation.                                     *)
LEMMA MovesView ==
  ASSUME CInv, IInv', Running, NEW g \in FrameRecord, g.kind = Top.kind, g.bp = Top.bp,
         NEW s \in Seq(Memory), g.sp <= Len(s), \A i \in 1 .. Top.bp : s[i] = stack[i],
         Moves(g, s), Clean(g, s, g.sp),
         \/ Abstract!Computes(ActivationOf(Top, stack, Top.sp), ActivationOf(g, s, g.sp))
         \/ ActivationOf(Top, stack, Top.sp) = ActivationOf(g, s, g.sp)
  PROVE  CInv' /\ (Abstract!Next \/ UNCHANGED Abstract!vars)
<1>1. /\ frames' = Append(Front(frames), g) /\ stack' = Cut(s, g.sp)
      /\ error = None /\ error' = None /\ frames # <<>>
  BY DEF Moves, Running
<1>2. /\ frames \in Seq(FrameRecord) /\ Fits(frames, stack) /\ Evaluates(Top)
      /\ Top = Last(frames)
  BY <1>1, TopFacts, FramesFit, TopEvaluates DEF CInv, Top
<1>3. /\ frames' \in Seq(FrameRecord) /\ frames' # <<>> /\ Len(frames') = Len(frames)
      /\ Last(frames') = g /\ frames'[Len(frames)] = g /\ Len(frames) \in Nat /\ Len(frames) > 0
      /\ \A d \in 1 .. Len(frames) - 1 : frames'[d] = frames[d]
  BY <1>1, <1>2, Replaced
<1>4. Fits(frames', stack') /\ Evaluates(g)
  <2>1. SlotsOK(frames', stack', error') /\ Chain(frames')
    BY DEF IInv
  <2>2. Fits(frames', stack')
    <3>1. stack' \in Seq(Memory) /\ Len(stack') = Last(frames').sp
      BY <1>3, <2>1 DEF SlotsOK, Memory
    <3>2. Last(frames').sp \in Nat
      BY <1>3 DEF FrameRecord
    <3> QED
      BY <1>3, <2>1, <3>1, <3>2 DEF Fits
  <2> QED
    BY <1>3, <2>2, FitsFacts
<1>5. /\ g.sp \in Nat /\ Base(g) \in Nat /\ g.bp <= Base(g) /\ Base(g) <= g.sp /\ g.bp \in Nat
  BY <1>4, EvaluatesFacts
<1>6. /\ stack' \in Seq(Memory) /\ Len(stack') = g.sp
      /\ \A i \in 1 .. g.sp : stack'[i] = s[i]
  BY <1>1, <1>5, CutFacts
<1>7. Under(frames, stack, frames', stack')
  <2>1. \A i \in 1 .. Last(frames).bp : i \in 1 .. g.sp
    BY <1>2, <1>5
  <2>2. \A i \in 1 .. Last(frames).bp : stack'[i] = stack[i]
    BY <1>2, <1>6, <2>1
  <2> QED
    BY <1>2, <1>3, <1>4, <2>2 DEF Under
<1>8. /\ EndOf(frames, error, Len(frames)) = Top.sp
      /\ EndOf(frames', error', Len(frames')) = g.sp
  <2>1. /\ Top = frames[Len(frames)] /\ g = frames'[Len(frames')]
    BY <1>2, <1>3, FitsFacts DEF Top
  <2> QED
    BY <1>1, <1>3, <2>1 DEF EndOf
<1> DEFINE as == ActsOf(frames, stack, error)
           a == ActivationOf(Top, stack, Top.sp)
           b == ActivationOf(g, stack', g.sp)
<1>9. /\ Front(as) \in Acts /\ a \in ActType /\ b \in ActType
      /\ as = Append(Front(as), a) /\ ActsOf(frames', stack', error') = Append(Front(as), b)
  <2>1. /\ Front(as) \in Acts
        /\ ActivationOf(Last(frames), stack, EndOf(frames, error, Len(frames))) \in ActType
        /\ ActivationOf(Last(frames'), stack', EndOf(frames', error', Len(frames'))) \in ActType
        /\ as = Append(Front(as), ActivationOf(Last(frames), stack, EndOf(frames, error, Len(frames))))
        /\ ActsOf(frames', stack', error')
             = Append(Front(as), ActivationOf(Last(frames'), stack', EndOf(frames', error', Len(frames'))))
    BY <1>3, <1>7, ActsReplaced
  <2> QED
    BY <1>2, <1>3, <1>8, <2>1
<1>10. b = ActivationOf(g, s, g.sp)
  BY <1>4, <1>5, <1>6, ActivationAgrees
<1> DEFINE fr == Front(as)
<1> HIDE DEF as, a, b, fr
<1>11. ASSUME Abstract!Computes(a, b) PROVE Abstract!Next
  <2>1. /\ ActsOf(frames, stack, error) = Append(fr, a)
        /\ ActsOf(frames', stack', error') = Append(fr, b)
        /\ fr \in Acts
    BY <1>9 DEF as, fr
  <2> QED
    BY <1>1, <1>9, <1>11, <2>1, ComputeStep
<1>12. ASSUME a = b PROVE UNCHANGED Abstract!vars
  <2>1. ActsOf(frames', stack', error') = ActsOf(frames, stack, error)
    BY <1>9, <1>12 DEF as
  <2> QED
    BY <1>1, <2>1 DEF Abstract!vars
<1>13. CleanAll(frames', stack', error')
  <2>1. CleanUnder(frames, stack)
    BY <1>1, TopClean
  <2>2. CleanUnder(frames', stack')
    BY <1>3, <1>7, <2>1, UnderClean
  <2>3. Clean(g, stack', g.sp)
    BY <1>4, <1>5, <1>6, CleanAgrees
  <2> QED
    BY <1>3, <1>4, <1>8, <2>2, <2>3, CleanSplits
<1>14. Abstract!Next \/ UNCHANGED Abstract!vars
  BY <1>10, <1>11, <1>12 DEF a, b
<1> QED
  BY <1>13, <1>14 DEF CInv
-----------------------------------------------------------------------------
(* A frame that keeps its variables.                                       *)
Keeps(f, s, g, t) ==
  /\ Evaluates(f) /\ Same(f, g) /\ g.num = f.num
  /\ s \in Seq(Memory) /\ t \in Seq(Memory) /\ Base(f) <= Len(s) /\ Base(f) <= Len(t)
  /\ \A i \in 1 .. Base(f) : t[i] = s[i]

LEMMA ViewChange ==
  ASSUME NEW f, NEW s, NEW g, NEW t, Keeps(f, s, g, t), NEW end, NEW end2
  PROVE  LET a == ActivationOf(f, s, end)
             b == ActivationOf(g, t, end2)
             ops == Slots(t, Base(f), end2)
         IN  /\ b.fn = a.fn /\ b.vars = a.vars /\ b.this = a.this /\ b.operands = ops
             /\ g.tries = f.tries => b.tries = a.tries
<1> DEFINE a == ActivationOf(f, s, end)
           b == ActivationOf(g, t, end2)
           ops == Slots(t, Base(f), end2)
<1>0. /\ Evaluates(f) /\ Same(f, g) /\ g.num = f.num
      /\ s \in Seq(Memory) /\ t \in Seq(Memory) /\ Base(f) <= Len(s) /\ Base(f) <= Len(t)
      /\ \A i \in 1 .. Base(f) : t[i] = s[i]
  BY DEF Keeps
<1>1. Base(f) \in Nat /\ f.bp \in Nat
  BY <1>0, EvaluatesFacts
<1>2. ActivationOf(f, t, Base(f)) = ActivationOf(f, s, Base(f))
  BY <1>0, <1>1, ActivationAgrees
<1>3. /\ ActivationOf(f, s, Base(f)).vars = a.vars /\ ActivationOf(f, s, Base(f)).this = a.this
      /\ ActivationOf(f, s, Base(f)).fn = a.fn
  BY DEF ActivationOf
<1>4. Base(g) = Base(f) /\ Variables(g) = Variables(f) /\ g.fn = f.fn /\ g.bp = f.bp
  BY <1>0, SameBase DEF Same, Variables
<1>5. /\ ActivationOf(f, t, Base(f)).vars = b.vars /\ ActivationOf(f, t, Base(f)).this = b.this
      /\ ActivationOf(f, t, Base(f)).fn = b.fn /\ b.operands = ops
  BY <1>4 DEF ActivationOf
<1>6. g.tries = f.tries => b.tries = a.tries
  BY DEF ActivationOf
<1>7. /\ b.fn = a.fn /\ b.vars = a.vars /\ b.this = a.this /\ b.operands = ops
  BY <1>2, <1>3, <1>5
<1> QED
  BY <1>6, <1>7

LEMMA OpenBelow ==
  ASSUME NEW f, Evaluates(f)
  PROVE  \A i \in Range(f.open) : i \in Nat /\ i < f.sp /\ i > Base(f) /\ i <= Last(f.open)
<1> SUFFICES ASSUME NEW j \in DOMAIN f.open
             PROVE  /\ f.open[j] \in Nat /\ f.open[j] < f.sp /\ f.open[j] > Base(f)
                    /\ f.open[j] <= Last(f.open)
  BY DEF Range
<1>1. /\ f.open \in Seq(Nat) /\ f.sp \in Nat
      /\ \A i \in DOMAIN f.open : f.open[i] \in Nat /\ f.open[i] > Base(f)
      /\ \A i, k \in DOMAIN f.open : i < k => f.open[i] + 2 <= f.open[k]
  BY EvaluatesFacts
<1> DEFINE n == Len(f.open)
<1>2. n \in Nat /\ DOMAIN f.open = 1 .. n
  BY <1>1, LenProperties
<1>3. n \in DOMAIN f.open /\ (j < n \/ j = n)
  BY <1>2
<1>4. f.open[j] <= f.open[n]
  BY <1>1, <1>3
<1>5. f.open # <<>>
  BY <1>1, <1>3, EmptySeq
<1>6. Floor(f) = Last(f.open) + 1 /\ Floor(f) <= f.sp /\ Last(f.open) = f.open[n]
  BY <1>5, FrameFacts DEF Evaluates, Last
<1> QED
  BY <1>1, <1>3, <1>4, <1>6

LEMMA CleanFrame ==
  ASSUME NEW f, NEW g, Same(f, g), g.num = f.num, g.open = f.open, NEW s, NEW end, Clean(f, s, end)
  PROVE  Clean(g, s, end)
BY SameBase DEF Clean, Same

(* One operand more.                                                       *)
LEMMA CleanMore ==
  ASSUME NEW f, Evaluates(f), NEW s, NEW t, NEW end \in Nat, Base(f) <= end,
         \A i \in 1 .. end : t[i] = s[i], Clean(f, s, end),
         IF end \in Range(f.open) THEN t[end] \in DOMAIN MethodOf /\ t[end + 1] = MethodOf[t[end]]
         ELSE t[end + 1] \notin Methods
  PROVE  Clean(f, t, end + 1)
<1>1. Base(f) \in Nat
  BY EvaluatesFacts
<1>2. Clean(f, t, end)
  BY CleanAgrees
<1>3. \A i \in Base(f) .. end + 1 - 1 : i \in Base(f) .. end - 1 \/ i = end
  BY <1>1
<1> QED
  BY <1>2, <1>3 DEF Clean
-----------------------------------------------------------------------------
(* The steps of the innermost activation.                                  *)

(* What a value can come from.                                             *)
LEMMA PushValueView ==
  ASSUME CInv, IInv', Running, Top.body \/ AtDefault(Top), HasRoom(1),
         NEW v \in Memory, v \notin Methods, PushValue(v),
         LET a == ActivationOf(Top, stack, Top.sp) IN
         v \in Constants \cup Range(a.vars) \cup {a.this}
  PROVE  CInv' /\ (Abstract!Next \/ UNCHANGED Abstract!vars)
<1>1. /\ frames # <<>> /\ error = None /\ Top \in FrameRecord /\ FrameOK(Top) /\ EvaluatesOK(Top)
      /\ Top.kind # "native" /\ stack \in Seq(Memory) /\ Len(stack) = Top.sp /\ Top.sp \in Nat
  BY TopFacts DEF Running, CInv
<1>2. /\ Base(Top) \in Nat /\ Operands(Top.fn) \in Nat /\ Floor(Top) \in Nat
      /\ High(Top) = Low(Top) + Operands(Top.fn) /\ Floor(Top) <= Top.sp /\ Low(Top) \in Nat
      /\ Base(Top) <= Top.sp
  BY <1>1, FrameFacts
<1> DEFINE g == [Top EXCEPT !.sp = Top.sp + 1]
           s == Append(stack, v)
           a == ActivationOf(Top, stack, Top.sp)
           b == ActivationOf(g, s, g.sp)
<1>3. Top.sp + 1 \in Nat /\ Floor(Top) <= Top.sp + 1 /\ Top.sp + 1 <= High(Top)
  BY <1>1, <1>2 DEF HasRoom
<1>4. /\ g \in FrameRecord /\ FrameOK(g) /\ Same(Top, g) /\ g.sp = Top.sp + 1
      /\ g.tries = Top.tries /\ g.open = Top.open /\ g.num = Top.num
  BY <1>1, <1>3, Resized
<1>5. Moves(g, s)
  BY DEF PushValue
<1>6. Evaluates(Top) /\ Evaluates(g) /\ Base(g) = Base(Top)
  BY <1>1, <1>4, SameBase DEF Evaluates, FrameOK, Same
<1> HIDE DEF g
<1>7. /\ s \in Seq(Memory) /\ Len(s) = Top.sp + 1 /\ s[Top.sp + 1] = v
      /\ \A i \in 1 .. Top.sp : s[i] = stack[i]
  BY <1>1, AppendProperties
<1> HIDE DEF s
<1>8. Clean(g, s, g.sp)
  <2>1. Clean(Top, stack, Top.sp)
    BY <1>1, TopClean
  <2>2. Top.sp \notin Range(Top.open)
    BY <1>1, <1>6, OpenBelow
  <2>3. Clean(Top, s, Top.sp + 1)
    BY <1>1, <1>2, <1>6, <1>7, <2>1, <2>2, CleanMore
  <2> QED
    BY <1>4, <2>3, CleanFrame
<1>9. b = [a EXCEPT !.operands = Append(@, v)]
  <2>1. Slots(s, Base(Top), Top.sp + 1) = Append(Slots(s, Base(Top), Top.sp), v)
    <3>1. Top.sp < Len(s) /\ Top.sp \in Nat /\ Base(Top) \in Nat /\ Base(Top) <= Top.sp
      BY <1>1, <1>2, <1>7
    <3>2. Slots(s, Base(Top), Top.sp + 1) = Append(Slots(s, Base(Top), Top.sp), s[Top.sp + 1])
      BY <1>7, <3>1, SlotsMore
    <3> QED
      BY <1>7, <3>2
  <2>2. Slots(s, Base(Top), Top.sp) = Slots(stack, Base(Top), Top.sp)
    <3>1. /\ stack \in Seq(Memory) /\ s \in Seq(Memory) /\ Base(Top) \in Nat /\ Top.sp \in Nat
          /\ Base(Top) <= Top.sp /\ Top.sp <= Len(stack) /\ Top.sp <= Len(s)
          /\ \A i \in 1 .. Top.sp : s[i] = stack[i]
      BY <1>1, <1>2, <1>7
    <3> QED
      BY <3>1, SlotsAgree
  <2>3. a.operands = Slots(stack, Base(Top), Top.sp)
    BY DEF ActivationOf
  <2>4. b = [a EXCEPT !.operands = Slots(s, Base(Top), g.sp)]
    <3>1. /\ Base(Top) <= Len(stack) /\ Base(Top) <= Len(s)
          /\ \A i \in 1 .. Base(Top) : s[i] = stack[i]
      <4>1. \A i \in 1 .. Base(Top) : i \in 1 .. Top.sp
        BY <1>1, <1>2
      <4>2. \A i \in 1 .. Base(Top) : s[i] = stack[i]
        BY <1>7, <4>1
      <4> QED
        BY <1>1, <1>2, <1>7, <4>2
    <3>2. Same(Top, g) /\ g.num = Top.num /\ g.tries = Top.tries
      BY <1>4
    <3>3. stack \in Seq(Memory) /\ s \in Seq(Memory)
      BY <1>1, <1>7
    <3> DEFINE n == Top.sp
               m == g.sp
    <3>4. a = ActivationOf(Top, stack, n) /\ b = ActivationOf(g, s, m)
      OBVIOUS
    <3> HIDE DEF a, b, n, m
    <3>5. Keeps(Top, stack, g, s)
      BY <1>6, <3>1, <3>2, <3>3 DEF Keeps
    <3>6. /\ b.fn = a.fn /\ b.vars = a.vars /\ b.this = a.this
          /\ b.operands = Slots(s, Base(Top), m) /\ b.tries = a.tries
      BY <3>2, <3>4, <3>5, ViewChange
    <3>7. b = [a EXCEPT !.operands = Slots(s, Base(Top), m)]
      BY <3>4, <3>6 DEF ActivationOf
    <3> QED
      BY <3>7 DEF m
  <2> QED
    BY <1>4, <2>1, <2>2, <2>3, <2>4
<1>10. Abstract!Computes(a, b)
  <2>1. /\ a.operands \in Seq(Memory) /\ a \in ActType
    BY <1>1, <1>2, <1>6, ActivationFacts
  <2>2. b.operands = Append(a.operands, v)
    BY <1>9, <2>1 DEF ActType
  <2>3. Len(b.operands) > Len(a.operands)
    BY <2>1, <2>2, AppendProperties, LenProperties
  <2> HIDE DEF a, b
  <2>4. v \in Constants \cup Abstract!Range(a.vars) \cup {a.this}
    BY AbstractOperators DEF a
  <2> QED
    BY <1>9, <2>3, <2>4 DEF Abstract!Computes
<1>11. \A i \in 1 .. Top.bp : s[i] = stack[i]
  <2>1. Top.bp \in Nat /\ Top.bp <= Top.sp
    BY <1>6, EvaluatesFacts
  <2> QED
    BY <1>1, <1>7, <2>1
<1> QED
  BY <1>4, <1>5, <1>7, <1>8, <1>10, <1>11, MovesView DEF Same

StepOK == CInv' /\ (Abstract!Next \/ UNCHANGED Abstract!vars)

LEMMA PushView == ASSUME CInv, NEW v \in Constants, Push(v) PROVE StepOK
<1>1. IInv /\ IInv'
  BY PushKeeps DEF CInv
<1>2. Computing /\ HasRoom(1) /\ PushValue(v)
  BY DEF Push
<1>3. Running /\ (Top.body \/ AtDefault(Top))
  BY <1>1, <1>2, ComputingFacts
<1>4. v \in Memory /\ v \notin Methods
  BY MethodsApart
<1> QED
  BY <1>1, <1>2, <1>3, <1>4, PushValueView DEF StepOK

LEMMA LoadLocalView == ASSUME CInv, LoadLocal PROVE StepOK
<1>1. IInv /\ IInv'
  BY LoadLocalKeeps DEF CInv
<1>2. InBody /\ HasRoom(1)
  BY DEF LoadLocal
<1>3. PICK i \in 0 .. Top.num - 1 : PushValue(Slot(Top.bp + 1 + i))
  BY DEF LoadLocal
<1>4. /\ Running /\ (Top.body \/ AtDefault(Top)) /\ frames # <<>> /\ error = None
      /\ Top.body
  BY <1>1, <1>2, BodyFacts DEF InBody
<1>5. /\ Top \in FrameRecord /\ Evaluates(Top) /\ stack \in Seq(Memory) /\ Len(stack) = Top.sp
      /\ Clean(Top, stack, Top.sp)
  BY <1>1, <1>4, TopFacts, TopEvaluates, TopClean
<1>6. /\ Top.bp \in Nat /\ Base(Top) \in Nat /\ Base(Top) <= Top.sp /\ Top.sp \in Nat
      /\ Top.kind \in {"script", "user"}
  BY <1>5, EvaluatesFacts
<1>7. /\ Variables(Top) = Top.num /\ Top.num \in Nat
      /\ (Top.kind = "script" => Variables(Top) = 0)
      /\ (Top.kind = "user" => Top.bp + 1 + Variables(Top) <= Base(Top))
  BY <1>4, <1>5, VariablesFit DEF Variables, FrameRecord
<1> DEFINE v == Slot(Top.bp + 1 + i)
           k == Top.bp + 1 + i
           a == ActivationOf(Top, stack, Top.sp)
<1>8. /\ k \in Top.bp + 1 .. Base(Top) - 1 /\ k + 1 \in 1 .. Len(stack)
      /\ i + 1 \in 1 .. Variables(Top) /\ k + 1 = Top.bp + 1 + (i + 1)
  <2>1. i \in Nat /\ i < Top.num
    BY <1>3, <1>7
  <2>2. Top.bp + 1 + Top.num <= Base(Top)
    BY <1>6, <1>7, <2>1
  <2>3. Top.bp \in Nat /\ Base(Top) \in Nat /\ Base(Top) <= Len(stack) /\ Len(stack) \in Nat
    BY <1>5, <1>6
  <2>4. Variables(Top) = Top.num /\ Top.num \in Nat
    BY <1>7
  <2>5. k \in Nat /\ k + 1 <= Base(Top) /\ k + 1 = Top.bp + 1 + (i + 1) /\ k > Top.bp
    <3> DEFINE q == Top.bp
               m == Base(Top)
               n == Top.num
    <3>1. i \in Nat /\ i < n /\ n \in Nat /\ q \in Nat /\ m \in Nat /\ q + 1 + n <= m /\ k = q + 1 + i
      BY <2>1, <2>2, <2>3, <2>4
    <3> HIDE DEF q, m, n, k
    <3>2. k \in Nat /\ k + 1 <= m /\ k + 1 = q + 1 + (i + 1) /\ k > q
      BY <3>1
    <3> QED
      BY <3>2 DEF q, m, n
  <2> HIDE DEF k
  <2> QED
    BY <2>1, <2>3, <2>4, <2>5
<1>9. v = stack[k + 1]
  BY DEF Slot
<1>10. v \in Memory /\ v \notin Methods
  <2> HIDE DEF k, v
  <2> QED
    BY <1>5, <1>8, <1>9 DEF Clean
<1>11. v \in Range(a.vars)
  <2>1. /\ a.vars \in Seq(Memory) /\ Len(a.vars) = Variables(Top)
        /\ \A j \in 1 .. Variables(Top) : a.vars[j] = stack[Top.bp + 1 + j]
    BY <1>5, <1>6, ActivationFacts
  <2> HIDE DEF a
  <2>2. a.vars[i + 1] = v /\ i + 1 \in DOMAIN a.vars
    BY <1>8, <1>9, <2>1
  <2> QED
    BY <2>2 DEF Range
<1>12. PushValue(v)
  BY <1>3
<1> HIDE DEF v
<1> QED
  BY <1>1, <1>2, <1>4, <1>10, <1>11, <1>12, PushValueView DEF StepOK

LEMMA LoadThisView == ASSUME CInv, LoadThis PROVE StepOK
<1>1. IInv /\ IInv'
  BY LoadThisKeeps DEF CInv
<1>2. InBody /\ HasRoom(1) /\ Top.fn \in Methods /\ PushValue(Slot(Top.bp - 1))
  BY DEF LoadThis
<1>3. Running /\ (Top.body \/ AtDefault(Top)) /\ frames # <<>> /\ error = None
  BY <1>1, <1>2, BodyFacts
<1>4. /\ Evaluates(Top) /\ stack \in Seq(Memory) /\ Len(stack) = Top.sp
      /\ Clean(Top, stack, Top.sp)
  BY <1>1, <1>3, TopFacts, TopEvaluates, TopClean
<1>5. /\ Top.bp \in Nat /\ Top.bp > 0 /\ Base(Top) \in Nat /\ Base(Top) <= Top.sp /\ Top.sp \in Nat
      /\ Top.bp <= Base(Top)
  BY <1>2, <1>4, EvaluatesFacts
<1> DEFINE v == Slot(Top.bp - 1)
<1>6. v = stack[Top.bp]
  <2>1. Top.bp - 1 + 1 = Top.bp
    BY <1>5
  <2> QED
    BY <2>1 DEF Slot
<1>7. v \in Memory /\ v \notin Methods
  <2> HIDE DEF v
  <2> QED
    BY <1>2, <1>4, <1>5, <1>6 DEF Clean
<1>8. v \in {ActivationOf(Top, stack, Top.sp).this}
  <2> HIDE DEF v
  <2> QED
    BY <1>2, <1>6 DEF ActivationOf
<1>9. PushValue(v)
  BY <1>2
<1> HIDE DEF v
<1> QED
  BY <1>1, <1>2, <1>3, <1>7, <1>8, <1>9, PushValueView DEF StepOK
-----------------------------------------------------------------------------
TopAct == ActivationOf(Top, stack, Top.sp)

LEMMA TopView ==
  ASSUME CInv, Running
  PROVE  /\ frames # <<>> /\ error = None /\ Top \in FrameRecord /\ FrameOK(Top)
         /\ EvaluatesOK(Top) /\ Top.kind # "native" /\ Evaluates(Top)
         /\ stack \in Seq(Memory) /\ Len(stack) = Top.sp /\ Top.sp \in Nat
         /\ Base(Top) \in Nat /\ Base(Top) <= Top.sp /\ Top.bp \in Nat /\ Top.bp <= Base(Top)
         /\ Clean(Top, stack, Top.sp) /\ CleanUnder(frames, stack)
         /\ TopAct \in ActType /\ TopAct.operands = Slots(stack, Base(Top), Top.sp)
<1>1. IInv /\ frames # <<>> /\ error = None
  BY DEF CInv, Running
<1>2. /\ Top \in FrameRecord /\ FrameOK(Top) /\ EvaluatesOK(Top) /\ Top.kind # "native"
      /\ Evaluates(Top) /\ stack \in Seq(Memory) /\ Len(stack) = Top.sp /\ Top.sp \in Nat
  BY <1>1, TopFacts, TopEvaluates
<1>3. Base(Top) \in Nat /\ Base(Top) <= Top.sp /\ Top.bp \in Nat /\ Top.bp <= Base(Top)
  BY <1>2, EvaluatesFacts
<1>4. Clean(Top, stack, Top.sp) /\ CleanUnder(frames, stack)
  BY <1>1, TopClean
<1>5. TopAct \in ActType /\ TopAct.operands = Slots(stack, Base(Top), Top.sp)
  BY <1>2, <1>3, ActivationFacts DEF TopAct
<1> QED
  BY <1>1, <1>2, <1>3, <1>4, <1>5

LEMMA TopActFacts ==
  ASSUME CInv, Running
  PROVE  /\ TopAct.vars \in Seq(Memory) /\ Len(TopAct.vars) = Variables(Top)
         /\ \A j \in 1 .. Variables(Top) : TopAct.vars[j] = stack[Top.bp + 1 + j]
         /\ TopAct.this = IF Top.fn \in Methods THEN stack[Top.bp] ELSE None
         /\ TopAct.fn = Top.fn /\ TopAct.tries = Top.tries
<1>1. /\ Evaluates(Top) /\ stack \in Seq(Memory) /\ Len(stack) = Top.sp /\ Top.sp \in Nat
      /\ Base(Top) \in Nat /\ Base(Top) <= Top.sp
  BY TopView
<1> QED
  BY <1>1, ActivationFacts DEF TopAct

LEMMA OperandView ==
  ASSUME CInv, Running, Holds(1)
  PROVE  /\ TopAct.operands # <<>> /\ Last(TopAct.operands) = Operand
         /\ Front(TopAct.operands) = Slots(stack, Base(Top), Top.sp - 1)
         /\ Operand = stack[Top.sp] /\ Operand \in Memory
         /\ Top.sp - 1 \in Nat /\ Base(Top) <= Top.sp - 1 /\ Floor(Top) <= Top.sp - 1
         /\ Floor(Top) \in Nat /\ Base(Top) <= Floor(Top)
<1>1. /\ Top \in FrameRecord /\ EvaluatesOK(Top) /\ Top.kind # "native"
      /\ stack \in Seq(Memory) /\ Len(stack) = Top.sp /\ Top.sp \in Nat
      /\ Base(Top) \in Nat /\ TopAct.operands = Slots(stack, Base(Top), Top.sp)
  BY TopView
<1>2. /\ Operand \in Memory /\ Top.sp > 0 /\ Top.sp - 1 \in Nat
      /\ Floor(Top) <= Top.sp - 1 /\ Operand = stack[Top.sp] /\ Floor(Top) \in Nat
  BY OperandFacts DEF CInv
<1>3. Base(Top) <= Floor(Top)
  BY <1>1, FrameFacts
<1> DEFINE j == Top.sp - 1
<1>4. j \in Nat /\ Base(Top) <= j /\ j < Len(stack) /\ j + 1 = Top.sp
  BY <1>1, <1>2, <1>3
<1> HIDE DEF j
<1>5. /\ Front(Slots(stack, Base(Top), j + 1)) = Slots(stack, Base(Top), j)
      /\ Last(Slots(stack, Base(Top), j + 1)) = stack[j + 1]
      /\ Slots(stack, Base(Top), j + 1) # <<>>
  BY <1>1, <1>4, SlotsMore
<1> QED
  BY <1>1, <1>2, <1>3, <1>4, <1>5 DEF j

LEMMA PopView == ASSUME CInv, Pop PROVE StepOK
<1> DEFINE n == Top.sp - 1
           g == [Top EXCEPT !.sp = n]
           a == TopAct
           b == ActivationOf(g, stack, g.sp)
<1>1. IInv /\ IInv'
  BY PopKeeps DEF CInv
<1>2. InBody /\ Holds(1) /\ Moves(g, stack) /\ Running /\ Top.body
  BY DEF Pop, InBody
<1>3. /\ frames # <<>> /\ error = None /\ Top \in FrameRecord /\ FrameOK(Top)
      /\ EvaluatesOK(Top) /\ Top.kind # "native" /\ Evaluates(Top)
      /\ stack \in Seq(Memory) /\ Len(stack) = Top.sp /\ Top.sp \in Nat
      /\ Base(Top) \in Nat /\ Base(Top) <= Top.sp /\ Top.bp \in Nat /\ Top.bp <= Base(Top)
      /\ Clean(Top, stack, Top.sp) /\ a \in ActType
  BY <1>2, TopView
<1>4. /\ a.operands # <<>> /\ Front(a.operands) = Slots(stack, Base(Top), n)
      /\ n \in Nat /\ Base(Top) <= n /\ Floor(Top) <= n
  BY <1>2, OperandView
<1>5. n <= High(Top) /\ n <= Top.sp
  <2>1. Top.sp <= High(Top) /\ High(Top) \in Nat
    BY <1>3, FrameFacts
  <2> QED
    BY <1>3, <2>1
<1> HIDE DEF n
<1>6. /\ g \in FrameRecord /\ FrameOK(g) /\ Same(Top, g) /\ g.sp = n
      /\ g.tries = Top.tries /\ g.open = Top.open /\ g.num = Top.num
  BY <1>2, <1>3, <1>4, <1>5, Resized
<1> HIDE DEF g
<1>7. Clean(g, stack, g.sp)
  <2>1. Clean(Top, stack, n)
    BY <1>3, <1>4, <1>5, CleanAgrees
  <2> QED
    BY <1>6, <2>1, CleanFrame
<1>8. Keeps(Top, stack, g, stack)
  BY <1>3, <1>6 DEF Keeps
<1>9. /\ b.fn = a.fn /\ b.vars = a.vars /\ b.this = a.this
      /\ b.operands = Slots(stack, Base(Top), g.sp) /\ b.tries = a.tries
  BY <1>6, <1>8, ViewChange DEF TopAct
<1>10. b = [a EXCEPT !.operands = Front(a.operands)]
  BY <1>4, <1>6, <1>9 DEF ActivationOf, TopAct
<1> HIDE DEF a, b
<1>11. Abstract!Computes(a, b)
  BY <1>4, <1>10, AbstractOperators DEF Abstract!Computes
<1> QED
  <2>1. g.sp <= Len(stack) /\ g.kind = Top.kind /\ g.bp = Top.bp
    BY <1>3, <1>5, <1>6 DEF Same
  <2> QED
    BY <1>1, <1>2, <1>3, <1>6, <1>7, <1>11, <2>1, MovesView DEF StepOK, a, b, TopAct
-----------------------------------------------------------------------------
LEMMA TriesView ==
  ASSUME CInv, Running, NEW n, NEW g, g = [Top EXCEPT !.tries = n], g \in FrameRecord,
         FrameOK(g)
  PROVE  LET b == ActivationOf(g, stack, g.sp) IN
         /\ b = [TopAct EXCEPT !.tries = n] /\ TopAct.tries = Top.tries
         /\ Clean(g, stack, g.sp) /\ g.kind = Top.kind /\ g.bp = Top.bp /\ g.sp = Top.sp
<1> DEFINE a == TopAct
           b == ActivationOf(g, stack, g.sp)
<1>1. /\ Top \in FrameRecord /\ Evaluates(Top)
      /\ stack \in Seq(Memory) /\ Len(stack) = Top.sp /\ Top.sp \in Nat
      /\ Base(Top) \in Nat /\ Base(Top) <= Top.sp
      /\ Clean(Top, stack, Top.sp) /\ Top.kind # "native"
  BY TopView
<1>2. /\ Same(Top, g) /\ g.sp = Top.sp /\ g.tries = n /\ g.open = Top.open /\ g.num = Top.num
  BY <1>1 DEF FrameRecord, Same
<1>3. Evaluates(g) /\ g.kind = Top.kind /\ g.bp = Top.bp
  BY <1>1, <1>2 DEF Evaluates, FrameOK, Same
<1>4. Keeps(Top, stack, g, stack)
  BY <1>1, <1>2 DEF Keeps
<1>5. /\ b.fn = a.fn /\ b.vars = a.vars /\ b.this = a.this
      /\ b.operands = Slots(stack, Base(Top), g.sp)
  BY <1>4, ViewChange DEF TopAct
<1>6. a.operands = Slots(stack, Base(Top), Top.sp)
  BY TopView
<1>7. b.tries = n /\ a.tries = Top.tries
  BY <1>2 DEF ActivationOf, TopAct
<1>8. Clean(g, stack, g.sp)
  BY <1>1, <1>2, CleanFrame
<1>9. a \in ActType /\ b \in ActType
  <2>1. Base(g) = Base(Top)
    BY <1>2, SameBase
  <2>2. g.sp \in Nat /\ Base(g) <= g.sp /\ g.sp <= Len(stack)
    BY <1>1, <1>2, <2>1
  <2> QED
    BY <1>1, <1>3, <2>2, ActivationFacts, TopView
<1> HIDE DEF a, b
<1>10. b = [a EXCEPT !.tries = n]
  BY <1>2, <1>5, <1>6, <1>7, <1>9 DEF ActType
<1> QED
  BY <1>2, <1>3, <1>7, <1>8, <1>10 DEF a, b

LEMMA PushTryView == ASSUME CInv, PushTry PROVE StepOK
<1> DEFINE n == Top.tries + 1
           g == [Top EXCEPT !.tries = n]
           a == TopAct
           b == ActivationOf(g, stack, g.sp)
<1>1. IInv /\ IInv'
  BY PushTryKeeps DEF CInv
<1>2. Statement /\ HasRoom(1) /\ Moves(g, stack)
  BY DEF PushTry
<1>3. /\ Running /\ Top \in FrameRecord /\ FrameOK(Top) /\ Top.kind # "native" /\ Top.body
      /\ stack \in Seq(Memory) /\ Len(stack) = Top.sp /\ Top.sp \in Nat
      /\ Top.tries \in Nat /\ Top.sp = Low(Top) /\ Operands(Top.fn) \in Nat
  BY <1>1, <1>2, StatementFacts
<1>4. n \in Nat /\ Operands(Top.fn) > 0
  BY <1>2, <1>3 DEF HasRoom
<1>5. n = Top.tries + 1
  OBVIOUS
<1> HIDE DEF n
<1>6. g \in FrameRecord /\ FrameOK(g)
  BY <1>3, <1>4, Retried
<1> HIDE DEF g
<1>7. /\ b = [a EXCEPT !.tries = n] /\ a.tries = Top.tries
      /\ Clean(g, stack, g.sp) /\ g.kind = Top.kind /\ g.bp = Top.bp /\ g.sp = Top.sp
  BY <1>3, <1>6, TriesView DEF g
<1> HIDE DEF a, b
<1>8. b = [a EXCEPT !.tries = @ + 1]
  BY <1>5, <1>7
<1>9. Abstract!Computes(a, b)
  BY <1>8 DEF Abstract!Computes
<1> QED
  <2>1. g.sp <= Len(stack) /\ \A i \in 1 .. Top.bp : stack[i] = stack[i]
    BY <1>3, <1>7
  <2> QED
    BY <1>1, <1>2, <1>3, <1>6, <1>7, <1>9, <2>1, MovesView DEF StepOK, a, b, TopAct

LEMMA PopTryView == ASSUME CInv, PopTry PROVE StepOK
<1> DEFINE n == Top.tries - 1
           g == [Top EXCEPT !.tries = n]
           a == TopAct
           b == ActivationOf(g, stack, g.sp)
<1>1. IInv /\ IInv'
  BY PopTryKeeps DEF CInv
<1>2. Statement /\ Top.tries > 0 /\ Moves(g, stack)
  BY DEF PopTry
<1>3. /\ Running /\ Top \in FrameRecord /\ FrameOK(Top) /\ Top.kind # "native" /\ Top.body
      /\ stack \in Seq(Memory) /\ Len(stack) = Top.sp /\ Top.sp \in Nat
      /\ Top.tries \in Nat /\ OperandsOK(Top)
  BY <1>1, <1>2, StatementFacts
<1>4. n \in Nat /\ Operands(Top.fn) > 0
  BY <1>2, <1>3 DEF OperandsOK
<1>5. n = Top.tries - 1
  OBVIOUS
<1> HIDE DEF n
<1>6. g \in FrameRecord /\ FrameOK(g)
  BY <1>3, <1>4, Retried
<1> HIDE DEF g
<1>7. /\ b = [a EXCEPT !.tries = n] /\ a.tries = Top.tries
      /\ Clean(g, stack, g.sp) /\ g.kind = Top.kind /\ g.bp = Top.bp /\ g.sp = Top.sp
  BY <1>3, <1>6, TriesView DEF g
<1> HIDE DEF a, b
<1>8. a.tries > 0 /\ b = [a EXCEPT !.tries = @ - 1]
  BY <1>2, <1>5, <1>7
<1>9. Abstract!Computes(a, b)
  BY <1>8 DEF Abstract!Computes
<1> QED
  <2>1. g.sp <= Len(stack) /\ \A i \in 1 .. Top.bp : stack[i] = stack[i]
    BY <1>3, <1>7
  <2> QED
    BY <1>1, <1>2, <1>3, <1>6, <1>7, <1>9, <2>1, MovesView DEF StepOK, a, b, TopAct
-----------------------------------------------------------------------------
LEMMA SlotsSame ==
  ASSUME NEW s \in Seq(Memory), NEW t \in Seq(Memory), NEW i \in Nat, NEW j \in Nat, i <= j,
         j <= Len(s), j <= Len(t), \A k \in i + 1 .. j : t[k] = s[k]
  PROVE  Slots(t, i, j) = Slots(s, i, j)
<1>1. /\ Slots(s, i, j) \in Seq(Memory) /\ Len(Slots(s, i, j)) = j - i
      /\ \A k \in 1 .. j - i : Slots(s, i, j)[k] = s[i + k]
  BY SlotsFacts
<1>2. /\ Slots(t, i, j) \in Seq(Memory) /\ Len(Slots(t, i, j)) = j - i
      /\ \A k \in 1 .. j - i : Slots(t, i, j)[k] = t[i + k]
  BY SlotsFacts
<1>3. \A k \in 1 .. j - i : i + k \in i + 1 .. j
  OBVIOUS
<1> QED
  BY <1>1, <1>2, <1>3, SameSeq

LEMMA StoreLocalView == ASSUME CInv, StoreLocal PROVE StepOK
<1> DEFINE last == Min2(Top.num, Code[Top.fn].params + Code[Top.fn].locals - 1)
<1>1. IInv /\ IInv'
  BY StoreLocalKeeps DEF CInv
<1>2. InBody /\ Top.kind = "user" /\ HasData /\ Running /\ Holds(1) /\ Top.body
  BY DEF StoreLocal, InBody, HasData
<1>3. PICK i \in 0 .. last :
        Moves([Top EXCEPT !.num = Max2(Top.num, i + 1)], Write(stack, Top.bp + 1 + i, Operand))
  BY DEF StoreLocal
<1>4. /\ frames # <<>> /\ error = None /\ Top \in FrameRecord /\ FrameOK(Top)
      /\ EvaluatesOK(Top) /\ Top.kind # "native" /\ Evaluates(Top)
      /\ stack \in Seq(Memory) /\ Len(stack) = Top.sp /\ Top.sp \in Nat
      /\ Base(Top) \in Nat /\ Base(Top) <= Top.sp /\ Top.bp \in Nat /\ Top.bp <= Base(Top)
      /\ Clean(Top, stack, Top.sp) /\ TopAct \in ActType
      /\ TopAct.operands = Slots(stack, Base(Top), Top.sp)
  BY <1>2, TopView
<1>5. /\ TopAct.operands # <<>> /\ Last(TopAct.operands) = Operand /\ Operand \in Memory
  BY <1>2, OperandView
<1>6. Operand \notin Methods
  BY <1>2, MethodsApart DEF HasData
<1>7. /\ Top.num \in Nat /\ Top.fn \in DOMAIN Code
      /\ Top.num <= Code[Top.fn].params + Code[Top.fn].locals
  BY <1>2, <1>4 DEF EvaluatesOK, UserOK, FrameRecord
<1>8. /\ Code[Top.fn].params \in Nat /\ Code[Top.fn].locals \in Nat
      /\ Max2(Top.num_args, Code[Top.fn].params) >= Code[Top.fn].params
      /\ Max2(Top.num_args, Code[Top.fn].params) \in Nat
      /\ Base(Top) = Top.bp + 1 + Max2(Top.num_args, Code[Top.fn].params) + Code[Top.fn].locals
  <2>1. Code[Top.fn].params \in Nat /\ Code[Top.fn].locals \in Nat /\ Top.num_args \in Nat
    BY <1>4, <1>7, CodeFacts DEF FrameRecord
  <2>2. /\ Max2(Top.num_args, Code[Top.fn].params) >= Code[Top.fn].params
        /\ Max2(Top.num_args, Code[Top.fn].params) \in Nat
    BY <2>1, MaxFacts
  <2> QED
    BY <1>2, <1>4, <1>7, <2>1, <2>2, BaseIs
<1>9. i \in Nat /\ i <= Top.num /\ Top.bp + 1 + i < Base(Top)
  <2> DEFINE p == Code[Top.fn].params
             l == Code[Top.fn].locals
             m == Max2(Top.num_args, Code[Top.fn].params)
             q == p + l - 1
             n == Top.num
             b == Top.bp
  <2>1. p \in Nat /\ l \in Nat /\ m \in Nat /\ m >= p /\ Base(Top) = b + 1 + m + l /\ b \in Nat
        /\ n \in Nat /\ last = Min2(n, q) /\ q \in Int /\ q = p + l - 1
    BY <1>4, <1>7, <1>8
  <2> HIDE DEF p, l, m, q, n, b, last
  <2>2. last \in Int /\ last <= n /\ last <= q
    BY <2>1, MinFacts
  <2>3. i \in Nat /\ i <= n /\ b + 1 + i < Base(Top)
    BY <1>3, <2>1, <2>2
  <2> QED
    BY <2>3 DEF n, b
<1> HIDE DEF last
<1> DEFINE k == Top.bp + 1 + i
           n == Max2(Top.num, i + 1)
           g == [Top EXCEPT !.num = n]
           s == Write(stack, k, Operand)
           a == TopAct
           b == ActivationOf(g, s, g.sp)
<1>10. n \in Nat /\ n = IF i = Top.num THEN Top.num + 1 ELSE Top.num
  BY <1>7, <1>9 DEF Max2
<1>11. k \in Nat /\ k < Len(stack) /\ k + 1 <= Base(Top) /\ k > Top.bp /\ k = Top.bp + 1 + i
  BY <1>4, <1>9
<1> HIDE DEF k, n
<1>12. /\ s \in Seq(Memory) /\ Len(s) = Len(stack) /\ s[k + 1] = Operand
       /\ \A j \in 1 .. Len(stack) : j # k + 1 => s[j] = stack[j]
  BY <1>4, <1>5, <1>11, WriteFacts
<1>13. /\ g \in FrameRecord /\ Same(Top, g) /\ g.num = n /\ g.sp = Top.sp
       /\ g.tries = Top.tries /\ g.open = Top.open /\ g.left = Top.left
  BY <1>4, <1>10 DEF FrameRecord, Same
<1>14. Moves(g, s)
  BY <1>3 DEF n, k
<1> HIDE DEF s, g
<1>15. \A j \in Base(Top) + 1 .. Top.sp : s[j] = stack[j]
  <2>1. \A j \in Base(Top) + 1 .. Top.sp : j \in 1 .. Len(stack) /\ j # k + 1
    BY <1>4, <1>11
  <2> QED
    BY <1>12, <2>1
<1>16. \A j \in 1 .. Top.bp + 1 : s[j] = stack[j]
  <2>1. \A j \in 1 .. Top.bp + 1 : j \in 1 .. Len(stack) /\ j # k + 1
    BY <1>4, <1>11
  <2> QED
    BY <1>12, <2>1
<1>17. Base(g) = Base(Top)
  BY <1>13, SameBase
<1>18. Clean(g, s, g.sp)
  <2>1. s[Top.bp + 1] = Top.fn
    BY <1>2, <1>4, <1>16 DEF Clean
  <2>2. Top.fn \in Methods => s[Top.bp] \notin Methods
    <3>1. Top.fn \in Methods => Top.bp \in 1 .. Top.bp + 1
      BY <1>4, EvaluatesFacts
    <3> QED
      BY <1>4, <1>16, <3>1 DEF Clean
  <2>3. \A j \in Top.bp + 1 .. Base(Top) - 1 : s[j + 1] \notin Methods
    <3> SUFFICES ASSUME NEW j \in Top.bp + 1 .. Base(Top) - 1 PROVE s[j + 1] \notin Methods
      OBVIOUS
    <3> DEFINE m == Base(Top)
               q == Top.bp
               len == Len(stack)
    <3>0. q \in Nat /\ m \in Nat /\ m <= len /\ len \in Nat /\ j \in q + 1 .. m - 1 /\ k \in Nat
      BY <1>4, <1>11
    <3>1. j + 1 \in 1 .. Len(stack) /\ (j + 1 = k + 1 <=> j = k)
      <4> HIDE DEF m, q
      <4> QED
        BY <3>0
    <3>2. stack[j + 1] \notin Methods
      BY <1>4 DEF Clean
    <3> QED
      BY <1>6, <1>12, <3>1, <3>2
  <2>4. ASSUME NEW j \in Base(Top) .. Top.sp - 1
        PROVE  /\ j \notin Range(Top.open) => s[j + 1] \notin Methods
               /\ j \in Range(Top.open) => s[j] \in DOMAIN MethodOf /\ s[j + 1] = MethodOf[s[j]]
    <3>1. j + 1 \in Base(Top) + 1 .. Top.sp
      BY <1>4
    <3>2. j \in Range(Top.open) => j \in Base(Top) + 1 .. Top.sp
      BY <1>4, OpenBelow
    <3> QED
      BY <1>4, <1>15, <3>1, <3>2 DEF Clean
  <2> QED
    BY <1>2, <1>13, <1>17, <2>1, <2>2, <2>3, <2>4 DEF Clean, Same
<1>19. /\ a.vars \in Seq(Memory) /\ Len(a.vars) = Top.num
       /\ \A j \in 1 .. Top.num : a.vars[j] = stack[Top.bp + 1 + j]
       /\ a.this = IF Top.fn \in Methods THEN stack[Top.bp] ELSE None
       /\ a.fn = Top.fn /\ a.tries = Top.tries
  <2>1. Variables(Top) = Top.num
    BY <1>2 DEF Variables
  <2> QED
    BY <1>4, <2>1, ActivationFacts DEF TopAct
<1>20. Evaluates(g)
  <2>1. frames' = Append(Front(frames), g)
    BY <1>14 DEF Moves
  <2>2. frames' \in Seq(FrameRecord) /\ Last(frames') = g /\ frames' # <<>>
    BY <1>1, <1>4, <1>13, <2>1, Replaced, TopFacts
  <2>3. Links(frames') /\ Last(frames').kind # "native"
    BY <1>1, <2>2 DEF IInv, Chain
  <2>4. Last(frames') = frames'[Len(frames')] /\ Len(frames') \in DOMAIN frames'
    BY <2>2, EmptySeq, LenProperties DEF Last
  <2> QED
    BY <1>13, <2>2, <2>3, <2>4 DEF Links, Evaluates, FrameOK
<1>21. /\ b.vars \in Seq(Memory) /\ Len(b.vars) = n
       /\ \A j \in 1 .. n : b.vars[j] = s[Top.bp + 1 + j]
       /\ b.this = IF Top.fn \in Methods THEN s[Top.bp] ELSE None
       /\ b.fn = Top.fn /\ b.tries = Top.tries
       /\ b.operands = Slots(s, Base(Top), Top.sp) /\ b \in ActType
  <2>1. Variables(g) = n /\ g.fn = Top.fn /\ g.bp = Top.bp
    BY <1>2, <1>13 DEF Variables, Same
  <2>2. g.sp \in Nat /\ Base(g) <= g.sp /\ g.sp <= Len(s)
    BY <1>4, <1>12, <1>13, <1>17
  <2>3. /\ b \in ActType /\ b.fn = g.fn /\ b.operands = Slots(s, Base(g), g.sp)
        /\ b.vars \in Seq(Memory) /\ Len(b.vars) = Variables(g)
        /\ \A j \in 1 .. Variables(g) : b.vars[j] = s[g.bp + 1 + j]
        /\ b.this = IF g.fn \in Methods THEN s[g.bp] ELSE None
        /\ b.tries = g.tries
    <3> DEFINE end == g.sp
    <3>1. end \in Nat /\ Base(g) <= end /\ end <= Len(s) /\ b = ActivationOf(g, s, end)
      BY <2>2
    <3> HIDE DEF end, b
    <3> QED
      <4>1. /\ b \in ActType /\ b.fn = g.fn /\ b.operands = Slots(s, Base(g), end)
            /\ b.vars \in Seq(Memory) /\ Len(b.vars) = Variables(g)
            /\ \A j \in 1 .. Variables(g) : b.vars[j] = s[g.bp + 1 + j]
            /\ b.this = IF g.fn \in Methods THEN s[g.bp] ELSE None
            /\ b.tries = g.tries
        BY <1>12, <1>20, <3>1, ActivationFacts
      <4> QED
        BY <4>1 DEF end
  <2> HIDE DEF b
  <2>4. b.operands = Slots(s, Base(Top), Top.sp)
    BY <1>13, <1>17, <2>3
  <2>5. b.fn = Top.fn /\ b \in ActType /\ b.tries = Top.tries
    BY <1>13, <2>1, <2>3
  <2>6. b.this = IF Top.fn \in Methods THEN s[Top.bp] ELSE None
    BY <2>1, <2>3
  <2>7. /\ b.vars \in Seq(Memory) /\ Len(b.vars) = n
        /\ \A j \in 1 .. n : b.vars[j] = s[Top.bp + 1 + j]
    BY <2>1, <2>3
  <2> QED
    BY <2>3, <2>4, <2>5, <2>6, <2>7
<1>22. b.operands = a.operands
  BY <1>4, <1>12, <1>15, <1>21, SlotsSame
<1> HIDE DEF a, b
<1>23. b.fn = a.fn /\ b.this = a.this /\ b.tries = a.tries
  <2>1. Top.fn \in Methods => s[Top.bp] = stack[Top.bp]
    <3>1. Top.fn \in Methods => Top.bp \in 1 .. Top.bp + 1
      BY <1>4, EvaluatesFacts
    <3> QED
      BY <1>16, <3>1
  <2>2. b.tries = a.tries
    BY <1>19, <1>21
  <2> QED
    BY <1>19, <1>21, <2>1, <2>2
<1>24. \A j \in 1 .. Top.num : s[Top.bp + 1 + j] = IF j = i + 1 THEN Operand ELSE stack[Top.bp + 1 + j]
  <2> SUFFICES ASSUME NEW j \in 1 .. Top.num
               PROVE  s[Top.bp + 1 + j] = IF j = i + 1 THEN Operand ELSE stack[Top.bp + 1 + j]
    OBVIOUS
  <2>1. (Top.bp + 1 + j = k + 1) <=> (j = i + 1)
    <3> DEFINE p == Top.bp
    <3>1. p \in Nat /\ i \in Nat /\ k = p + 1 + i /\ j \in Nat
      BY <1>4, <1>7, <1>9, <1>11
    <3> HIDE DEF p
    <3>2. (p + 1 + j = k + 1) <=> (j = i + 1)
      BY <3>1
    <3> QED
      BY <3>2 DEF p
  <2>2. Top.bp + 1 + j \in 1 .. Len(stack)
    BY <1>2, <1>4, <1>7, VariablesFit DEF Variables
  <2> QED
    BY <1>12, <2>1, <2>2
<1>25. a \in ActType /\ b \in ActType
  BY <1>4, <1>21 DEF a
<1>26. CASE i < Top.num
  <2>1. n = Top.num
    BY <1>9, <1>10, <1>26
  <2> DEFINE vs == [a.vars EXCEPT ![i + 1] = Operand]
  <2>2. /\ vs \in Seq(Memory) /\ Len(vs) = Top.num
        /\ \A j \in 1 .. Top.num : vs[j] = IF j = i + 1 THEN Operand ELSE a.vars[j]
    <3>1. i \in Nat /\ i < Len(a.vars) /\ vs = Write(a.vars, i, Operand)
      BY <1>9, <1>19, <1>26 DEF Write
    <3> HIDE DEF vs
    <3> DEFINE q == a.vars
    <3>2. q \in Seq(Memory) /\ Len(q) = Top.num
      BY <1>19
    <3> HIDE DEF q
    <3>3. /\ Write(q, i, Operand) \in Seq(Memory) /\ Len(Write(q, i, Operand)) = Len(q)
          /\ Write(q, i, Operand)[i + 1] = Operand
          /\ \A j \in 1 .. Len(q) : j # i + 1 => Write(q, i, Operand)[j] = q[j]
      BY <1>5, <3>1, <3>2, WriteFacts DEF q
    <3> QED
      BY <3>1, <3>2, <3>3 DEF q
  <2>3. i + 1 \in DOMAIN a.vars
    BY <1>7, <1>9, <1>19, <1>26
  <2> HIDE DEF vs
  <2>4. b.vars = vs
    <3>1. \A j \in 1 .. Top.num : b.vars[j] = vs[j]
      BY <1>19, <1>21, <1>24, <2>1, <2>2
    <3> QED
      BY <1>21, <2>1, <2>2, <3>1, SameSeq
  <2>5. b = [a EXCEPT !.vars[i + 1] = Operand]
    BY <1>22, <1>23, <1>25, <2>4 DEF ActType, vs
  <2> QED
    <3>1. Abstract!Computes(a, b)
      BY <1>5, <2>3, <2>5, AbstractOperators DEF Abstract!Computes, a
    <3>2. g.sp <= Len(s) /\ g.kind = Top.kind /\ g.bp = Top.bp /\ \A j \in 1 .. Top.bp : s[j] = stack[j]
      BY <1>4, <1>12, <1>13, <1>16 DEF Same
    <3> QED
      BY <1>1, <1>2, <1>12, <1>13, <1>14, <1>18, <3>1, <3>2, MovesView DEF StepOK, a, b, TopAct
<1>27. CASE i = Top.num
  <2>1. n = Top.num + 1
    BY <1>10, <1>27
  <2> DEFINE vs == Append(a.vars, Operand)
  <2>2. /\ vs \in Seq(Memory) /\ Len(vs) = Top.num + 1 /\ vs[Top.num + 1] = Operand
        /\ \A j \in 1 .. Top.num : vs[j] = a.vars[j]
    BY <1>5, <1>19, AppendProperties
  <2> HIDE DEF vs
  <2>4. b.vars = vs
    <3>1. \A j \in 1 .. Top.num : b.vars[j] = vs[j]
      <4>1. \A j \in 1 .. Top.num : j \in 1 .. n /\ j # i + 1
        BY <1>7, <1>27, <2>1
      <4> QED
        BY <1>19, <1>21, <1>24, <2>2, <4>1
    <3>2. b.vars[Top.num + 1] = Operand
      <4>1. Top.num + 1 \in 1 .. n /\ Top.bp + 1 + (Top.num + 1) = k + 1
        <5> DEFINE x == Top.num
                   y == Top.bp
        <5>1. x \in Nat /\ y \in Nat /\ k = y + 1 + x /\ n = x + 1
          BY <1>4, <1>7, <1>11, <1>27, <2>1
        <5> HIDE DEF x, y
        <5>2. x + 1 \in 1 .. n /\ y + 1 + (x + 1) = k + 1
          BY <5>1
        <5> QED
          BY <5>2 DEF x, y
      <4> QED
        BY <1>12, <1>21, <4>1
    <3>3. \A j \in 1 .. n : b.vars[j] = vs[j]
      BY <1>7, <2>1, <2>2, <3>1, <3>2, OneMore
    <3> QED
      BY <1>21, <2>1, <2>2, <3>3, SameSeq
  <2>5. b = [a EXCEPT !.vars = Append(a.vars, Operand)]
    BY <1>22, <1>23, <1>25, <2>4 DEF ActType, vs
  <2> QED
    <3>1. Abstract!Computes(a, b)
      BY <1>5, <2>5, AbstractOperators DEF Abstract!Computes, a
    <3>2. g.sp <= Len(s) /\ g.kind = Top.kind /\ g.bp = Top.bp /\ \A j \in 1 .. Top.bp : s[j] = stack[j]
      BY <1>4, <1>12, <1>13, <1>16 DEF Same
    <3> QED
      BY <1>1, <1>2, <1>12, <1>13, <1>14, <1>18, <3>1, <3>2, MovesView DEF StepOK, a, b, TopAct
<1> QED
  BY <1>7, <1>9, <1>26, <1>27
-----------------------------------------------------------------------------
LEMMA SameActivation ==
  ASSUME NEW a \in ActType, NEW b \in ActType, b.fn = a.fn, b.vars = a.vars,
         b.operands = a.operands, b.this = a.this, b.tries = a.tries
  PROVE  a = b
BY DEF ActType

(* A function that evaluates its defaults.                                 *)
LEMMA DefaultFacts ==
  ASSUME CInv, Running, ~Top.body
  PROVE  /\ Top.kind = "user" /\ Top.fn \in DOMAIN Code /\ Code[Top.fn].params \in Nat
         /\ Code[Top.fn].locals \in Nat /\ Top.num_args \in Nat /\ Top.phase \in Nat
         /\ Top.phase <= Code[Top.fn].params /\ Top.num = Code[Top.fn].params
         /\ Base(Top) = Top.bp + 1 + Max2(Top.num_args, Top.phase)
         /\ Variables(Top) = Min2(Max2(Top.num_args, Top.phase), Code[Top.fn].params)
         /\ Top.tries = 0
         /\ Top.num_args > Top.phase \/ Top.phase = Code[Top.fn].params => Top.sp = Base(Top)
<1>1. /\ Top \in FrameRecord /\ EvaluatesOK(Top) /\ Top.kind # "native"
      /\ Clean(Top, stack, Top.sp)
  BY TopView
<1>2. Top.kind = "user"
  BY <1>1 DEF EvaluatesOK, ScriptOK, FrameRecord
<1>3. UserOK(Top) /\ Top.fn \in DOMAIN Code /\ Top.num_args \in Nat /\ Top.phase \in Nat
  BY <1>1, <1>2 DEF EvaluatesOK, UserOK, FrameRecord
<1>4. Code[Top.fn].params \in Nat /\ Code[Top.fn].locals \in Nat
  BY <1>3, CodeFacts
<1>5. Base(Top) = Top.bp + 1 + Max2(Top.num_args, Top.phase)
  BY <1>1, <1>2, <1>3, BaseIs
<1>6. Top.num = Code[Top.fn].params
  BY <1>1, <1>2 DEF Clean
<1>7. Variables(Top) = Min2(Max2(Top.num_args, Top.phase), Code[Top.fn].params)
  BY DEF Variables
<1> QED
  BY <1>2, <1>3, <1>4, <1>5, <1>6, <1>7 DEF UserOK

LEMMA ApplyDefaultArgView == ASSUME CInv, ApplyDefaultArg PROVE StepOK
<1> DEFINE g == [Top EXCEPT !.phase = Top.phase + 1]
           p == Code[Top.fn].params
           a == TopAct
           b == ActivationOf(g, stack, g.sp)
<1>1. IInv /\ IInv'
  BY ApplyDefaultArgKeeps DEF CInv
<1>2. /\ Running /\ ~Top.body /\ Top.phase < p
      /\ Top.num_args <= Top.phase => Top.sp = Base(Top) + 1 /\ HasData
      /\ Moves(g, stack)
  BY DEF ApplyDefaultArg
<1>3. /\ frames # <<>> /\ error = None /\ Top \in FrameRecord /\ FrameOK(Top)
      /\ EvaluatesOK(Top) /\ Top.kind # "native" /\ Evaluates(Top)
      /\ stack \in Seq(Memory) /\ Len(stack) = Top.sp /\ Top.sp \in Nat
      /\ Base(Top) \in Nat /\ Base(Top) <= Top.sp /\ Top.bp \in Nat /\ Top.bp <= Base(Top)
      /\ Clean(Top, stack, Top.sp) /\ a \in ActType
      /\ a.operands = Slots(stack, Base(Top), Top.sp)
  BY <1>2, TopView
<1>4. /\ Top.kind = "user" /\ Top.fn \in DOMAIN Code /\ p \in Nat
      /\ Top.num_args \in Nat /\ Top.phase \in Nat /\ Top.num = p
      /\ Base(Top) = Top.bp + 1 + Max2(Top.num_args, Top.phase)
      /\ Variables(Top) = Min2(Max2(Top.num_args, Top.phase), p)
      /\ Top.tries = 0
      /\ Top.num_args > Top.phase => Top.sp = Base(Top)
  BY <1>2, DefaultFacts
<1>5. g \in FrameRecord /\ FrameOK(g) /\ g.kind = Top.kind /\ g.bp = Top.bp /\ g.sp = Top.sp
  <2>1. Top.num_args <= Top.phase => Floor(Top) <= Base(Top)
    <3>1. Base(Top) \in Nat /\ Floor(Top) \in Nat
      BY <1>3, FrameFacts
    <3> QED
      BY <1>2, <3>1 DEF HasData, Holds
  <2> QED
    BY <1>2, <1>3, <1>4, <2>1, NextDefault
<1>6. /\ g.fn = Top.fn /\ g.num_args = Top.num_args /\ ~g.body /\ g.phase = Top.phase + 1
      /\ g.num = p /\ g.tries = 0 /\ g.open = Top.open
  BY <1>2, <1>3, <1>4 DEF FrameRecord
<1> HIDE DEF g
<1>7. Evaluates(g)
  BY <1>4, <1>5 DEF Evaluates, FrameOK
<1>8. /\ Base(g) = Top.bp + 1 + Max2(Top.num_args, Top.phase + 1)
      /\ Variables(g) = Min2(Max2(Top.num_args, Top.phase + 1), p)
  <2>1. Base(g) = g.bp + 1 + Max2(g.num_args, g.phase)
    BY <1>4, <1>5, <1>6, BaseIs
  <2> QED
    BY <1>5, <1>6, <2>1 DEF Variables
<1>9. /\ Base(g) = Top.sp
      /\ Variables(Top) = IF Top.num_args > Top.phase THEN Min2(Top.num_args, p) ELSE Top.phase
  <2> DEFINE m == Top.phase
             n == Top.num_args
             q == Top.bp
             sp == Top.sp
  <2>1. /\ m \in Nat /\ n \in Nat /\ q \in Nat /\ sp \in Nat /\ m < p /\ p \in Nat
        /\ Base(Top) = q + 1 + Max2(n, m) /\ Base(g) = q + 1 + Max2(n, m + 1)
        /\ (n <= m => sp = Base(Top) + 1) /\ (n > m => sp = Base(Top))
        /\ Variables(Top) = Min2(Max2(n, m), p)
    BY <1>2, <1>3, <1>4, <1>8
  <2> HIDE DEF m, n, q, sp, p
  <2>2. Base(g) = sp
    BY <2>1 DEF Max2
  <2>3. Variables(Top) = IF n > m THEN Min2(n, p) ELSE m
    BY <2>1 DEF Max2, Min2
  <2> QED
    BY <2>2, <2>3 DEF m, n, sp
<1>10. Variables(g) = IF Top.num_args > Top.phase THEN Min2(Top.num_args, p) ELSE Top.phase + 1
  <2> HIDE DEF p
  <2> QED
    BY <1>2, <1>4, <1>8 DEF Max2, Min2
<1>11. /\ a.vars \in Seq(Memory) /\ Len(a.vars) = Variables(Top)
       /\ \A j \in 1 .. Variables(Top) : a.vars[j] = stack[Top.bp + 1 + j]
       /\ a.this = IF Top.fn \in Methods THEN stack[Top.bp] ELSE None
       /\ a.fn = Top.fn /\ a.tries = Top.tries
  BY <1>2, TopActFacts
<1>12. /\ b.vars \in Seq(Memory) /\ Len(b.vars) = Variables(g)
       /\ \A j \in 1 .. Variables(g) : b.vars[j] = stack[Top.bp + 1 + j]
       /\ b.this = IF Top.fn \in Methods THEN stack[Top.bp] ELSE None
       /\ b.fn = Top.fn /\ b.tries = Top.tries
       /\ b.operands = <<>> /\ b \in ActType
  <2>1. g.sp \in Nat /\ Base(g) <= g.sp /\ g.sp <= Len(stack)
    BY <1>3, <1>5, <1>9
  <2>2. /\ b \in ActType /\ b.fn = g.fn /\ b.operands = Slots(stack, Base(g), g.sp)
        /\ b.vars \in Seq(Memory) /\ Len(b.vars) = Variables(g)
        /\ \A j \in 1 .. Variables(g) : b.vars[j] = stack[g.bp + 1 + j]
        /\ b.this = IF g.fn \in Methods THEN stack[g.bp] ELSE None
        /\ b.tries = g.tries
    BY <1>3, <1>7, <2>1, ActivationFacts
  <2>3. b.operands = <<>>
    BY <1>3, <1>5, <1>9, <2>2, NoSlots
  <2> HIDE DEF b
  <2> QED
    BY <1>4, <1>5, <1>6, <2>2, <2>3
<1> HIDE DEF a, b
<1>13. b.fn = a.fn /\ b.this = a.this /\ b.tries = a.tries
  BY <1>11, <1>12
<1>14. ASSUME Top.num_args <= Top.phase
       PROVE  Operand \notin Methods /\ Operand = stack[Top.sp]
  <2>1. HasData /\ Holds(1)
    BY <1>2, <1>14 DEF HasData
  <2> QED
    BY <1>2, <2>1, OperandView, MethodsApart DEF HasData
<1>15. Clean(g, stack, g.sp)
  <2>1. ASSUME NEW j \in Top.bp + 1 .. Base(g) - 1 PROVE stack[j + 1] \notin Methods
    <3>1. CASE j \in Top.bp + 1 .. Base(Top) - 1
      BY <1>3, <3>1 DEF Clean
    <3>2. CASE j \notin Top.bp + 1 .. Base(Top) - 1
      <4>1. Top.num_args <= Top.phase
        BY <1>3, <1>4, <1>9, <2>1, <3>2
      <4>2. j + 1 = Top.sp
        BY <1>2, <1>3, <1>9, <2>1, <3>2, <4>1
      <4> QED
        BY <1>14, <4>1, <4>2
    <3> QED
      BY <3>1, <3>2
  <2>2. \A j \in Base(g) .. g.sp - 1 : FALSE
    BY <1>3, <1>5, <1>9
  <2> QED
    BY <1>3, <1>4, <1>5, <1>6, <2>1, <2>2 DEF Clean
<1>16. CASE Top.num_args > Top.phase
  <2>1. b.vars = a.vars
    <3> DEFINE m == Variables(Top)
    <3>1. Variables(g) = m
      BY <1>9, <1>10, <1>16
    <3> HIDE DEF m
    <3>2. /\ a.vars \in Seq(Memory) /\ b.vars \in Seq(Memory) /\ Len(a.vars) = m
          /\ Len(b.vars) = m /\ \A j \in 1 .. m : b.vars[j] = a.vars[j]
      BY <1>11, <1>12, <3>1 DEF m
    <3> QED
      BY <3>2, SameSeq
  <2>2. b.operands = a.operands
    BY <1>3, <1>4, <1>12, <1>16, NoSlots
  <2>3. a = b
    BY <1>3, <1>12, <1>13, <2>1, <2>2, SameActivation
  <2> QED
    BY <1>1, <1>2, <1>3, <1>5, <1>15, <2>3, MovesView DEF StepOK, a, b, TopAct
<1>17. CASE Top.num_args <= Top.phase
  <2> DEFINE v == Operand
             vs == Append(a.vars, v)
             m == Top.phase
  <2>1. Variables(Top) = m /\ Variables(g) = m + 1 /\ m \in Nat
    BY <1>4, <1>9, <1>10, <1>17
  <2>2. /\ a.operands # <<>> /\ Last(a.operands) = v /\ v \in Memory /\ v = stack[Top.sp]
        /\ Front(a.operands) = <<>>
    <3>1. Running /\ Holds(1) /\ Top.sp - 1 = Base(Top) /\ Base(Top) \in Int
      BY <1>2, <1>3, <1>17 DEF HasData
    <3> QED
      BY <3>1, OperandView, NoSlots DEF a
  <2>3. Top.bp + 1 + (m + 1) = Top.sp
    BY <1>2, <1>3, <1>4, <1>17 DEF Max2
  <2> HIDE DEF v, m
  <2>4. /\ vs \in Seq(Memory) /\ Len(vs) = m + 1 /\ vs[m + 1] = v
        /\ \A j \in 1 .. m : vs[j] = a.vars[j]
    BY <1>11, <2>1, <2>2, AppendProperties
  <2> HIDE DEF vs
  <2>5. b.vars = vs
    <3>1. m + 1 \in 1 .. m + 1 /\ \A j \in 1 .. m : j \in 1 .. m + 1
      BY <2>1
    <3>2. b.vars[m + 1] = v
      BY <1>12, <2>1, <2>2, <2>3, <3>1
    <3>3. \A j \in 1 .. m : b.vars[j] = vs[j]
      BY <1>11, <1>12, <2>1, <2>4, <3>1
    <3>4. \A j \in 1 .. m + 1 : b.vars[j] = vs[j]
      BY <2>1, <2>4, <3>2, <3>3, OneMore
    <3> QED
      BY <1>12, <2>1, <2>4, <3>4, SameSeq
  <2>6. b = [a EXCEPT !.vars = Append(a.vars, v), !.operands = Front(a.operands)]
    BY <1>3, <1>12, <1>13, <2>2, <2>5 DEF ActType, vs, a
  <2>7. Abstract!Computes(a, b)
    BY <2>2, <2>6, AbstractOperators DEF Abstract!Computes
  <2> QED
    BY <1>1, <1>2, <1>3, <1>5, <1>15, <2>7, MovesView DEF StepOK, a, b, TopAct
<1> QED
  BY <1>4, <1>16, <1>17

LEMMA AllocateLocalsView == ASSUME CInv, AllocateLocals PROVE StepOK
<1> DEFINE l == Code[Top.fn].locals
           p == Code[Top.fn].params
           n == Top.sp + l
           g == [Top EXCEPT !.body = TRUE, !.sp = n]
           new == [i \in 1 .. l |-> Null]
           s == stack \o new
           a == TopAct
           b == ActivationOf(g, s, g.sp)
<1>1. IInv /\ IInv'
  BY AllocateLocalsKeeps DEF CInv
<1>2. /\ Running /\ ~Top.body /\ Top.phase = p /\ Moves(g, s)
  BY DEF AllocateLocals
<1>3. /\ frames # <<>> /\ error = None /\ Top \in FrameRecord /\ FrameOK(Top)
      /\ EvaluatesOK(Top) /\ Top.kind # "native" /\ Evaluates(Top)
      /\ stack \in Seq(Memory) /\ Len(stack) = Top.sp /\ Top.sp \in Nat
      /\ Base(Top) \in Nat /\ Base(Top) <= Top.sp /\ Top.bp \in Nat /\ Top.bp <= Base(Top)
      /\ Clean(Top, stack, Top.sp) /\ a \in ActType
      /\ a.operands = Slots(stack, Base(Top), Top.sp)
  BY <1>2, TopView
<1>4. /\ Top.kind = "user" /\ Top.fn \in DOMAIN Code /\ p \in Nat /\ l \in Nat
      /\ Top.num_args \in Nat /\ Top.num = p
      /\ Base(Top) = Top.bp + 1 + Max2(Top.num_args, p)
      /\ Variables(Top) = Min2(Max2(Top.num_args, p), p)
      /\ Top.tries = 0 /\ Top.sp = Base(Top)
  BY <1>2, DefaultFacts
<1>5. /\ g \in FrameRecord /\ FrameOK(g) /\ g.kind = Top.kind /\ g.bp = Top.bp /\ g.sp = n
      /\ n \in Nat
  BY <1>2, <1>3, <1>4, BodyBegins
<1>6. /\ g.fn = Top.fn /\ g.num_args = Top.num_args /\ g.body /\ g.num = p /\ g.tries = 0
  BY <1>3, <1>4 DEF FrameRecord
<1>7. /\ s \in Seq(Memory) /\ Len(s) = n /\ \A j \in 1 .. Top.sp : s[j] = stack[j]
      /\ \A j \in Top.sp + 1 .. n : s[j] = Null
  <2>1. new \in Seq(Memory) /\ Len(new) = l /\ \A j \in 1 .. l : new[j] = Null
    <3>1. new \in [1 .. l -> Memory] /\ \A j \in 1 .. l : new[j] = Null
      BY MethodsApart
    <3> HIDE DEF new, l
    <3> QED
      BY <1>4, <3>1, FunctionIsSeq
  <2> HIDE DEF new, l
  <2>2. /\ s \in Seq(Memory) /\ Len(s) = Len(stack) + Len(new)
        /\ \A j \in 1 .. Len(stack) : s[j] = stack[j]
        /\ \A j \in 1 .. Len(new) : s[Len(stack) + j] = new[j]
    BY <1>3, <2>1, JoinFacts
  <2> HIDE DEF s
  <2>3. ASSUME NEW j \in Top.sp + 1 .. n PROVE s[j] = Null
    <3> DEFINE i == j - Top.sp
    <3>1. i \in 1 .. l /\ j = Top.sp + i
      BY <1>3, <1>4
    <3> HIDE DEF i
    <3> QED
      BY <1>3, <2>1, <2>2, <3>1
  <2> QED
    BY <1>3, <2>1, <2>2, <2>3
<1> HIDE DEF g, s, new, n
<1>8. Evaluates(g)
  BY <1>4, <1>5 DEF Evaluates, FrameOK
<1>9. Base(g) = n /\ n = Top.sp + l
  <2>1. Base(g) = g.bp + 1 + Max2(g.num_args, Code[g.fn].params) + Code[g.fn].locals
    BY <1>4, <1>5, <1>6, BaseIs
  <2>2. Base(g) = Top.bp + 1 + Max2(Top.num_args, p) + l
    BY <1>5, <1>6, <2>1
  <2> QED
    BY <1>3, <1>4, <2>2 DEF n
<1>10. Variables(g) = p /\ Variables(Top) = p
  <2> HIDE DEF p
  <2> QED
    BY <1>4, <1>6 DEF Variables, Min2, Max2
<1>11. Top.bp + 1 + p <= Top.sp
  <2> HIDE DEF p
  <2> QED
    BY <1>3, <1>4 DEF Max2
<1>12. /\ a.vars \in Seq(Memory) /\ Len(a.vars) = p
       /\ \A j \in 1 .. p : a.vars[j] = stack[Top.bp + 1 + j]
       /\ a.this = IF Top.fn \in Methods THEN stack[Top.bp] ELSE None
       /\ a.fn = Top.fn /\ a.tries = Top.tries
  BY <1>2, <1>10, TopActFacts
<1>13. /\ b.vars \in Seq(Memory) /\ Len(b.vars) = p
       /\ \A j \in 1 .. p : b.vars[j] = s[Top.bp + 1 + j]
       /\ b.this = IF Top.fn \in Methods THEN s[Top.bp] ELSE None
       /\ b.fn = Top.fn /\ b.tries = Top.tries
       /\ b.operands = <<>> /\ b \in ActType
  <2>1. g.sp \in Nat /\ Base(g) <= g.sp /\ g.sp <= Len(s)
    BY <1>5, <1>7, <1>9
  <2>2. /\ b \in ActType /\ b.fn = g.fn /\ b.operands = Slots(s, Base(g), g.sp)
        /\ b.vars \in Seq(Memory) /\ Len(b.vars) = Variables(g)
        /\ \A j \in 1 .. Variables(g) : b.vars[j] = s[g.bp + 1 + j]
        /\ b.this = IF g.fn \in Methods THEN s[g.bp] ELSE None
        /\ b.tries = g.tries
    <3>1. s \in Seq(Memory)
      BY <1>7
    <3> DEFINE end == g.sp
    <3>2. end \in Nat /\ Base(g) <= end /\ end <= Len(s) /\ b = ActivationOf(g, s, end)
      BY <2>1
    <3> HIDE DEF end, b
    <3> QED
      <4>1. /\ b \in ActType /\ b.fn = g.fn /\ b.operands = Slots(s, Base(g), end)
            /\ b.vars \in Seq(Memory) /\ Len(b.vars) = Variables(g)
            /\ \A j \in 1 .. Variables(g) : b.vars[j] = s[g.bp + 1 + j]
            /\ b.this = IF g.fn \in Methods THEN s[g.bp] ELSE None
            /\ b.tries = g.tries
        BY <1>8, <3>1, <3>2, ActivationFacts
      <4> QED
        BY <4>1 DEF end
  <2>3. b.operands = <<>>
    BY <1>5, <1>9, <2>2, NoSlots
  <2> HIDE DEF b, p
  <2> QED
    BY <1>4, <1>5, <1>6, <1>10, <2>2, <2>3
<1> HIDE DEF a, b, p
<1>14. b.vars = a.vars
  <2>1. \A j \in 1 .. p : Top.bp + 1 + j \in 1 .. Top.sp
    BY <1>3, <1>4, <1>11
  <2>2. \A j \in 1 .. p : b.vars[j] = a.vars[j]
    BY <1>7, <1>12, <1>13, <2>1
  <2> DEFINE x == b.vars
             y == a.vars
  <2>3. x \in Seq(Memory) /\ y \in Seq(Memory) /\ Len(x) = p /\ Len(y) = p
    BY <1>12, <1>13
  <2>4. \A j \in 1 .. p : x[j] = y[j]
    BY <2>2
  <2> HIDE DEF x, y
  <2>5. x = y
    BY <2>3, <2>4, SameSeq
  <2> QED
    BY <2>5 DEF x, y
<1>15. b.this = a.this
  <2>1. Top.fn \in Methods => Top.bp \in 1 .. Top.sp
    BY <1>3, EvaluatesFacts
  <2> QED
    BY <1>7, <1>12, <1>13, <2>1
<1>16. b.fn = a.fn /\ b.tries = a.tries
  BY <1>12, <1>13
<1>17. b.operands = a.operands
  BY <1>3, <1>4, <1>13, NoSlots
<1>18. a = b
  BY <1>3, <1>13, <1>14, <1>15, <1>16, <1>17, SameActivation
<1>19. Clean(g, s, g.sp)
  <2>1. s[Top.bp + 1] = Top.fn
    <3>1. Top.bp + 1 \in 1 .. Top.sp
      BY <1>3, <1>4, <1>11
    <3> QED
      BY <1>3, <1>4, <1>7, <3>1 DEF Clean
  <2>2. Top.fn \in Methods => s[Top.bp] \notin Methods
    <3>1. Top.fn \in Methods => Top.bp \in 1 .. Top.sp
      BY <1>3, EvaluatesFacts
    <3> QED
      BY <1>3, <1>7, <3>1 DEF Clean
  <2>3. ASSUME NEW j \in Top.bp + 1 .. Base(g) - 1 PROVE s[j + 1] \notin Methods
    <3>1. CASE j \in Top.bp + 1 .. Base(Top) - 1
      <4>1. j + 1 \in 1 .. Top.sp
        BY <1>3, <1>4, <3>1
      <4> QED
        BY <1>3, <1>7, <3>1, <4>1 DEF Clean
    <3>2. CASE j \notin Top.bp + 1 .. Base(Top) - 1
      <4>1. j + 1 \in Top.sp + 1 .. n
        BY <1>3, <1>4, <1>5, <1>9, <2>3, <3>2
      <4> QED
        BY <1>7, <4>1, MethodsApart
    <3> QED
      BY <3>1, <3>2
  <2>4. \A j \in Base(g) .. g.sp - 1 : FALSE
    BY <1>5, <1>9
  <2> QED
    BY <1>4, <1>5, <1>6, <2>1, <2>2, <2>3, <2>4 DEF Clean
<1> QED
  <2>1. g.sp <= Len(s) /\ \A j \in 1 .. Top.bp : s[j] = stack[j]
    <3>1. \A j \in 1 .. Top.bp : j \in 1 .. Top.sp
      BY <1>3
    <3> QED
      BY <1>5, <1>7, <3>1
  <2> QED
    BY <1>1, <1>2, <1>5, <1>7, <1>18, <1>19, <2>1, MovesView DEF StepOK, a, b, TopAct

PushesMethod(a, b, v) ==
  /\ a.operands # <<>> /\ Last(a.operands) = v /\ v \in DOMAIN MethodOf
  /\ b = [a EXCEPT !.operands = Append(a.operands, MethodOf[v])]

LEMMA ComputesMethod ==
  ASSUME NEW a, NEW b, NEW v, PushesMethod(a, b, v)
  PROVE  Abstract!Computes(a, b)
<1>0. /\ a.operands # <<>> /\ Last(a.operands) = v /\ v \in DOMAIN MethodOf
      /\ b = [a EXCEPT !.operands = Append(a.operands, MethodOf[v])]
  BY DEF PushesMethod
<1>1. Abstract!Last(a.operands) = v
  BY <1>0, AbstractOperators
<1>2. b = [a EXCEPT !.operands = Append(@, MethodOf[v])]
  BY <1>0
<1> QED
  BY <1>0, <1>1, <1>2 DEF Abstract!Computes

LEMMA LoadsMethodView ==
  ASSUME CInv, LoadMethod, Operand \in DOMAIN MethodOf
  PROVE  StepOK
<1> DEFINE v == MethodOf[Operand]
           os == Append(Top.open, Top.sp)
           g == [Top EXCEPT !.sp = Top.sp + 1, !.open = os]
           s == Append(stack, v)
           a == TopAct
           b == ActivationOf(g, s, g.sp)
<1>1. IInv /\ IInv'
  BY LoadMethodKeeps DEF CInv
<1>2. /\ Computing /\ HasRoom(1) /\ Holds(1) /\ Running /\ (Top.body \/ AtDefault(Top))
      /\ Moves(g, s)
  BY <1>1, ComputingFacts DEF LoadMethod
<1>3. /\ frames # <<>> /\ error = None /\ Top \in FrameRecord /\ FrameOK(Top)
      /\ EvaluatesOK(Top) /\ Top.kind # "native" /\ Evaluates(Top)
      /\ stack \in Seq(Memory) /\ Len(stack) = Top.sp /\ Top.sp \in Nat
      /\ Base(Top) \in Nat /\ Base(Top) <= Top.sp /\ Top.bp \in Nat /\ Top.bp <= Base(Top)
      /\ Clean(Top, stack, Top.sp) /\ a \in ActType
      /\ a.operands = Slots(stack, Base(Top), Top.sp)
  BY <1>2, TopView
<1>4. /\ a.operands # <<>> /\ Last(a.operands) = Operand /\ Operand = stack[Top.sp]
      /\ Floor(Top) <= Top.sp - 1 /\ Floor(Top) \in Nat
  BY <1>2, OperandView
<1>5. Top.sp + 1 <= High(Top) /\ Floor(Top) < Top.sp
  <2>1. /\ Operands(Top.fn) \in Nat /\ High(Top) = Low(Top) + Operands(Top.fn)
        /\ Low(Top) \in Nat
    BY <1>3, FrameFacts
  <2> QED
    BY <1>2, <1>3, <1>4, <2>1 DEF HasRoom
<1>6. g \in FrameRecord /\ FrameOK(g) /\ g.kind = Top.kind /\ g.bp = Top.bp /\ g.sp = Top.sp + 1
  BY <1>2, <1>3, <1>5, Opened
<1>7. /\ Same(Top, g) /\ g.num = Top.num /\ g.tries = Top.tries /\ g.open = os
  BY <1>3, <1>6 DEF FrameRecord, Same
<1>8. v \in Memory
  BY MethodsApart DEF Methods
<1> HIDE DEF v, g
<1>9. /\ s \in Seq(Memory) /\ Len(s) = Top.sp + 1 /\ s[Top.sp + 1] = v
      /\ \A i \in 1 .. Top.sp : s[i] = stack[i]
  BY <1>3, <1>8, AppendProperties
<1> HIDE DEF s
<1>10. Range(os) = Range(Top.open) \cup {Top.sp} /\ Top.sp \notin Range(Top.open)
  <2>1. Top.open \in Seq(Nat)
    BY <1>3 DEF FrameRecord
  <2>2. /\ os \in Seq(Nat) /\ Len(os) = Len(Top.open) + 1 /\ Len(Top.open) \in Nat
        /\ os[Len(Top.open) + 1] = Top.sp /\ DOMAIN Top.open = 1 .. Len(Top.open)
        /\ \A i \in 1 .. Len(Top.open) : os[i] = Top.open[i]
    BY <1>3, <2>1, AppendProperties, LenProperties
  <2>3. DOMAIN os = 1 .. Len(Top.open) + 1
    BY <2>2, LenProperties
  <2> HIDE DEF os
  <2>4. Range(os) = Range(Top.open) \cup {Top.sp}
    BY <2>2, <2>3, OneMore DEF Range
  <2>5. \A i \in Range(Top.open) : i \in Nat /\ i < Top.sp
    BY <1>3, OpenBelow
  <2> QED
    BY <1>3, <2>4, <2>5
<1> HIDE DEF os
<1>11. Clean(g, s, g.sp)
  <2>1. Base(g) = Base(Top) /\ g.fn = Top.fn /\ g.body = Top.body
    BY <1>7, SameBase DEF Same
  <2>2. Clean(Top, s, Top.sp)
    BY <1>3, <1>9, CleanAgrees
  <2>3. ASSUME NEW i \in Base(Top) .. Top.sp
        PROVE  /\ i \notin Range(os) => s[i + 1] \notin Methods
               /\ i \in Range(os) => s[i] \in DOMAIN MethodOf /\ s[i + 1] = MethodOf[s[i]]
    <3>1. CASE i = Top.sp
      <4>1. i \in Range(os) /\ s[i + 1] = v
        BY <1>9, <1>10, <3>1
      <4>2. s[i] = Operand
        <5>1. Top.sp \in 1 .. Top.sp
          BY <1>3, <1>4
        <5> QED
          BY <1>4, <1>9, <3>1, <5>1
      <4> QED
        BY <4>1, <4>2 DEF v
    <3>2. CASE i # Top.sp
      <4>1. i \in Base(Top) .. Top.sp - 1
        BY <1>3, <3>2
      <4> QED
        BY <1>10, <2>2, <3>2, <4>1 DEF Clean
    <3> QED
      BY <3>1, <3>2
  <2>4. g.sp - 1 = Top.sp
    BY <1>3, <1>6
  <2> QED
    BY <1>6, <1>7, <2>1, <2>2, <2>3, <2>4 DEF Clean
<1>12. \A j \in 1 .. Base(Top) : s[j] = stack[j]
  <2>1. \A j \in 1 .. Base(Top) : j \in 1 .. Top.sp
    BY <1>3
  <2> QED
    BY <1>9, <2>1
<1>13. Keeps(Top, stack, g, s)
  BY <1>3, <1>7, <1>9, <1>12 DEF Keeps
<1>14. /\ b.fn = a.fn /\ b.vars = a.vars /\ b.this = a.this /\ b.tries = a.tries
       /\ b.operands = Slots(s, Base(Top), g.sp)
  BY <1>7, <1>13, ViewChange DEF TopAct
<1>15. b.operands = Append(a.operands, v)
  <2>1. Slots(s, Base(Top), Top.sp) = Slots(stack, Base(Top), Top.sp)
    BY <1>3, <1>9, SlotsAgree
  <2>2. Top.sp < Len(s) /\ Top.sp \in Nat /\ Base(Top) \in Nat /\ Base(Top) <= Top.sp
    BY <1>3, <1>9
  <2>3. Slots(s, Base(Top), Top.sp + 1) = Append(Slots(s, Base(Top), Top.sp), s[Top.sp + 1])
    BY <1>9, <2>2, SlotsMore
  <2> QED
    BY <1>3, <1>6, <1>9, <1>14, <2>1, <2>3
<1>16. b = [a EXCEPT !.operands = Append(a.operands, v)]
  BY <1>14, <1>15 DEF ActivationOf, TopAct
<1> HIDE DEF a, b
<1>17. Abstract!Computes(a, b)
  <2> DEFINE x == Operand
  <2>1. x \in DOMAIN MethodOf /\ a.operands # <<>> /\ Last(a.operands) = x
    BY <1>4
  <2>2. b = [a EXCEPT !.operands = Append(a.operands, MethodOf[x])]
    BY <1>16 DEF v
  <2> HIDE DEF x
  <2>3. PushesMethod(a, b, x)
    BY <2>1, <2>2 DEF PushesMethod
  <2> QED
    BY <2>3, ComputesMethod
<1> QED
  <2>1. g.sp <= Len(s) /\ \A j \in 1 .. Top.bp : s[j] = stack[j]
    <3>1. \A j \in 1 .. Top.bp : j \in 1 .. Base(Top)
      BY <1>3
    <3>2. \A j \in 1 .. Top.bp : s[j] = stack[j]
      BY <1>12, <3>1
    <3>3. g.sp <= Len(s)
      BY <1>3, <1>6, <1>9
    <3> QED
      BY <3>2, <3>3
  <2>2. Moves(g, s)
    BY <1>2 DEF g, s, v, os
  <2> QED
    BY <1>1, <1>2, <1>6, <1>9, <1>11, <1>17, <2>1, <2>2, MovesView DEF StepOK, a, b, TopAct
-----------------------------------------------------------------------------
(* Errors: RetWithTrace in the innermost of the frames fs.                 *)
LEMMA FitsNext == ASSUME IInv', frames' # <<>> PROVE Fits(frames', stack')
<1>1. SlotsOK(frames', stack', error') /\ Chain(frames')
  BY DEF IInv
<1>2. frames' \in Seq(FrameRecord)
  BY <1>1 DEF Chain, Links
<1>3. Last(frames') \in FrameRecord
  <2>1. Len(frames') \in DOMAIN frames'
    BY <1>2, EmptySeq
  <2> QED
    BY <1>2, <2>1 DEF Last
<1>4. stack' \in Seq(Memory) /\ Len(stack') = Last(frames').sp /\ Last(frames').sp \in Nat
  BY <1>1, <1>3 DEF SlotsOK, Memory, FrameRecord
<1> QED
  BY <1>1, <1>4 DEF Fits

Failing(fs, s, e) ==
  /\ Fits(fs, s) /\ CleanUnder(fs, s) /\ Clean(Last(fs), s, Base(Last(fs)))
  /\ e \in Errors /\ e.value \notin Methods
  /\ RetWithTrace(fs, s, e)

(* No handler: the innermost activation has lost its operands.             *)
LEMMA TracedView ==
  ASSUME NEW fs, NEW s, NEW e, Failing(fs, s, e), Last(fs).tries = 0
  PROVE  /\ Under(fs, s, frames', stack') /\ Len(frames') = Len(fs)
         /\ CleanAll(frames', stack', error') /\ error' # None
         /\ error'.value = e.value /\ error'.tb = <<Last(fs).fn>> \o e.tb
         /\ Last(frames') = Last(fs)
         /\ EndOf(frames', error', Len(frames')) = Base(Last(fs))
         /\ ActivationOf(Last(fs), stack', Base(Last(fs)))
              = ActivationOf(Last(fs), s, Base(Last(fs)))
<1> DEFINE f == Last(fs)
<1>1. /\ Fits(fs, s) /\ CleanUnder(fs, s) /\ Clean(f, s, Base(f)) /\ e \in Errors
      /\ frames' = fs /\ stack' = Cut(s, f.sp) /\ error' = Traced(f, s, e)
  BY DEF Failing, RetWithTrace
<1>2. /\ s \in Seq(Memory) /\ Evaluates(f) /\ f.sp <= Len(s) /\ Len(fs) \in Nat
      /\ Len(fs) > 0 /\ f = fs[Len(fs)] /\ Chain(fs)
  BY <1>1, FitsFacts DEF Fits
<1>3. /\ f.sp \in Nat /\ Base(f) \in Nat /\ Base(f) <= f.sp /\ f.bp \in Nat /\ f.bp <= Base(f)
      /\ f.kind \in {"script", "user"}
      /\ f.kind = "script" => f.fn = None
      /\ f \in FrameRecord /\ FrameOK(f) /\ f.kind # "native"
  BY <1>2, EvaluatesFacts DEF Evaluates, FrameOK
<1> HIDE DEF f
<1>4. /\ stack' \in Seq(Memory) /\ Len(stack') = f.sp
      /\ \A i \in 1 .. f.sp : stack'[i] = s[i]
  BY <1>1, <1>2, <1>3, CutFacts
<1>5. Fits(frames', stack')
  BY <1>1, <1>2, <1>4 DEF Fits, f
<1>6. Under(fs, s, frames', stack')
  <2>1. \A i \in 1 .. f.bp : i \in 1 .. f.sp
    BY <1>3
  <2>2. \A i \in 1 .. f.bp : stack'[i] = s[i]
    BY <1>4, <2>1
  <2>3. frames'[Len(fs)].kind = f.kind /\ frames'[Len(fs)].bp = f.bp /\ Len(fs) <= Len(frames')
    BY <1>1, <1>2
  <2> QED
    BY <1>1, <1>5, <2>2, <2>3 DEF Under, f
<1>7. /\ error' # None /\ error'.value = e.value /\ error'.tb = <<f.fn>> \o e.tb
  <2>1. error' \in Errors
    BY <1>1, <1>2, <1>3, TracedIs
  <2>2. error' # None
    BY <2>1, MethodsApart
  <2>3. (IF f.kind = "script" THEN None ELSE s[f.bp + 1]) = f.fn
    BY <1>1, <1>3 DEF Clean
  <2>4. error' = [e EXCEPT !.tb = <<f.fn>> \o e.tb]
    BY <1>1, <2>3 DEF Traced
  <2> QED
    BY <1>1, <2>2, <2>4 DEF Errors
<1>8. EndOf(frames', error', Len(frames')) = Base(f)
  <2>1. f = frames'[Len(frames')]
    BY <1>1, <1>2
  <2> QED
    BY <1>1, <1>2, <1>7, <2>1 DEF EndOf
<1>9. \A i \in 1 .. Base(f) : stack'[i] = s[i]
  <2>1. \A i \in 1 .. Base(f) : i \in 1 .. f.sp
    BY <1>3
  <2> QED
    BY <1>4, <2>1
<1>10. CleanAll(frames', stack', error')
  <2>1. CleanUnder(frames', stack')
    BY <1>1, <1>6, UnderClean
  <2>2. Clean(f, stack', Base(f))
    BY <1>1, <1>2, <1>3, <1>4, <1>9, CleanAgrees
  <2> QED
    BY <1>1, <1>5, <1>8, <2>1, <2>2, CleanSplits DEF f
<1>11. ActivationOf(f, stack', Base(f)) = ActivationOf(f, s, Base(f))
  BY <1>2, <1>3, <1>4, <1>9, ActivationAgrees
<1> QED
  BY <1>1, <1>6, <1>7, <1>8, <1>10, <1>11 DEF f

(* A handler: the variables are as they were, the error is on top.         *)
LEMMA CaughtView ==
  ASSUME IInv', NEW fs, NEW s, NEW e, Failing(fs, s, e), Last(fs).tries > 0
  PROVE  LET g == Last(frames') IN
         /\ Under(fs, s, frames', stack') /\ Len(frames') = Len(fs)
         /\ CleanAll(frames', stack', error') /\ error' = None
         /\ EndOf(frames', error', Len(frames')) = g.sp
         /\ Keeps(Last(fs), s, g, stack') /\ g.tries = Last(fs).tries - 1
         /\ Last(fs).tries \in Nat /\ Evaluates(g)
         /\ Slots(stack', Base(Last(fs)), g.sp) # <<>>
         /\ Last(Slots(stack', Base(Last(fs)), g.sp)) = e.value
<1> DEFINE f == Last(fs)
           g == Catching(f)
           junk == [i \in 1 .. f.sp |-> IF i <= Base(f) THEN s[i] ELSE Junk]
           v == e.value
<1>0. f.tries # 0
  OBVIOUS
<1>1. /\ Fits(fs, s) /\ CleanUnder(fs, s) /\ Clean(f, s, Base(f)) /\ e \in Errors
      /\ v \notin Methods
      /\ frames' = Append(Front(fs), g) /\ stack' = junk \o <<v>> /\ error' = None
  BY <1>0 DEF Failing, RetWithTrace, Catching
<1>2. /\ s \in Seq(Memory) /\ Evaluates(f) /\ f.sp <= Len(s) /\ Len(fs) \in Nat
      /\ Len(fs) > 0 /\ f = fs[Len(fs)] /\ fs \in Seq(FrameRecord) /\ fs # <<>>
  BY <1>1, FitsFacts DEF Fits
<1>3. /\ f.sp \in Nat /\ Base(f) \in Nat /\ Base(f) <= f.sp /\ f.bp \in Nat /\ f.bp <= Base(f)
      /\ f.tries \in Nat /\ f.fn \in DOMAIN Code \cup {None}
      /\ f \in FrameRecord /\ f.tries > 0
  BY <1>2, EvaluatesFacts DEF Evaluates
<1>4. g \in FrameRecord
  BY <1>3, CatchingIs
<1>5. /\ Same(f, g) /\ g.num = f.num /\ g.tries = f.tries - 1 /\ g.open = <<>>
      /\ g.sp = f.sp + 1
  BY <1>3, CatchingIs
<1> HIDE DEF f, g
<1>6. /\ Len(frames') = Len(fs) /\ Last(frames') = g /\ frames'[Len(fs)] = g
      /\ \A d \in 1 .. Len(fs) - 1 : frames'[d] = fs[d]
      /\ frames' # <<>>
  BY <1>1, <1>2, <1>4, Replaced
<1>7. Fits(frames', stack') /\ Evaluates(g)
  <2>1. Fits(frames', stack')
    BY <1>6, FitsNext
  <2> QED
    BY <1>6, <2>1, FitsFacts
<1>8. /\ junk \in Seq(Memory) /\ Len(junk) = f.sp
      /\ \A i \in 1 .. Base(f) : junk[i] = s[i]
      /\ \A i \in Base(f) + 1 .. f.sp : junk[i] = Junk
  <2>1. \A i \in 1 .. f.sp : s[i] \in Memory /\ Junk \in Memory
    BY <1>2, <1>3, MethodsApart
  <2>2. junk \in [1 .. f.sp -> Memory]
    BY <2>1
  <2>3. /\ \A i \in 1 .. Base(f) : i \in 1 .. f.sp /\ i <= Base(f)
        /\ \A i \in Base(f) + 1 .. f.sp : i \in 1 .. f.sp /\ ~(i <= Base(f))
    BY <1>3
  <2>4. /\ \A i \in 1 .. Base(f) : junk[i] = s[i]
        /\ \A i \in Base(f) + 1 .. f.sp : junk[i] = Junk
    BY <2>3
  <2> DEFINE n == f.sp
  <2>5. junk \in [1 .. n -> Memory] /\ n \in Nat
    BY <1>3, <2>2
  <2> HIDE DEF junk, n
  <2>6. junk \in Seq(Memory) /\ Len(junk) = n
    BY <2>5, FunctionIsSeq
  <2> QED
    BY <2>4, <2>6 DEF n
<1> HIDE DEF junk
<1>9. v \in Memory
  BY <1>1, MethodsApart DEF Errors
<1> HIDE DEF v
<1>10. /\ stack' \in Seq(Memory) /\ Len(stack') = f.sp + 1 /\ stack'[f.sp + 1] = v
       /\ \A i \in 1 .. f.sp : stack'[i] = junk[i]
  <2>1. <<v>> \in Seq(Memory) /\ Len(<<v>>) = 1 /\ <<v>>[1] = v /\ 1 \in 1 .. 1
    BY <1>9
  <2> DEFINE vs == <<v>>
  <2> HIDE DEF vs
  <2>2. /\ junk \o vs \in Seq(Memory) /\ Len(junk \o vs) = Len(junk) + Len(vs)
        /\ \A j \in 1 .. Len(junk) : (junk \o vs)[j] = junk[j]
        /\ \A j \in 1 .. Len(vs) : (junk \o vs)[Len(junk) + j] = vs[j]
    BY <1>8, <2>1, JoinFacts DEF vs
  <2> QED
    BY <1>1, <1>8, <2>1, <2>2 DEF vs
<1>11. \A i \in 1 .. Base(f) : stack'[i] = s[i]
  <2>1. \A i \in 1 .. Base(f) : i \in 1 .. f.sp
    BY <1>3
  <2> QED
    BY <1>8, <1>10, <2>1
<1>12. Under(fs, s, frames', stack')
  <2>1. \A i \in 1 .. f.bp : i \in 1 .. Base(f)
    BY <1>3
  <2>2. \A i \in 1 .. f.bp : stack'[i] = s[i]
    BY <1>11, <2>1
  <2>3. frames'[Len(fs)].kind = f.kind /\ frames'[Len(fs)].bp = f.bp /\ Len(fs) <= Len(frames')
    BY <1>2, <1>5, <1>6 DEF Same
  <2> QED
    BY <1>1, <1>6, <1>7, <2>2, <2>3 DEF Under, f
<1>13. Keeps(f, s, g, stack')
  <2>1. Base(f) <= Len(s) /\ Base(f) <= Len(stack')
    BY <1>2, <1>3, <1>10
  <2> QED
    BY <1>2, <1>5, <1>10, <1>11, <2>1 DEF Keeps
<1>14. EndOf(frames', error', Len(frames')) = g.sp
  <2>1. g = frames'[Len(frames')]
    BY <1>6
  <2> QED
    BY <1>1, <1>6, <2>1 DEF EndOf
<1>15. CleanAll(frames', stack', error')
  <2>1. CleanUnder(frames', stack')
    BY <1>1, <1>6, <1>12, UnderClean
  <2>2. Clean(f, stack', Base(f))
    <3> DEFINE t == stack'
               b == Base(f)
    <3>1. Evaluates(f) /\ Clean(f, s, b)
      BY <1>1, <1>2
    <3>2. b \in Nat /\ Base(f) <= b /\ b <= b
      BY <1>3
    <3>3. \A i \in 1 .. b : t[i] = s[i]
      BY <1>11
    <3> HIDE DEF t, b
    <3> QED
      BY <3>1, <3>2, <3>3, CleanAgrees DEF t, b
  <2>3. \A i \in Base(f) .. f.sp : stack'[i + 1] \notin Methods
    <3>1. \A i \in Base(f) .. f.sp : i + 1 \in Base(f) + 1 .. f.sp \/ i = f.sp
      BY <1>3
    <3>2. \A i \in Base(f) + 1 .. f.sp : i \in 1 .. f.sp
      BY <1>3
    <3> QED
      BY <1>1, <1>8, <1>10, <3>1, <3>2, MethodsApart
  <2>4. Range(g.open) = {}
    BY <1>5 DEF Range
  <2>5. Base(g) = Base(f) /\ g.sp - 1 = f.sp
    BY <1>3, <1>5, SameBase
  <2>6. Clean(g, stack', g.sp)
    BY <1>5, <2>2, <2>3, <2>4, <2>5 DEF Clean, Same
  <2> QED
    BY <1>6, <1>7, <1>14, <2>1, <2>6, CleanSplits
<1>16. /\ Slots(stack', Base(f), g.sp) # <<>>
       /\ Last(Slots(stack', Base(f), g.sp)) = v
  <2> DEFINE t == stack'
             b == Base(f)
             j == f.sp
  <2>1. /\ t \in Seq(Memory) /\ b \in Nat /\ j \in Nat /\ b <= j /\ j < Len(t)
        /\ t[j + 1] = v /\ g.sp = j + 1
    BY <1>3, <1>5, <1>10
  <2> HIDE DEF t, b, j
  <2>2. Slots(t, b, j + 1) # <<>> /\ Last(Slots(t, b, j + 1)) = v
    BY <2>1, SlotsMore
  <2> QED
    BY <2>1, <2>2 DEF t, b, j
<1> QED
  BY <1>1, <1>3, <1>5, <1>6, <1>7, <1>12, <1>13, <1>14, <1>15, <1>16 DEF f, v

LEMMA FrontOf ==
  ASSUME NEW T, NEW s \in Seq(T), s # <<>>
  PROVE  Front(s) \in Seq(T) /\ Len(Front(s)) = Len(s) - 1 /\ Len(Front(s)) \in Nat
         /\ Last(s) \in T /\ Last(s) = s[Len(s)] /\ Len(s) \in Nat /\ Len(s) > 0
<1>1. Len(s) \in Nat /\ Len(s) > 0
  BY LenProperties, EmptySeq
<1>2. Last(s) \in T /\ Last(s) = s[Len(s)]
  <2>1. Len(s) \in 1 .. Len(s)
    BY <1>1
  <2> QED
    BY <2>1, LenProperties DEF Last
<1>3. /\ Front(s) \in Seq(T) /\ Len(Front(s)) = Len(s) - 1
  <2> DEFINE n == Len(s) - 1
  <2>1. n \in Nat /\ 1 .. n \subseteq 1 .. Len(s)
    BY <1>1
  <2>2. \A i \in 1 .. Len(s) : s[i] \in T
    BY LenProperties
  <2>3. \A i \in 1 .. n : s[i] \in T
    BY <2>1, <2>2
  <2>4. Front(s) = SubSeq(s, 1, n)
    BY DEF Front
  <2> HIDE DEF n
  <2>5. /\ SubSeq(s, 1, n) \in Seq(T)
        /\ Len(SubSeq(s, 1, n)) = IF 1 <= n THEN n - 1 + 1 ELSE 0
    BY <2>1, <2>3, SubSeqProperties
  <2>6. Len(SubSeq(s, 1, n)) = n
    BY <2>1, <2>5
  <2> QED
    BY <2>4, <2>5, <2>6 DEF n
<1> QED
  BY <1>1, <1>2, <1>3

(* The step of Activations, whichever operands the innermost activation    *)
(* still has.                                                              *)
Fails(a, f, s) ==
  LET b == ActivationOf(f, s, Base(f)) IN
  a.fn = b.fn /\ a.vars = b.vars /\ a.this = b.this /\ a.tries = b.tries

LEMMA FailView ==
  ASSUME IInv', NEW fs, NEW s, NEW e, Failing(fs, s, e),
         NEW as \in Acts, as # <<>>, Front(as) = Front(ActsOf(fs, s, None)),
         Fails(Last(as), Last(fs), s)
  PROVE  CleanAll(frames', stack', error') /\ Abstract!Fail(as, e.value, e.tb)
<1> DEFINE f == Last(fs)
           h == Front(as)
           a == Last(as)
           B == ActsOf(frames', stack', error')
           b == ActivationOf(Last(frames'), stack', EndOf(frames', error', Len(frames')))
           c == ActivationOf(f, s, Base(f))
<1>1. Fits(fs, s)
  BY DEF Failing
<1>2. /\ s \in Seq(Memory) /\ Evaluates(f) /\ Base(f) \in Nat /\ Base(f) <= f.sp
      /\ f.sp \in Nat /\ f.sp <= Len(s) /\ Len(s) \in Nat
  BY <1>1, FitsFacts, EvaluatesFacts DEF Fits
<1>3. c \in ActType /\ c.operands = <<>>
  <2>1. Base(f) <= Len(s)
    BY <1>2
  <2>2. c \in ActType /\ c.operands = Slots(s, Base(f), Base(f))
    BY <1>2, <2>1, ActivationFacts
  <2> QED
    BY <1>2, <2>2, NoSlots
<1>4. /\ Len(as) \in Nat /\ Len(as) > 0 /\ a \in ActType /\ a = as[Len(as)]
      /\ h \in Acts /\ Len(h) = Len(as) - 1
  <2>1. as \in Seq(ActType)
    BY DEF Acts
  <2>2. /\ Front(as) \in Seq(ActType) /\ Len(Front(as)) = Len(as) - 1
        /\ Last(as) \in ActType /\ Last(as) = as[Len(as)] /\ Len(as) \in Nat /\ Len(as) > 0
    BY <2>1, FrontOf
  <2> QED
    BY <2>2 DEF Acts
<1>5. a.fn = c.fn /\ a.vars = c.vars /\ a.this = c.this /\ a.tries = c.tries
  BY DEF Fails
<1>6. c.fn = f.fn /\ c.tries = f.tries
  BY DEF ActivationOf
<1> HIDE DEF c
<1>7. f.tries \in Nat
  BY <1>2, EvaluatesFacts
<1>8. c.tries = 0 <=> f.tries = 0
  BY <1>6
<1>9. ASSUME Under(fs, s, frames', stack'), Len(frames') = Len(fs)
      PROVE  b \in ActType /\ B = Append(h, b)
  BY <1>9, ActsReplaced
<1> HIDE DEF f, h, a
<1>10. CASE f.tries = 0
  <2>1. /\ Under(fs, s, frames', stack') /\ Len(frames') = Len(fs)
        /\ CleanAll(frames', stack', error') /\ error' # None
        /\ error'.value = e.value /\ error'.tb = <<f.fn>> \o e.tb
        /\ Last(frames') = f
        /\ EndOf(frames', error', Len(frames')) = Base(f)
        /\ ActivationOf(f, stack', Base(f)) = c
    BY <1>10, TracedView DEF f, c
  <2>2. b = c
    BY <2>1
  <2> HIDE DEF b, B
  <2>3. B = Append(h, c)
    BY <1>9, <2>1, <2>2
  <2>4. [a EXCEPT !.operands = <<>>] = c
    <3>1. <<>> \in Seq(Memory)
      OBVIOUS
    <3> DEFINE d == [a EXCEPT !.operands = <<>>]
    <3>2. d \in ActType /\ d.fn = c.fn /\ d.vars = c.vars /\ d.this = c.this /\ d.tries = c.tries
          /\ d.operands = c.operands
      BY <1>3, <1>4, <1>5, <3>1 DEF ActType
    <3> HIDE DEF d
    <3>3. c = d
      BY <1>3, <3>2, SameActivation
    <3> QED
      BY <3>3 DEF d
  <2>5. a.tries = 0 /\ a.fn = f.fn
    BY <1>5, <1>6, <1>8, <1>10
  <2>6. Abstract!Fail(as, e.value, e.tb)
    BY <2>1, <2>3, <2>4, <2>5, AbstractOperators DEF Abstract!Fail, a, h, B
  <2> QED
    BY <2>1, <2>6
<1>11. CASE f.tries > 0
  <2> DEFINE g == Last(frames')
             left == Slots(stack', Base(f), g.sp)
  <2>1. /\ Under(fs, s, frames', stack') /\ Len(frames') = Len(fs)
        /\ CleanAll(frames', stack', error') /\ error' = None
        /\ EndOf(frames', error', Len(frames')) = g.sp
        /\ Keeps(f, s, g, stack') /\ g.tries = f.tries - 1
        /\ Evaluates(g)
        /\ left # <<>> /\ Last(left) = e.value
    BY <1>11, CaughtView DEF f
  <2>2. b = ActivationOf(g, stack', g.sp)
    BY <2>1
  <2>3. /\ b.fn = c.fn /\ b.vars = c.vars /\ b.this = c.this /\ b.operands = left
        /\ b.tries = g.tries
    <3>1. /\ ActivationOf(g, stack', g.sp).fn = c.fn /\ ActivationOf(g, stack', g.sp).vars = c.vars
          /\ ActivationOf(g, stack', g.sp).this = c.this
          /\ ActivationOf(g, stack', g.sp).operands = left
      BY <2>1, ViewChange DEF c
    <3>2. ActivationOf(g, stack', g.sp).tries = g.tries
      BY DEF ActivationOf
    <3> QED
      BY <2>2, <3>1, <3>2
  <2> HIDE DEF b, B
  <2>4. b \in ActType /\ B = Append(h, b)
    BY <1>9, <2>1
  <2> HIDE DEF g, left
  <2>5. b.tries = c.tries - 1
    BY <1>6, <2>1, <2>3
  <2>7. [a EXCEPT !.tries = @ - 1, !.operands = left] = b
    <3> DEFINE ts == a.tries - 1
               d == [a EXCEPT !.tries = ts, !.operands = left]
    <3>1. ts = b.tries /\ left = b.operands
      BY <1>5, <2>3, <2>5
    <3> HIDE DEF ts
    <3>2. d \in ActType /\ d.fn = b.fn /\ d.vars = b.vars /\ d.this = b.this /\ d.tries = b.tries
          /\ d.operands = b.operands
      BY <1>4, <1>5, <2>3, <2>4, <3>1 DEF ActType
    <3> HIDE DEF d
    <3>3. b = d
      BY <2>4, <3>2, SameActivation
    <3> QED
      BY <3>3 DEF d, ts
  <2>9. Len(B) = Len(as) /\ Last(B) = b
    <3>1. Len(Append(h, b)) = Len(h) + 1 /\ Last(Append(h, b)) = b
      <4>1. h \in Seq(ActType) /\ b \in ActType
        BY <1>4, <2>4 DEF Acts
      <4> QED
        BY <4>1, SeqAppended
    <3>2. Len(h) + 1 = Len(as)
      <4> DEFINE n == Len(as)
                 m == Len(h)
      <4>1. n \in Nat /\ m = n - 1
        BY <1>4
      <4> HIDE DEF n, m
      <4>2. m + 1 = n
        BY <4>1
      <4> QED
        BY <4>2 DEF n, m
    <3> QED
      BY <2>4, <3>1, <3>2
  <2>10. a.tries # 0
    BY <1>5, <1>6, <1>11
  <2>11. Abstract!Fail(as, e.value, e.tb)
    BY <2>1, <2>3, <2>4, <2>7, <2>9, <2>10, AbstractOperators DEF Abstract!Fail, a, h, B
  <2> QED
    BY <2>1, <2>11
<1>12. f.tries = 0 \/ f.tries > 0
  BY <1>7
<1> QED
  BY <1>10, <1>11, <1>12

(* The activations before a step.                                          *)
Now == ActsOf(frames, stack, error)

LEMMA NowView ==
  ASSUME CInv, Running
  PROVE  /\ Now \in Acts /\ Now # <<>> /\ Front(Now) \in Acts /\ Last(Now) = TopAct
         /\ Now = Append(Front(Now), TopAct) /\ TopAct \in ActType
         /\ Len(Now) = eval_depth /\ Len(Now) \in Nat /\ Len(Now) > 0
         /\ Fits(frames, stack) /\ frames \in Seq(FrameRecord) /\ frames # <<>>
         /\ Top = Last(frames) /\ Links(frames) /\ Len(frames) \in Nat /\ Len(frames) > 0
         /\ EndOf(frames, error, Len(frames)) = Top.sp
<1>1. /\ frames # <<>> /\ error = None
  BY DEF Running
<1>2. /\ Fits(frames, stack) /\ eval_depth = Cardinality(Evaluators(frames))
  BY <1>1, FramesFit, TopFacts DEF CInv
<1>3. /\ Links(frames) /\ frames \in Seq(FrameRecord) /\ Len(frames) \in Nat /\ Len(frames) > 0
      /\ Last(frames) = frames[Len(frames)]
  BY <1>2, FitsFacts
<1>4. Under(frames, stack, frames, stack)
  BY <1>2, <1>3 DEF Under
<1>5. EndOf(frames, error, Len(frames)) = Top.sp
  BY <1>1, <1>3 DEF EndOf, Top
<1>6. /\ Now \in Acts /\ Len(Now) > 0 /\ Front(Now) \in Acts
      /\ ActivationOf(Last(frames), stack, EndOf(frames, error, Len(frames))) \in ActType
      /\ Now = Append(Front(Now), ActivationOf(Last(frames), stack, EndOf(frames, error, Len(frames))))
      /\ Last(Now) = ActivationOf(Last(frames), stack, EndOf(frames, error, Len(frames)))
      /\ Len(Now) = Cardinality(Evaluators(frames))
  BY <1>4, ActsReplaced DEF Now
<1>7. ActivationOf(Last(frames), stack, EndOf(frames, error, Len(frames))) = TopAct
  BY <1>5 DEF TopAct, Top
<1>8. Len(Now) \in Nat /\ Now # <<>>
  <2> HIDE DEF Now
  <2>1. Now \in Seq(ActType)
    BY <1>6 DEF Acts
  <2>2. Len(Now) \in Nat /\ Len(<<>>) = 0
    BY <2>1, LenProperties
  <2> QED
    BY <1>6, <2>2
<1> QED
  BY <1>1, <1>2, <1>3, <1>5, <1>6, <1>7, <1>8 DEF Top

(* The innermost frame has become g, on the stack s, when the step fails.  *)
LEMMA FailHere ==
  ASSUME CInv, IInv', Running, NEW g \in FrameRecord, FrameOK(g), Same(Top, g),
         g.num = Top.num, g.tries = Top.tries,
         NEW s \in Seq(Memory), g.sp <= Len(s), \A i \in 1 .. Base(Top) : s[i] = stack[i],
         NEW e \in Errors, e.value \notin Methods,
         NEW a \in ActType, a.fn = TopAct.fn, a.vars = TopAct.vars, a.this = TopAct.this,
         a.tries = TopAct.tries,
         RetWithTrace(Append(Front(frames), g), s, e)
  PROVE  CInv' /\ Abstract!Fail(Append(Front(Now), a), e.value, e.tb)
<1> DEFINE fs == Append(Front(frames), g)
           as == Append(Front(Now), a)
<1>1. /\ frames # <<>> /\ error = None /\ Evaluates(Top)
      /\ stack \in Seq(Memory) /\ Len(stack) = Top.sp /\ Top.sp \in Nat
      /\ Base(Top) \in Nat /\ Base(Top) <= Top.sp /\ Top.bp \in Nat /\ Top.bp <= Base(Top)
      /\ Clean(Top, stack, Top.sp) /\ CleanUnder(frames, stack)
  BY TopView
<1>2. /\ Front(Now) \in Acts /\ Fits(frames, stack) /\ Top = Last(frames) /\ Links(frames)
      /\ frames \in Seq(FrameRecord) /\ Len(frames) \in Nat /\ Len(frames) > 0
  BY NowView
<1>3. g.kind = Top.kind /\ g.bp = Top.bp /\ g.kind # "native" /\ Base(g) = Base(Top)
  BY <1>1, SameBase DEF Same, Evaluates
<1>4. Links(fs) /\ fs # <<>> /\ Last(fs) = g /\ Len(fs) = Len(frames)
  BY <1>1, <1>2, <1>3, LinksReplaced
<1>5. fs[Len(frames)] = g /\ \A d \in 1 .. Len(frames) - 1 : fs[d] = frames[d]
  BY <1>1, <1>2, Replaced
<1> HIDE DEF fs
<1>6. Fits(fs, s)
  BY <1>3, <1>4 DEF Fits, Chain
<1>7. Under(frames, stack, fs, s)
  <2>1. \A i \in 1 .. Top.bp : i \in 1 .. Base(Top)
    BY <1>1
  <2>2. \A i \in 1 .. Top.bp : s[i] = stack[i]
    BY <2>1
  <2> QED
    BY <1>2, <1>3, <1>4, <1>5, <1>6, <2>2 DEF Under
<1>8. CleanUnder(fs, s)
  BY <1>1, <1>4, <1>7, UnderClean
<1>9. Evaluates(g) /\ g.sp \in Nat /\ Base(g) <= g.sp /\ Base(g) <= Len(s)
  <2>1. Evaluates(g)
    BY <1>4, <1>6, FitsFacts
  <2>2. g.sp \in Nat /\ Base(g) <= g.sp /\ Len(s) \in Nat
    BY <2>1, EvaluatesFacts, LenProperties
  <2> QED
    BY <1>1, <1>3, <2>1, <2>2
<1>10. Clean(g, s, Base(g))
  <2> DEFINE b == Base(Top)
  <2>1. Clean(Top, stack, b)
    <3>1. b \in Nat /\ b <= Top.sp /\ Base(Top) <= Top.sp
      BY <1>1
    <3> HIDE DEF b
    <3>2. \A i \in 1 .. Top.sp : stack[i] = stack[i]
      OBVIOUS
    <3> QED
      BY <1>1, <3>1, <3>2, CleanAgrees
  <2>2. b \in Nat /\ Base(Top) <= b /\ b <= b /\ \A i \in 1 .. b : s[i] = stack[i]
    BY <1>1
  <2> HIDE DEF b
  <2>3. Clean(Top, s, b)
    BY <1>1, <2>1, <2>2, CleanAgrees
  <2>4. \A i : ~(i \in b .. b - 1)
    BY <1>1 DEF b
  <2>5. Base(g) = b
    BY <1>3 DEF b
  <2> QED
    BY <2>3, <2>4, <2>5, SameBase DEF Clean, Same
<1>11. Failing(fs, s, e)
  BY <1>4, <1>6, <1>8, <1>10 DEF Failing, fs
<1>12. Front(Now) = Front(ActsOf(fs, s, None))
  <2> DEFINE B == ActsOf(fs, s, None)
             b == ActivationOf(Last(fs), s, EndOf(fs, None, Len(fs)))
             h == Front(Now)
  <2>1. b \in ActType /\ B = Append(h, b)
    BY <1>4, <1>7, ActsReplaced DEF Now
  <2>2. h \in Seq(ActType)
    BY <1>2 DEF Acts
  <2> HIDE DEF B, b, h
  <2>3. Front(Append(h, b)) = h
    BY <2>1, <2>2, SeqAppended
  <2> QED
    BY <2>1, <2>3 DEF B, h
<1>13. as \in Acts /\ as # <<>> /\ Front(as) = Front(Now) /\ Last(as) = a
  <2> DEFINE h == Front(Now)
  <2>1. h \in Seq(ActType)
    BY <1>2 DEF Acts
  <2> HIDE DEF h
  <2>2. /\ Append(h, a) \in Seq(ActType) /\ Append(h, a) # <<>>
        /\ Front(Append(h, a)) = h /\ Last(Append(h, a)) = a
    BY <2>1, SeqAppended
  <2> QED
    BY <2>2 DEF Acts, h
<1>14. Fails(a, g, s)
  <2>1. Keeps(Top, stack, g, s)
    <3>1. Base(Top) <= Len(stack) /\ Base(Top) <= Len(s)
      BY <1>1, <1>3, <1>9
    <3> QED
      BY <1>1, <3>1 DEF Keeps
  <2> DEFINE b == Base(g)
             m == Top.sp
  <2> HIDE DEF b, m
  <2>2. /\ ActivationOf(g, s, b).fn = ActivationOf(Top, stack, m).fn
        /\ ActivationOf(g, s, b).vars = ActivationOf(Top, stack, m).vars
        /\ ActivationOf(g, s, b).this = ActivationOf(Top, stack, m).this
        /\ ActivationOf(g, s, b).tries = ActivationOf(Top, stack, m).tries
    BY <2>1, ViewChange
  <2> QED
    BY <2>2 DEF Fails, TopAct, b, m
<1> HIDE DEF as
<1>15. CleanAll(frames', stack', error') /\ Abstract!Fail(as, e.value, e.tb)
  BY <1>4, <1>11, <1>12, <1>13, <1>14, FailView
<1> QED
  BY <1>15 DEF CInv, as

LEMMA RaisedFacts == \A v : Raised(v).value = v /\ Raised(v).tb = <<>>
BY DEF Raised

LEMMA RefuseView ==
  ASSUME CInv, IInv', Running, Refuse
  PROVE  CInv' /\ Abstract!Fail(Now, Error, <<>>)
<1>1. /\ Top \in FrameRecord /\ FrameOK(Top) /\ stack \in Seq(Memory) /\ Len(stack) = Top.sp
      /\ Top.sp \in Nat
  BY TopView
<1>2. /\ TopAct \in ActType /\ Now = Append(Front(Now), TopAct)
      /\ frames \in Seq(FrameRecord) /\ frames # <<>> /\ Top = Last(frames)
  BY NowView
<1>3. frames = Append(Front(frames), Top)
  BY <1>2 DEF Front, Last
<1>4. RetWithTrace(Append(Front(frames), Top), stack, Raised(Error))
  BY <1>3 DEF Refuse
<1>5. Same(Top, Top) /\ Top.sp <= Len(stack) /\ \A i \in 1 .. Base(Top) : stack[i] = stack[i]
  BY <1>1 DEF Same
<1>6. Raised(Error) \in Errors /\ Raised(Error).value \notin Methods
  BY RaisedIs, MethodsApart
<1> DEFINE e == Raised(Error)
<1> HIDE DEF e
<1>7. CInv' /\ Abstract!Fail(Append(Front(Now), TopAct), e.value, e.tb)
  BY <1>1, <1>2, <1>4, <1>5, <1>6, FailHere DEF e
<1>8. e.value = Error /\ e.tb = <<>>
  BY RaisedFacts DEF e
<1> QED
  BY <1>2, <1>7, <1>8

LEMMA LoadMethodView == ASSUME CInv, LoadMethod PROVE StepOK
<1>1. CASE Operand \in DOMAIN MethodOf
  BY <1>1, LoadsMethodView
<1>2. CASE Operand \notin DOMAIN MethodOf
  <2>1. IInv /\ IInv'
    BY LoadMethodKeeps DEF CInv
  <2>2. Running /\ Holds(1) /\ Refuse /\ error = None
    BY <1>2, <2>1, ComputingFacts DEF LoadMethod
  <2>3. CInv' /\ Abstract!Fail(Now, Error, <<>>)
    BY <2>1, <2>2, RefuseView
  <2>4. TopAct.operands # <<>> /\ Last(TopAct.operands) = Operand
    BY <2>2, OperandView
  <2>5. Now # <<>> /\ Last(Now) = TopAct
    BY <2>2, NowView
  <2>6. Abstract!Next
    BY <1>2, <2>2, <2>3, <2>4, <2>5, AbstractOperators
       DEF Abstract!Next, Abstract!Run, Abstract!Operands, Abstract!Innermost, Now
  <2> QED
    BY <2>3, <2>6 DEF StepOK
<1> QED
  BY <1>1, <1>2

LEMMA ThrowView == ASSUME CInv, Throw PROVE StepOK
<1> DEFINE k == Top.sp - 1
           g == [Top EXCEPT !.sp = k]
           ops == Front(TopAct.operands)
           a == [TopAct EXCEPT !.operands = ops]
           v == Operand
           e == Raised(v)
<1>1. IInv /\ IInv'
  BY ThrowKeeps DEF CInv
<1>2. /\ InBody /\ HasData /\ Running /\ Top.body /\ Holds(1) /\ v \in Data \cup {Error}
      /\ RetWithTrace(Append(Front(frames), g), stack, e)
  BY DEF Throw, InBody, HasData
<1>3. /\ error = None /\ Top \in FrameRecord /\ FrameOK(Top) /\ Top.kind # "native"
      /\ stack \in Seq(Memory) /\ Len(stack) = Top.sp /\ Top.sp \in Nat
      /\ TopAct \in ActType /\ EvaluatesOK(Top)
  BY <1>2, TopView
<1>4. /\ TopAct.operands # <<>> /\ Last(TopAct.operands) = v /\ k \in Nat /\ Floor(Top) <= k
  BY <1>2, OperandView
<1>5. v \in Values /\ v \notin Methods
  BY <1>2, MethodsApart
<1>6. e \in Errors /\ e.value \notin Methods /\ e.value = v /\ e.tb = <<>>
  BY <1>5, RaisedIs, RaisedFacts
<1>7. k <= High(Top)
  BY <1>3, <1>4, FrameFacts
<1> HIDE DEF k, v
<1>8. /\ g \in FrameRecord /\ FrameOK(g) /\ Same(Top, g) /\ g.sp = k
      /\ g.tries = Top.tries /\ g.num = Top.num
  BY <1>2, <1>3, <1>4, <1>7, Resized
<1>9. g.sp <= Len(stack) /\ \A i \in 1 .. Base(Top) : stack[i] = stack[i]
  BY <1>3, <1>8 DEF k
<1> HIDE DEF g, e
<1>10. /\ a \in ActType /\ a.fn = TopAct.fn /\ a.vars = TopAct.vars /\ a.this = TopAct.this
       /\ a.tries = TopAct.tries
  <2>1. TopAct.operands \in Seq(Memory)
    BY <1>3 DEF ActType
  <2>2. ops \in Seq(Memory)
    BY <1>4, <2>1, FrontOf
  <2> HIDE DEF ops
  <2> QED
    BY <1>3, <2>2 DEF ActType
<1> HIDE DEF a
<1>11. CInv' /\ Abstract!Fail(Append(Front(Now), a), e.value, e.tb)
  BY <1>1, <1>2, <1>3, <1>6, <1>8, <1>9, <1>10, FailHere
<1>12. Now # <<>> /\ Last(Now) = TopAct
  BY <1>2, NowView
<1>13. Abstract!Throw
  BY <1>4, <1>6, <1>11, <1>12, AbstractOperators
     DEF Abstract!Throw, Abstract!Operands, Abstract!Innermost, Now, a
<1>14. Abstract!Next
  BY <1>3, <1>4, <1>12, <1>13, AbstractOperators
     DEF Abstract!Next, Abstract!Run, Abstract!Operands, Abstract!Innermost, Now
<1> QED
  BY <1>11, <1>14 DEF StepOK
-----------------------------------------------------------------------------
(* The activations bs are those in as with b on top of the caller, a now.  *)
Stacked(as, a, bs, b) ==
  /\ a \in ActType /\ b \in ActType /\ bs \in Acts /\ Len(bs) = Len(as) + 1
  /\ bs = Append(Append(Front(as), a), b)
  /\ Front(bs) = Append(Front(as), a) /\ Last(bs) = b
LEMMA AboveActs ==
  ASSUME NEW fs, NEW s, NEW gs, NEW t, Above(fs, s, gs, t), NEW e, NEW e2
  PROVE  Stacked(ActsOf(fs, s, e), ActivationOf(Last(fs), s, End(Last(fs), Callee(fs, gs))),
                 ActsOf(gs, t, e2), ActivationOf(Last(gs), t, EndOf(gs, e2, Len(gs))))
<1> DEFINE as == ActsOf(fs, s, e)
           bs == ActsOf(gs, t, e2)
           a == ActivationOf(Last(fs), s, End(Last(fs), Callee(fs, gs)))
           b == ActivationOf(Last(gs), t, EndOf(gs, e2, Len(gs)))
<1>1. /\ a \in ActType /\ b \in ActType /\ bs \in Acts /\ Len(bs) = Len(as) + 1
      /\ bs = Append(Append(Front(as), a), b)
      /\ Front(bs) = Append(Front(as), a) /\ Last(bs) = b
  BY ActsAbove
<1> HIDE DEF as, bs, a, b
<1>2. Stacked(as, a, bs, b)
  BY <1>1 DEF Stacked
<1> QED
  BY <1>2 DEF as, bs, a, b

(* Calls.  cb_eval begins in f, the last of the frames gs, or refuses to.  *)
LEMMA EvalView ==
  ASSUME CInv, IInv', Running, NEW fs, NEW f, NEW s, NEW gs, gs = Append(fs, f),
         Above(frames, stack, gs, s), Last(gs) = f, Eval(fs, f, s),
         f.tries = 0, f.sp = Base(f), Clean(f, s, f.sp)
  PROVE  LET a == ActivationOf(Top, stack, End(Top, Callee(frames, gs)))
             b == ActivationOf(f, s, f.sp)
             all == Append(Append(Front(Now), a), b)
         IN  /\ CInv' /\ a \in ActType /\ b \in ActType /\ all \in Acts
             /\ Len(all) = eval_depth + 1
             /\ IF eval_depth + 1 >= EvalLimit THEN Abstract!Fail(all, Error, <<>>)
                ELSE ActsOf(frames', stack', error') = all /\ error' = None
<1> DEFINE a == ActivationOf(Top, stack, End(Top, Callee(frames, gs)))
           b == ActivationOf(f, s, f.sp)
           B == ActsOf(gs, s, None)
           all == Append(Append(Front(Now), a), b)
<1>1. /\ Top = Last(frames) /\ frames # <<>> /\ Len(Now) = eval_depth /\ Len(Now) \in Nat
  BY NowView
<1>2. /\ error = None /\ Evaluates(Top) /\ stack \in Seq(Memory) /\ Len(stack) = Top.sp
      /\ Top.sp \in Nat /\ Base(Top) \in Nat /\ Base(Top) <= Top.sp
      /\ Clean(Top, stack, Top.sp) /\ CleanUnder(frames, stack)
  BY TopView
<1>3. Fits(gs, s)
  BY DEF Above
<1>4. Len(gs) \in Nat /\ f = gs[Len(gs)]
  BY <1>3, FitsFacts
<1>5. EndOf(gs, None, Len(gs)) = f.sp
  BY <1>4 DEF EndOf
<1>6. /\ a \in ActType /\ b \in ActType /\ B = all /\ B \in Acts /\ Len(B) = Len(Now) + 1
      /\ Front(B) = Append(Front(Now), a) /\ Last(B) = b
  <2> DEFINE c == ActivationOf(Last(gs), s, EndOf(gs, None, Len(gs)))
             d == ActivationOf(Last(frames), stack, End(Last(frames), Callee(frames, gs)))
  <2>1. /\ d \in ActType /\ c \in ActType /\ B = Append(Append(Front(Now), d), c)
        /\ B \in Acts /\ Len(B) = Len(Now) + 1
        /\ Front(B) = Append(Front(Now), d) /\ Last(B) = c
    <3>1. Stacked(ActsOf(frames, stack, error), d, B, c)
      BY AboveActs, Zenon
    <3> HIDE DEF d, c, B
    <3> QED
      BY <3>1 DEF Now, Stacked
  <2>2. d = a /\ c = b
    BY <1>1, <1>5
  <2> QED
    BY <2>1, <2>2
<1>7. CleanUnder(gs, s)
  <2> DEFINE end == End(Top, Callee(frames, gs))
  <2>1. /\ PairOK(Top, Callee(frames, gs)) /\ Callee(frames, gs) \in FrameRecord
    BY <1>1, AboveUnder
  <2>2. /\ end \in Nat /\ Base(Top) <= end /\ end <= Callee(frames, gs).bp
        /\ Callee(frames, gs).bp <= Top.sp /\ Callee(frames, gs).bp \in Nat
    BY <1>2, <2>1, EndFacts
  <2>3. end <= Top.sp
    BY <1>2, <2>2
  <2> HIDE DEF end
  <2>4. \A i \in 1 .. Top.sp : stack[i] = stack[i]
    OBVIOUS
  <2>5. Clean(Top, stack, end)
    BY <1>2, <2>2, <2>3, <2>4, CleanAgrees
  <2> QED
    BY <1>1, <1>2, <2>5, AboveClean DEF end
<1> HIDE DEF a, b, B, all
<1>8. CASE eval_depth + 1 < EvalLimit
  <2>1. frames' = gs /\ stack' = s /\ error' = None
    BY <1>2, <1>8 DEF Eval
  <2>2. ActsOf(frames', stack', error') = all
    BY <1>6, <2>1 DEF B
  <2>3. CleanAll(frames', stack', error')
    BY <1>3, <1>5, <1>7, <2>1, CleanSplits
  <2>4. ~(eval_depth + 1 >= EvalLimit)
    <3>1. eval_depth \in Nat
      BY <1>1
    <3> QED
      BY <1>8, <3>1, BoundsAssumption
  <2> QED
    BY <1>1, <1>6, <2>1, <2>2, <2>3, <2>4 DEF CInv, a, b, all
<1>9. CASE ~(eval_depth + 1 < EvalLimit)
  <2> DEFINE e == Raised(Error)
  <2>1. RetWithTrace(gs, s, e)
    BY <1>9 DEF Eval
  <2>2. e \in Errors /\ e.value \notin Methods /\ e.value = Error /\ e.tb = <<>>
    BY RaisedIs, RaisedFacts, MethodsApart
  <2> HIDE DEF e
  <2>3. Failing(gs, s, e)
    BY <1>3, <1>7, <2>1, <2>2 DEF Failing
  <2>4. all # <<>>
    <3>1. Len(all) # 0
      BY <1>1, <1>6
    <3> QED
      BY <3>1
  <2>5. Fails(b, f, s)
    BY DEF Fails, b
  <2>6. CleanAll(frames', stack', error') /\ Abstract!Fail(all, e.value, e.tb)
    BY <1>6, <2>3, <2>4, <2>5, FailView DEF B
  <2>7. eval_depth + 1 >= EvalLimit
    <3>1. eval_depth \in Nat
      BY <1>1
    <3> QED
      BY <1>9, <3>1, BoundsAssumption
  <2> QED
    BY <1>1, <1>6, <2>2, <2>6, <2>7 DEF CInv, a, b, all
<1> QED
  BY <1>8, <1>9

LEMMA SlotsParts ==
  ASSUME NEW s \in Seq(Memory), NEW i \in Nat, NEW j \in Nat, i <= j, j <= Len(s),
         NEW n \in Nat, n <= j - i
  PROVE  /\ Abstract!Without(Slots(s, i, j), n) = Slots(s, i, j - n)
         /\ Abstract!Lasts(Slots(s, i, j), n) = Slots(s, j - n, j)
         /\ j - n \in Nat /\ i <= j - n
<1> DEFINE o == Slots(s, i, j)
           m == j - i
           k == j - n
           u == m - n
<1>1. /\ m \in Nat /\ k \in Nat /\ i <= k /\ k <= j /\ k <= Len(s) /\ u \in Nat /\ u <= m
      /\ k - i = u /\ j - k = n /\ k = i + u /\ m - n + 1 = u + 1 /\ u + n = m
      /\ Len(s) \in Nat
  BY LenProperties
<1>2. o \in Seq(Memory) /\ Len(o) = m /\ \A x \in 1 .. m : o[x] = s[i + x]
  BY SlotsFacts
<1>3. /\ Slots(s, i, k) \in Seq(Memory) /\ Len(Slots(s, i, k)) = u
      /\ \A x \in 1 .. u : Slots(s, i, k)[x] = s[i + x]
  <2> HIDE DEF m, k, u
  <2>0. \A h \in Nat : i <= h /\ h <= Len(s) =>
          /\ Slots(s, i, h) \in Seq(Memory) /\ Len(Slots(s, i, h)) = h - i
          /\ \A x \in 1 .. h - i : Slots(s, i, h)[x] = s[i + x]
    BY SlotsFacts
  <2>1. /\ Slots(s, i, k) \in Seq(Memory) /\ Len(Slots(s, i, k)) = k - i
        /\ \A x \in 1 .. k - i : Slots(s, i, k)[x] = s[i + x]
    BY <1>1, <2>0
  <2> QED
    BY <1>1, <2>1
<1>4. /\ Slots(s, k, j) \in Seq(Memory) /\ Len(Slots(s, k, j)) = n
      /\ \A x \in 1 .. n : Slots(s, k, j)[x] = s[k + x]
  <2> HIDE DEF m, k, u
  <2>0. \A h \in Nat : h <= j =>
          /\ Slots(s, h, j) \in Seq(Memory) /\ Len(Slots(s, h, j)) = j - h
          /\ \A x \in 1 .. j - h : Slots(s, h, j)[x] = s[h + x]
    BY SlotsFacts
  <2>1. /\ Slots(s, k, j) \in Seq(Memory) /\ Len(Slots(s, k, j)) = j - k
        /\ \A x \in 1 .. j - k : Slots(s, k, j)[x] = s[k + x]
    BY <1>1, <2>0
  <2> QED
    BY <1>1, <2>1
<1>5. Abstract!Without(o, n) = SubSeq(o, 1, u) /\ Abstract!Lasts(o, n) = SubSeq(o, u + 1, m)
  BY <1>1, <1>2 DEF Abstract!Without, Abstract!Lasts
<1> DEFINE p == Slots(s, i, k)
           q == Slots(s, k, j)
<1> HIDE DEF o, m, k, u, p, q
<1>6. \A x \in 1 .. m : o[x] \in Memory
  BY <1>2, LenProperties
<1>7. SubSeq(o, 1, u) = p
  <2>1. \A x \in 1 .. u : x \in 1 .. m /\ 1 + x - 1 = x
    BY <1>1
  <2>2. \A x \in 1 .. u : o[x] \in Memory
    BY <1>6, <2>1
  <2>3. /\ SubSeq(o, 1, u) \in Seq(Memory)
        /\ Len(SubSeq(o, 1, u)) = IF 1 <= u THEN u - 1 + 1 ELSE 0
        /\ \A x \in 1 .. u - 1 + 1 : SubSeq(o, 1, u)[x] = o[1 + x - 1]
    BY <1>1, <2>2, SubSeqProperties
  <2>4. Len(SubSeq(o, 1, u)) = u /\ u - 1 + 1 = u
    BY <1>1, <2>3
  <2>5. \A x \in 1 .. u : SubSeq(o, 1, u)[x] = s[i + x]
    BY <1>2, <2>1, <2>3, <2>4
  <2> DEFINE r == SubSeq(o, 1, u)
  <2>6. r \in Seq(Memory) /\ Len(r) = u /\ \A x \in 1 .. u : r[x] = s[i + x]
    BY <2>3, <2>4, <2>5
  <2> HIDE DEF r
  <2>7. p \in Seq(Memory) /\ Len(p) = u /\ \A x \in 1 .. u : p[x] = s[i + x]
    BY <1>3 DEF p
  <2>8. r = p
    BY <2>6, <2>7, SameSeq
  <2> QED
    BY <2>8 DEF r
<1>8. SubSeq(o, u + 1, m) = q
  <2> DEFINE v == u + 1
             r == SubSeq(o, v, m)
  <2>1. /\ v \in Int /\ m \in Int /\ m - v + 1 = n /\ (v <= m \/ n = 0)
        /\ \A x \in v .. m : x \in 1 .. m
        /\ \A x \in 1 .. n : v + x - 1 \in 1 .. m /\ i + (v + x - 1) = k + x
    BY <1>1
  <2>2. \A x \in v .. m : o[x] \in Memory
    BY <1>6, <2>1
  <2> HIDE DEF v
  <2>3. /\ r \in Seq(Memory) /\ Len(r) = IF v <= m THEN m - v + 1 ELSE 0
        /\ \A x \in 1 .. m - v + 1 : r[x] = o[v + x - 1]
    BY <2>1, <2>2, SubSeqProperties
  <2> HIDE DEF r
  <2>4. Len(r) = n
    BY <1>1, <2>1, <2>3
  <2>5. \A x \in 1 .. n : r[x] = s[k + x]
    BY <1>2, <2>1, <2>3
  <2>6. q \in Seq(Memory) /\ Len(q) = n /\ \A x \in 1 .. n : q[x] = s[k + x]
    BY <1>4 DEF q
  <2>7. r = q
    BY <2>3, <2>4, <2>5, <2>6, SameSeq
  <2> QED
    BY <2>7 DEF r, v
<1> QED
  BY <1>1, <1>5, <1>7, <1>8 DEF o, p, q, k

(* A call of the method loaded last takes the receiver as well.            *)
Opens(n) == Top.open # <<>> /\ Last(Top.open) = Dest(n)
Gone(n) == IF Opens(n) THEN n + 2 ELSE n + 1
This(n) == IF Opens(n) THEN Slot(Dest(n) - 1) ELSE None

LEMMA DestView ==
  ASSUME CInv, NEW n \in Nat, Calling(n)
  PROVE  /\ Running /\ Dest(n) \in Nat /\ Top.sp = Dest(n) + 1 + n /\ CallsAt(Top, Dest(n))
         /\ Base(Top) <= Dest(n) /\ Gone(n) \in Nat /\ n + 1 <= Gone(n)
         /\ Gone(n) <= Top.sp - Base(Top)
         /\ Opens(n) => Dest(n) > 0 /\ Dest(n) - 1 \in Nat /\ Base(Top) <= Dest(n) - 1
         /\ Dest(n) >= Floor(Top) => ~Opens(n)
         /\ ~Opens(n) => Dest(n) \notin Range(Top.open)
         /\ \A i \in Nat : i > Dest(n) => i \notin Range(Top.open)
         /\ Opens(n) => Dest(n) \in Range(Top.open) /\ Dest(n) - 1 \notin Range(Top.open)
<1> DEFINE d == Dest(n)
<1>1. IInv
  BY DEF CInv
<1>2. /\ Running /\ d \in Nat /\ Top.sp = d + 1 + n /\ CallsAt(Top, d)
      /\ Top \in FrameRecord /\ FrameOK(Top) /\ Top.kind # "native" /\ Top.sp \in Nat
  BY <1>1, CallFacts
<1>3. Base(Top) <= d /\ Base(Top) \in Nat
  BY <1>2, CallerComputes
<1>4. /\ Evaluates(Top) /\ EvaluatesOK(Top)
  BY <1>2, TopView
<1>5. /\ Top.open # <<>> => Last(Top.open) \in Nat /\ Floor(Top) = Last(Top.open) + 1
      /\ Floor(Top) \in Nat
  BY <1>2, <1>4, FrameFacts
<1>6. /\ Top.open \in Seq(Nat)
      /\ \A i \in DOMAIN Top.open : Top.open[i] \in Nat /\ Top.open[i] > Base(Top)
      /\ \A i, j \in DOMAIN Top.open : i < j => Top.open[i] + 2 <= Top.open[j]
  BY <1>4, EvaluatesFacts
<1>7. \A i \in Range(Top.open) : i \in Nat /\ i > Base(Top) /\ i <= Last(Top.open)
  BY <1>4, OpenBelow
<1>8. \A i \in Range(Top.open) : Top.open # <<>>
  <2> SUFFICES ASSUME NEW j \in DOMAIN Top.open PROVE Top.open # <<>>
    BY DEF Range
  <2> QED
    BY <1>6, EmptySeq
<1>9. d >= Floor(Top) \/ Opens(n)
  BY <1>2 DEF CallsAt, Opens
<1>10. ASSUME Opens(n)
       PROVE  /\ d \in Range(Top.open) /\ d > Base(Top) /\ d - 1 \notin Range(Top.open)
              /\ d = Last(Top.open)
  <2> DEFINE m == Len(Top.open)
  <2>1. m \in DOMAIN Top.open /\ Top.open[m] = d /\ DOMAIN Top.open = 1 .. m /\ m \in Nat
    BY <1>6, <1>10, EmptySeq DEF Opens, Last
  <2> HIDE DEF m, d
  <2>2. d \in Range(Top.open)
    BY <2>1 DEF Range
  <2>3. ASSUME NEW j \in DOMAIN Top.open PROVE Top.open[j] # d - 1
    <3>1. j = m \/ j < m
      BY <2>1, <2>3
    <3>2. j < m => Top.open[j] + 2 <= d
      BY <1>6, <2>1, <2>3
    <3>3. Top.open[j] \in Nat
      BY <1>6, <2>3
    <3> QED
      BY <1>2, <2>1, <3>1, <3>2, <3>3
  <2>4. d - 1 \notin Range(Top.open)
    BY <2>3 DEF Range
  <2>5. d = Last(Top.open)
    BY <1>10 DEF Opens, d
  <2> QED
    BY <1>7, <2>2, <2>4, <2>5
<1>11. \A i \in Nat : i > d => i \notin Range(Top.open)
  <2> SUFFICES ASSUME NEW i \in Nat, i > d, i \in Range(Top.open) PROVE FALSE
    OBVIOUS
  <2>1. Top.open # <<>> /\ i <= Last(Top.open) /\ Last(Top.open) \in Nat
        /\ Floor(Top) = Last(Top.open) + 1
    BY <1>5, <1>7, <1>8
  <2>2. d >= Floor(Top) \/ d = Last(Top.open)
    BY <1>9, <1>10
  <2> HIDE DEF d
  <2> QED
    BY <1>2, <2>1, <2>2
<1>12. ASSUME ~Opens(n) PROVE d \notin Range(Top.open)
  <2> SUFFICES ASSUME d \in Range(Top.open) PROVE FALSE
    OBVIOUS
  <2>1. Top.open # <<>> /\ d <= Last(Top.open) /\ Last(Top.open) \in Nat
        /\ Floor(Top) = Last(Top.open) + 1 /\ d >= Floor(Top)
    BY <1>5, <1>7, <1>8, <1>9, <1>12
  <2> HIDE DEF d
  <2> QED
    BY <1>2, <2>1
<1>13. d >= Floor(Top) => ~Opens(n)
  <2> SUFFICES ASSUME d >= Floor(Top), Opens(n) PROVE FALSE
    OBVIOUS
  <2>1. Top.open # <<>> /\ d = Last(Top.open) /\ Floor(Top) = d + 1
    BY <1>5, <1>10 DEF Opens
  <2> HIDE DEF d
  <2> QED
    BY <1>2, <2>1
<1> HIDE DEF d
<1>14. Gone(n) \in Nat /\ n + 1 <= Gone(n) /\ Gone(n) <= Top.sp - Base(Top)
  <2>1. CASE Opens(n)
    <3>1. Gone(n) = n + 2 /\ d > Base(Top)
      BY <1>10, <2>1 DEF Gone
    <3> QED
      BY <1>2, <1>3, <3>1
  <2>2. CASE ~Opens(n)
    <3>1. Gone(n) = n + 1
      BY <2>2 DEF Gone
    <3> QED
      BY <1>2, <1>3, <3>1
  <2> QED
    BY <2>1, <2>2
<1>15. Opens(n) => d > 0 /\ d - 1 \in Nat /\ Base(Top) <= d - 1
  <2> SUFFICES ASSUME Opens(n) PROVE d > 0 /\ d - 1 \in Nat /\ Base(Top) <= d - 1
    OBVIOUS
  <2>1. d > Base(Top)
    BY <1>10
  <2> QED
    BY <1>2, <1>3, <2>1
<1> QED
  BY <1>2, <1>3, <1>10, <1>11, <1>12, <1>13, <1>14, <1>15 DEF d

(* What the call finds among the operands, and what it leaves of them.     *)
LEMMA CallingView ==
  ASSUME CInv, NEW n \in Nat, Calling(n)
  PROVE  LET ops == TopAct.operands
             m == Len(ops)
         IN  /\ m \in Nat /\ Gone(n) <= m /\ n < m
             /\ ops[m - n] = Slot(Dest(n)) /\ Slot(Dest(n)) \in Memory
             /\ Abstract!Lasts(ops, n) = Args(n)
             /\ Abstract!Without(ops, Gone(n)) = Slots(stack, Base(Top), Top.sp - Gone(n))
             /\ ~Opens(n) => Slot(Dest(n)) \notin Methods
             /\ Opens(n) => /\ ops[m - n - 1] = This(n) /\ This(n) \in DOMAIN MethodOf
                            /\ Slot(Dest(n)) = MethodOf[This(n)] /\ This(n) \notin Methods
                            /\ This(n) = stack[Dest(n)] /\ n + 1 < m
<1> DEFINE ops == TopAct.operands
           m == Len(ops)
           d == Dest(n)
           b == Base(Top)
<1>1. /\ Running /\ d \in Nat /\ Top.sp = d + 1 + n /\ b <= d
      /\ Gone(n) \in Nat /\ n + 1 <= Gone(n) /\ Gone(n) <= Top.sp - b
      /\ Opens(n) => d > 0 /\ d - 1 \in Nat /\ b <= d - 1
      /\ ~Opens(n) => d \notin Range(Top.open)
      /\ Opens(n) => d \in Range(Top.open) /\ d - 1 \notin Range(Top.open)
  BY DestView
<1>2. /\ stack \in Seq(Memory) /\ Len(stack) = Top.sp /\ Top.sp \in Nat /\ b \in Nat
      /\ b <= Top.sp /\ Clean(Top, stack, Top.sp) /\ ops = Slots(stack, b, Top.sp)
  BY <1>1, TopView
<1>3. /\ m = Top.sp - b /\ \A k \in 1 .. m : ops[k] = stack[b + k]
  <2> DEFINE j == Top.sp
  <2>1. stack \in Seq(Memory) /\ b \in Nat /\ j \in Nat /\ b <= j /\ j <= Len(stack)
    BY <1>2
  <2>2. ops = Slots(stack, b, j)
    BY <1>2
  <2> HIDE DEF j, b, ops
  <2>3. /\ Len(Slots(stack, b, j)) = j - b
        /\ \A k \in 1 .. j - b : Slots(stack, b, j)[k] = stack[b + k]
    BY <2>1, SlotsFacts
  <2> QED
    BY <2>2, <2>3 DEF j
<1>4. \A i \in b .. Top.sp - 1 :
        /\ i \notin Range(Top.open) => stack[i + 1] \notin Methods
        /\ i \in Range(Top.open) => stack[i] \in DOMAIN MethodOf /\ stack[i + 1] = MethodOf[stack[i]]
  BY <1>2 DEF Clean
<1>5. /\ Abstract!Lasts(ops, n) = Slots(stack, Top.sp - n, Top.sp)
      /\ Abstract!Without(ops, Gone(n)) = Slots(stack, b, Top.sp - Gone(n))
  <2> DEFINE j == Top.sp
             g == Gone(n)
  <2>1. /\ b \in Nat /\ j \in Nat /\ b <= j /\ j <= Len(stack) /\ g \in Nat /\ g <= j - b
        /\ n <= j - b
    BY <1>1, <1>2
  <2> HIDE DEF j, g, b
  <2>2. Abstract!Lasts(Slots(stack, b, j), n) = Slots(stack, j - n, j)
    BY <1>2, <2>1, SlotsParts
  <2>3. Abstract!Without(Slots(stack, b, j), g) = Slots(stack, b, j - g)
    BY <1>2, <2>1, SlotsParts
  <2> QED
    BY <1>2, <2>2, <2>3 DEF j, g
<1>6. Slot(d) = stack[d + 1] /\ (Opens(n) => This(n) = stack[d])
  <2>1. d - 1 + 1 = d
    BY <1>1
  <2> HIDE DEF d
  <2>2. Opens(n) => This(n) = stack[d - 1 + 1]
    BY DEF This, Slot, d
  <2> QED
    BY <2>1, <2>2 DEF Slot
<1> HIDE DEF d, b, ops, m
<1>7. Slot(d) \in Memory
  <2>1. d + 1 \in 1 .. Len(stack)
    BY <1>1, <1>2
  <2> QED
    BY <1>2, <1>6, <2>1
<1>8. /\ m \in Nat /\ Gone(n) <= m /\ n < m /\ (Opens(n) => n + 1 < m)
      /\ m - n \in 1 .. m /\ b + (m - n) = d + 1 /\ d \in b .. Top.sp - 1
      /\ Opens(n) => m - n - 1 \in 1 .. m /\ b + (m - n - 1) = d /\ d - 1 \in b .. Top.sp - 1
                     /\ d - 1 + 1 = d
  BY <1>1, <1>2, <1>3
<1>9. ops[m - n] = Slot(d) /\ (Opens(n) => ops[m - n - 1] = This(n))
  <2>1. ops[m - n] = stack[b + (m - n)]
    BY <1>3, <1>8
  <2>2. Opens(n) => ops[m - n - 1] = stack[b + (m - n - 1)]
    BY <1>3, <1>8
  <2> QED
    BY <1>6, <1>8, <2>1, <2>2
<1>10. ~Opens(n) => Slot(d) \notin Methods
  BY <1>1, <1>4, <1>6, <1>8
<1>11. Opens(n) => /\ This(n) \in DOMAIN MethodOf /\ Slot(d) = MethodOf[This(n)]
                   /\ This(n) \notin Methods
  <2> SUFFICES ASSUME Opens(n)
               PROVE  /\ This(n) \in DOMAIN MethodOf /\ Slot(d) = MethodOf[This(n)]
                      /\ This(n) \notin Methods
    OBVIOUS
  <2>1. stack[d] \in DOMAIN MethodOf /\ stack[d + 1] = MethodOf[stack[d]]
    BY <1>1, <1>4, <1>8
  <2>2. stack[d - 1 + 1] \notin Methods
    BY <1>1, <1>4, <1>8
  <2> QED
    BY <1>6, <1>8, <2>1, <2>2
<1> QED
  BY <1>5, <1>6, <1>7, <1>8, <1>9, <1>10, <1>11 DEF d, b, ops, m, Args

(* The arguments.                                                          *)
LEMMA ArgsView ==
  ASSUME CInv, NEW n \in Nat, Calling(n)
  PROVE  /\ Args(n) \in Seq(Memory) /\ Len(Args(n)) = n
         /\ \A k \in 1 .. n : Args(n)[k] = stack[Dest(n) + 1 + k] /\ Args(n)[k] \notin Methods
<1> DEFINE d == Dest(n)
           j == d + 1
<1>1. /\ Running /\ d \in Nat /\ Top.sp = d + 1 + n /\ Base(Top) <= d
      /\ \A i \in Nat : i > d => i \notin Range(Top.open)
  BY DestView
<1>2. /\ stack \in Seq(Memory) /\ Len(stack) = Top.sp /\ Top.sp \in Nat /\ Base(Top) \in Nat
      /\ Clean(Top, stack, Top.sp)
  BY <1>1, TopView
<1>3. /\ j \in Nat /\ j <= Top.sp /\ Top.sp <= Len(stack) /\ Top.sp - j = n /\ Top.sp - n = j
  BY <1>1, <1>2
<1> HIDE DEF j
<1>4. /\ Slots(stack, j, Top.sp) \in Seq(Memory) /\ Len(Slots(stack, j, Top.sp)) = Top.sp - j
      /\ \A k \in 1 .. Top.sp - j : Slots(stack, j, Top.sp)[k] = stack[j + k]
  BY <1>2, <1>3, SlotsFacts
<1>5. ASSUME NEW k \in 1 .. n PROVE stack[j + k] \notin Methods
  <2> DEFINE i == j + k - 1
  <2>1. i \in Nat /\ i > d /\ i \in Base(Top) .. Top.sp - 1 /\ i + 1 = j + k
    <3> DEFINE x == Base(Top)
               y == Top.sp
    <3>1. /\ k \in Nat /\ k > 0 /\ k <= n /\ d \in Nat /\ x \in Nat /\ x <= d /\ y = d + 1 + n
          /\ j = d + 1
      BY <1>1, <1>2 DEF j
    <3> HIDE DEF x, y, d
    <3> QED
      BY <3>1 DEF x, y
  <2> HIDE DEF i
  <2>2. i \notin Range(Top.open)
    BY <1>1, <2>1
  <2>3. stack[i + 1] \notin Methods
    BY <1>2, <2>1, <2>2 DEF Clean
  <2> QED
    BY <2>1, <2>3
<1> QED
  BY <1>3, <1>4, <1>5 DEF Args, j

(* The caller, while the call runs.                                        *)
LEMMA CallerView ==
  ASSUME CInv, NEW n \in Nat, Calling(n), NEW f, f.kind # "script", f.bp = Dest(n)
  PROVE  /\ End(Top, f) = Top.sp - Gone(n)
         /\ ActivationOf(Top, stack, End(Top, f))
              = [TopAct EXCEPT !.operands = Abstract!Without(TopAct.operands, Gone(n))]
<1>1. Top.sp = Dest(n) + 1 + n /\ Dest(n) \in Nat
  BY DestView
<1>2. End(Top, f) = IF Opens(n) THEN Dest(n) - 1 ELSE Dest(n)
  BY DEF End, Opens
<1>3. End(Top, f) = Top.sp - Gone(n)
  <2> DEFINE d == Dest(n)
  <2>1. Top.sp = d + 1 + n /\ d \in Nat /\ End(Top, f) = IF Opens(n) THEN d - 1 ELSE d
    BY <1>1, <1>2
  <2> HIDE DEF d
  <2> QED
    BY <2>1 DEF Gone
<1>4. Abstract!Without(TopAct.operands, Gone(n)) = Slots(stack, Base(Top), Top.sp - Gone(n))
  BY CallingView
<1> DEFINE ops == Abstract!Without(TopAct.operands, Gone(n))
           e == End(Top, f)
<1>5. ops = Slots(stack, Base(Top), e)
  BY <1>3, <1>4
<1> HIDE DEF ops, e
<1>6. ActivationOf(Top, stack, e) = [TopAct EXCEPT !.operands = ops]
  <2> DEFINE x == ActivationOf(Top, stack, e)
             y == [TopAct EXCEPT !.operands = ops]
  <2>1. /\ Running /\ Gone(n) \in Nat /\ Gone(n) <= Top.sp - Base(Top)
    BY DestView
  <2>2. /\ Evaluates(Top) /\ TopAct \in ActType /\ stack \in Seq(Memory) /\ Top.sp \in Nat
        /\ Len(stack) = Top.sp /\ Base(Top) \in Nat
    BY <2>1, TopView
  <2>3. e \in Nat /\ Base(Top) <= e /\ e <= Len(stack)
    BY <1>3, <2>1, <2>2 DEF e
  <2>4. x \in ActType /\ x.operands = ops
    BY <1>5, <2>2, <2>3, ActivationFacts
  <2>5. ops \in Seq(Memory)
    BY <2>4 DEF ActType
  <2>6. x.fn = TopAct.fn /\ x.vars = TopAct.vars /\ x.this = TopAct.this /\ x.tries = TopAct.tries
    BY DEF ActivationOf, TopAct
  <2> HIDE DEF x
  <2>7. /\ y \in ActType /\ y.fn = x.fn /\ y.vars = x.vars /\ y.this = x.this /\ y.tries = x.tries
        /\ y.operands = x.operands
    BY <2>2, <2>4, <2>5, <2>6 DEF ActType
  <2> HIDE DEF y
  <2>8. x = y
    BY <2>4, <2>7, SameActivation
  <2> QED
    BY <2>8 DEF x, y
<1> QED
  BY <1>3, <1>6 DEF ops, e

(* The frames of a call stand above those that were there.                 *)
Atop(fs, s, f, t) ==
  /\ Fits(fs, s) /\ f \in FrameRecord /\ FrameOK(f) /\ f.kind # "native"
  /\ PairOK(Last(fs), f) /\ t \in Seq(Memory) /\ f.sp <= Len(t)
  /\ \A i \in 1 .. f.bp : t[i] = s[i]
AtopNative(fs, s, hs, h, f, t) ==
  /\ Fits(fs, s) /\ Links(hs) /\ hs # <<>> /\ h \in FrameRecord /\ h.kind = "native"
  /\ hs = Append(fs, h)
  /\ f \in FrameRecord /\ FrameOK(f) /\ f.kind # "native" /\ PairOK(h, f)
  /\ t \in Seq(Memory) /\ f.sp <= Len(t)
  /\ \A i \in 1 .. h.bp : t[i] = s[i]
CallsIn(fs, s, gs, t, f, callee) ==
  Above(fs, s, gs, t) /\ Last(gs) = f /\ Callee(fs, gs) = callee

LEMMA AboveOne ==
  ASSUME NEW fs, NEW s, NEW f, NEW t, Atop(fs, s, f, t), NEW gs, gs = Append(fs, f)
  PROVE  CallsIn(fs, s, gs, t, f, f)
<1>0. /\ Fits(fs, s) /\ f \in FrameRecord /\ FrameOK(f) /\ f.kind # "native"
      /\ PairOK(Last(fs), f) /\ t \in Seq(Memory) /\ f.sp <= Len(t)
      /\ \A i \in 1 .. f.bp : t[i] = s[i]
  BY DEF Atop
<1>1. Links(fs) /\ fs # <<>> /\ fs \in Seq(FrameRecord) /\ Len(fs) \in Nat
  BY <1>0, FitsFacts DEF Fits
<1>2. Links(gs) /\ gs # <<>> /\ Last(gs) = f
  BY <1>0, <1>1, LinksPushed
<1>3. /\ Len(gs) = Len(fs) + 1 /\ gs[Len(fs) + 1] = f /\ DOMAIN fs = 1 .. Len(fs)
      /\ \A d \in DOMAIN fs : gs[d] = fs[d]
  BY <1>0, <1>1, Pushed
<1>4. Fits(gs, t)
  BY <1>0, <1>2 DEF Fits, Chain
<1>5. Len(fs) < Len(gs) /\ \A d \in Len(fs) + 1 .. Len(gs) - 1 : gs[d].kind = "native"
  BY <1>1, <1>3
<1> QED
  BY <1>0, <1>2, <1>3, <1>4, <1>5 DEF Above, Callee, CallsIn

LEMMA AboveTwo ==
  ASSUME NEW fs, NEW s, NEW hs, NEW h, NEW f, NEW t, AtopNative(fs, s, hs, h, f, t),
         NEW gs, gs = Append(hs, f)
  PROVE  CallsIn(fs, s, gs, t, f, h)
<1>0. /\ Fits(fs, s) /\ Links(hs) /\ hs # <<>> /\ h \in FrameRecord /\ h.kind = "native"
      /\ hs = Append(fs, h)
      /\ f \in FrameRecord /\ FrameOK(f) /\ f.kind # "native" /\ PairOK(h, f)
      /\ t \in Seq(Memory) /\ f.sp <= Len(t)
      /\ \A i \in 1 .. h.bp : t[i] = s[i]
  BY DEF AtopNative
<1>1. Links(fs) /\ fs # <<>> /\ fs \in Seq(FrameRecord) /\ Len(fs) \in Nat
  BY <1>0, FitsFacts DEF Fits
<1>3. /\ Len(hs) = Len(fs) + 1 /\ hs[Len(fs) + 1] = h /\ DOMAIN fs = 1 .. Len(fs)
      /\ \A d \in DOMAIN fs : hs[d] = fs[d]
      /\ hs \in Seq(FrameRecord) /\ DOMAIN hs = 1 .. Len(hs) /\ Last(hs) = h
  BY <1>0, <1>1, Pushed, LinkedFrames DEF Last
<1>2. Links(gs) /\ gs # <<>> /\ Last(gs) = f
  BY <1>0, <1>3, LinksPushed
<1>4. /\ Len(gs) = Len(hs) + 1 /\ \A d \in DOMAIN hs : gs[d] = hs[d]
  BY <1>0, <1>3, Pushed
<1>5. Fits(gs, t)
  BY <1>0, <1>2 DEF Fits, Chain
<1>6. /\ Len(fs) < Len(gs) /\ Len(fs) + 1 \in DOMAIN hs /\ \A d \in DOMAIN fs : d \in DOMAIN hs
      /\ \A d \in Len(fs) + 1 .. Len(gs) - 1 : d = Len(fs) + 1
  BY <1>1, <1>3, <1>4
<1>7. /\ gs[Len(fs) + 1] = h /\ \A d \in 1 .. Len(fs) : gs[d] = fs[d]
  BY <1>3, <1>4, <1>6
<1> QED
  BY <1>0, <1>2, <1>5, <1>6, <1>7 DEF Above, Callee, CallsIn

(* The activation of a function that begins.                               *)
Begins(f, fn, bp, n, s) ==
  /\ fn \in DOMAIN Code /\ bp \in Nat /\ n \in Nat /\ n >= Code[fn].required
  /\ f \in FrameRecord /\ \E room : f = Frame("user", fn, bp, n, room)
  /\ s \in Seq(Memory) /\ Len(s) = bp + 1 + n /\ s[bp + 1] = fn
  /\ fn \in Methods => s[bp] \notin Methods
  /\ \A i \in bp + 1 .. bp + n : s[i + 1] \notin Methods
Begun(f, fn, bp, n, s) ==
  LET args == Slots(s, bp + 1, bp + 1 + n)
      params == Code[fn].params
  IN  /\ f.sp = Base(f) /\ f.tries = 0 /\ Clean(f, s, f.sp)
      /\ f.sp = bp + 1 + n /\ f.bp = bp
      /\ ActivationOf(f, s, f.sp)
           = Abstract!Activation(fn, IF n > params THEN SubSeq(args, 1, params) ELSE args,
                                 IF fn \in Methods THEN s[bp] ELSE None)

LEMMA NewUserView ==
  ASSUME NEW f, NEW fn, NEW bp, NEW n, NEW s, Begins(f, fn, bp, n, s)
  PROVE  Begun(f, fn, bp, n, s)
<1>0. /\ fn \in DOMAIN Code /\ bp \in Nat /\ n \in Nat /\ n >= Code[fn].required
      /\ f \in FrameRecord
      /\ s \in Seq(Memory) /\ Len(s) = bp + 1 + n /\ s[bp + 1] = fn
      /\ fn \in Methods => s[bp] \notin Methods
      /\ \A i \in bp + 1 .. bp + n : s[i + 1] \notin Methods
  BY DEF Begins
<1> PICK room : f = Frame("user", fn, bp, n, room)
  BY DEF Begins
<1> USE <1>0
<1> DEFINE params == Code[fn].params
           args == Slots(s, bp + 1, bp + 1 + n)
           passed == IF n > params THEN SubSeq(args, 1, params) ELSE args
           this == IF fn \in Methods THEN s[bp] ELSE None
<1>1. /\ params \in Nat /\ Code[fn].required \in Nat /\ Code[fn].required <= params
  BY CodeFacts
<1>2. /\ f.kind = "user" /\ f.fn = fn /\ f.bp = bp /\ f.num_args = n
      /\ f.sp = bp + 1 + n /\ f.body = FALSE /\ f.phase = Code[fn].required
      /\ f.num = Code[fn].params /\ f.tries = 0 /\ f.open = <<>>
  BY DEF Frame
<1>3. Base(f) = bp + 1 + n
  <2>1. Base(f) = bp + 1 + Max2(n, Code[fn].required)
    BY <1>2, BaseIs
  <2> QED
    BY <1>1, <2>1 DEF Max2
<1>4. Variables(f) = IF n > params THEN params ELSE n
  <2>1. Variables(f) = Min2(Max2(n, Code[fn].required), params)
    BY <1>2 DEF Variables
  <2> QED
    BY <1>1, <2>1 DEF Min2, Max2
<1>5. Clean(f, s, f.sp)
  <2>1. \A i \in f.bp + 1 .. Base(f) - 1 : i \in bp + 1 .. bp + n
    BY <1>2, <1>3
  <2>2. \A i : ~(i \in Base(f) .. f.sp - 1)
    BY <1>2, <1>3
  <2> QED
    BY <1>2, <2>1, <2>2 DEF Clean
<1>6. Slots(s, f.bp + 1, f.bp + 1 + Variables(f)) = passed
  <2> DEFINE i == bp + 1
             j == bp + 1 + n
             k == n - params
  <2>1. CASE n > params
    <3>1. /\ i \in Nat /\ j \in Nat /\ i <= j /\ j <= Len(s) /\ k \in Nat /\ k <= j - i
          /\ j - k = i + params /\ j - i - k = params /\ j - i \in Nat
      BY <1>1, <2>1
    <3> HIDE DEF i, j, k, params
    <3>2. Abstract!Without(Slots(s, i, j), k) = Slots(s, i, j - k)
      <4>1. /\ s \in Seq(Memory) /\ i \in Nat /\ j \in Nat /\ i <= j /\ j <= Len(s)
            /\ k \in Nat /\ k <= j - i
        BY <3>1
      <4> HIDE <1>0
      <4> QED
        BY <4>1, SlotsParts
    <3>3. Len(Slots(s, i, j)) = j - i
      BY <3>1, SlotsFacts
    <3>4. SubSeq(Slots(s, i, j), 1, params) = Slots(s, i, i + params)
      BY <3>1, <3>2, <3>3 DEF Abstract!Without
    <3>5. f.bp + 1 = i /\ f.bp + 1 + Variables(f) = i + params /\ args = Slots(s, i, j)
      BY <1>2, <1>4, <2>1 DEF i, j
    <3> QED
      BY <2>1, <3>4, <3>5
  <2>2. CASE ~(n > params)
    BY <1>2, <1>4, <2>2
  <2> QED
    BY <2>1, <2>2
<1>7. Slots(s, Base(f), f.sp) = <<>>
  BY <1>2, <1>3, NoSlots
<1> HIDE DEF passed
<1>8. ActivationOf(f, s, f.sp)
        = [fn |-> fn, vars |-> passed, operands |-> <<>>, this |-> this, tries |-> 0]
  BY <1>2, <1>6, <1>7 DEF ActivationOf
<1>9. ActivationOf(f, s, f.sp) = Abstract!Activation(fn, passed, this)
  BY <1>8 DEF Abstract!Activation
<1> QED
  BY <1>2, <1>3, <1>5, <1>9 DEF passed, Begun

LEMMA EnterView ==
  ASSUME CInv, Running, NEW n \in Nat, NEW fn \in DOMAIN Code, NEW args, Len(args) \in Nat,
         Len(args) >= Code[fn].required, NEW this, NEW a \in ActType, NEW b \in ActType,
         a = [TopAct EXCEPT !.operands = Abstract!Without(TopAct.operands, n)],
         b = Abstract!Activation(fn, IF Len(args) > Code[fn].params
                                     THEN SubSeq(args, 1, Code[fn].params) ELSE args, this),
         NEW all, all = Append(Append(Front(Now), a), b), Len(all) = eval_depth + 1,
         IF eval_depth + 1 >= EvalLimit THEN Abstract!Fail(all, Error, <<>>)
         ELSE ActsOf(frames', stack', error') = all /\ error' = None
  PROVE  Abstract!Enter(fn, args, this, n)
<1>1. /\ Now \in Acts /\ Front(Now) \in Acts /\ Last(Now) = TopAct /\ error = None
      /\ Code[fn].required \in Nat
  BY NowView, CodeFacts DEF Running
<1> DEFINE h == Append(Front(Now), a)
<1>2. h \in Seq(ActType)
  <2>1. Front(Now) \in Seq(ActType)
    BY <1>1 DEF Acts
  <2> QED
    BY <2>1, SeqAppended
<1> HIDE DEF h
<1>3. h \o <<b>> = all
  <2>1. Append(h, b) = h \o <<b>>
    BY <1>2, AppendIsConcat
  <2> QED
    BY <2>1 DEF h
<1>4. ~(Len(args) < Code[fn].required)
  BY <1>1
<1> QED
  BY <1>1, <1>3, <1>4, AbstractOperators DEF Abstract!Enter, Abstract!Innermost, Now, h

(* A function is entered: what its frames and the slots are.               *)
Entering(n, fn, k, fs, f, bp, t, c) ==
  /\ fn \in DOMAIN Code /\ k \in Nat /\ k >= Code[fn].required
  /\ CallsIn(frames, stack, Append(fs, f), t, f, c) /\ c.kind # "script" /\ c.bp = Dest(n)
  /\ Begun(f, fn, bp, k, t) /\ Eval(fs, f, t) /\ Len(Slots(t, bp + 1, bp + 1 + k)) = k

LEMMA CallEnters ==
  ASSUME CInv, IInv', NEW n \in Nat, Calling(n), NEW fn, NEW k, NEW fs, NEW f, NEW bp, NEW t,
         NEW c, Entering(n, fn, k, fs, f, bp, t, c)
  PROVE  /\ CInv'
         /\ Abstract!Enter(fn, Slots(t, bp + 1, bp + 1 + k),
                           IF fn \in Methods THEN t[bp] ELSE None, Gone(n))
<1> DEFINE gs == Append(fs, f)
           args == Slots(t, bp + 1, bp + 1 + k)
           this == IF fn \in Methods THEN t[bp] ELSE None
           a == ActivationOf(Top, stack, End(Top, Callee(frames, gs)))
           b == ActivationOf(f, t, f.sp)
           all == Append(Append(Front(Now), a), b)
<1>1. /\ fn \in DOMAIN Code /\ k \in Nat /\ k >= Code[fn].required
      /\ Above(frames, stack, gs, t) /\ Last(gs) = f /\ Callee(frames, gs) = c
      /\ c.kind # "script" /\ c.bp = Dest(n) /\ Eval(fs, f, t) /\ Len(args) = k
  BY DEF Entering, CallsIn
<1>2. /\ f.sp = Base(f) /\ f.tries = 0 /\ Clean(f, t, f.sp)
      /\ ActivationOf(f, t, f.sp)
           = Abstract!Activation(fn, IF k > Code[fn].params THEN SubSeq(args, 1, Code[fn].params)
                                     ELSE args, this)
  BY DEF Entering, Begun
<1>3. Running /\ Gone(n) \in Nat
  BY DestView
<1>4. /\ CInv' /\ a \in ActType /\ b \in ActType /\ all \in Acts
      /\ Len(all) = eval_depth + 1
      /\ IF eval_depth + 1 >= EvalLimit THEN Abstract!Fail(all, Error, <<>>)
         ELSE ActsOf(frames', stack', error') = all /\ error' = None
  BY <1>1, <1>2, <1>3, EvalView
<1>5. a = [TopAct EXCEPT !.operands = Abstract!Without(TopAct.operands, Gone(n))]
  BY <1>1, CallerView
<1>6. /\ b = Abstract!Activation(fn, IF Len(args) > Code[fn].params
                                     THEN SubSeq(args, 1, Code[fn].params) ELSE args, this)
      /\ all = Append(Append(Front(Now), a), b)
  BY <1>1, <1>2
<1> HIDE DEF a, b, all, args, this
<1>7. Abstract!Enter(fn, args, this, Gone(n))
  BY <1>1, <1>3, <1>4, <1>5, <1>6, EnterView
<1> QED
  BY <1>4, <1>7 DEF args, this

LEMMA CallUserView ==
  ASSUME CInv, NEW n \in Nat, Calling(n), NEW fn \in DOMAIN Code, fn = Slot(Dest(n)),
         n >= Code[fn].required, CallUser(fn, n)
  PROVE  CInv' /\ Abstract!Enter(fn, Args(n), This(n), Gone(n))
<1> DEFINE d == Dest(n)
           room == Ensure(StackSize(fn), Top.sp)
           f == Frame("user", fn, d, n, room)
           gs == Append(frames, f)
           args == Args(n)
           this == IF fn \in Methods THEN stack[d] ELSE None
<1>0. IInv /\ IInv'
  BY CallUserKeeps DEF CInv
<1>1. /\ Running /\ d \in Nat /\ Top.sp = d + 1 + n /\ CallsAt(Top, d)
      /\ frames # <<>> /\ Top = Last(frames) /\ Top.kind # "native"
      /\ stack \in Seq(Memory) /\ Len(stack) = Top.sp /\ Top.sp \in Nat
      /\ d = 0 => fn \notin Methods
  BY <1>0, CallFacts
<1>2. Eval(frames, f, stack)
  BY DEF CallUser
<1>3. /\ ~Opens(n) => fn \notin Methods
      /\ Opens(n) => This(n) = stack[d] /\ This(n) \notin Methods /\ fn \in Methods
      /\ ~Opens(n) => This(n) = None
  BY CallingView DEF This, Methods
<1>4. this = This(n) /\ (fn \in Methods => stack[d] \notin Methods)
  BY <1>3
<1>5. /\ args = Slots(stack, d + 1, d + 1 + n) /\ Len(args) = n
      /\ \A k \in 1 .. n : stack[d + 1 + k] \notin Methods
  <2>1. /\ Len(args) = n /\ \A k \in 1 .. n : args[k] = stack[d + 1 + k] /\ args[k] \notin Methods
    BY ArgsView
  <2>2. Top.sp - n = d + 1
    BY <1>1
  <2> QED
    BY <1>1, <2>1, <2>2 DEF Args
<1>6. Fits(frames, stack)
  BY <1>1, NowView
<1> HIDE DEF d, args
<1>7. StackSize(fn) \in Nat
  BY CodeFacts
<1>8. room = Top.sp + StackSize(fn)
  BY DEF Ensure
<1> HIDE DEF room
<1>9. room \in Nat /\ room >= d + 1 + n + StackSize(fn) /\ (fn \in Methods => d > 0)
  BY <1>1, <1>7, <1>8
<1>10. /\ f \in FrameRecord /\ FrameOK(f) /\ f.kind = "user" /\ f.bp = d
       /\ f.sp = d + 1 + n
  BY <1>1, <1>9, NewUser
<1>11. Begun(f, fn, d, n, stack)
  <2>1. stack[d + 1] = fn
    BY DEF d, Slot
  <2>2. \A i \in d + 1 .. d + n : stack[i + 1] \notin Methods
    <3> SUFFICES ASSUME NEW i \in d + 1 .. d + n PROVE stack[i + 1] \notin Methods
      OBVIOUS
    <3> DEFINE k == i - d
    <3>1. k \in 1 .. n /\ d + 1 + k = i + 1
      BY <1>1
    <3> HIDE DEF k
    <3> QED
      BY <1>5, <3>1
  <2>3. Len(stack) = d + 1 + n
    BY <1>1
  <2> DEFINE g == f
  <2>4. g \in FrameRecord /\ g = Frame("user", fn, d, n, room)
    BY <1>10
  <2> HIDE DEF g
  <2>5. Begins(g, fn, d, n, stack)
    BY <1>1, <1>4, <2>1, <2>2, <2>3, <2>4 DEF Begins
  <2>6. Begun(g, fn, d, n, stack)
    BY <2>5, NewUserView
  <2> QED
    BY <2>6 DEF g
<1> HIDE DEF f
<1>12. PairOK(Last(frames), f)
  BY <1>1, <1>10 DEF PairOK
<1>13. Above(frames, stack, gs, stack) /\ Last(gs) = f /\ Callee(frames, gs) = f
  <2>1. Atop(frames, stack, f, stack)
    BY <1>1, <1>6, <1>10, <1>12 DEF Atop
  <2>2. CallsIn(frames, stack, gs, stack, f, f)
    BY <2>1, AboveOne
  <2> QED
    BY <2>2 DEF CallsIn
<1>14. Entering(n, fn, n, frames, f, d, stack, f)
  <2>1. CallsIn(frames, stack, gs, stack, f, f) /\ f.kind # "script" /\ f.bp = Dest(n)
    BY <1>10, <1>13 DEF CallsIn, d
  <2> QED
    BY <1>1, <1>2, <1>5, <1>11, <2>1 DEF Entering
<1>15. CInv' /\ Abstract!Enter(fn, args, this, Gone(n))
  BY <1>0, <1>5, <1>14, CallEnters
<1> QED
  BY <1>4, <1>15 DEF args
-----------------------------------------------------------------------------
(* A call that answers: the frame that made it goes on with the result     *)
(* where the operands of the call began.                                   *)
Rest(f, dest) == IF f.open # <<>> /\ Last(f.open) = dest THEN dest - 1 ELSE dest

LEMMA AnsweredOpen ==
  ASSUME NEW f \in FrameRecord, FrameOK(f), f.kind # "native", NEW dest \in Nat,
         CallsAt(f, dest), NEW s, NEW v
  PROVE  LET end == Rest(f, dest)
             r == Answered(f, dest, v, s)
         IN  /\ end \in Nat /\ Base(f) <= end /\ end <= dest /\ Base(f) \in Nat
             /\ Same(f, r[1]) /\ r[1].num = f.num /\ r[1].tries = f.tries /\ r[1].sp = end + 1
             /\ r[2] = Write(s, end, v)
             /\ end \notin Range(r[1].open)
             /\ \A i \in Nat : i < end => (i \in Range(r[1].open) <=> i \in Range(f.open))
<1> DEFINE closes == f.open # <<>> /\ Last(f.open) = dest
           r == Answered(f, dest, v, s)
<1>1. /\ Evaluates(f) /\ OperandsOK(f) /\ f.open \in Seq(Nat) /\ f.sp \in Nat
      /\ Base(f) <= dest /\ Base(f) \in Nat
  BY UnfoldOperands, CallerComputes DEF FrameRecord, Evaluates, FrameOK
<1>2. /\ f.open # <<>> => Last(f.open) \in Nat /\ Floor(f) = Last(f.open) + 1
      /\ Floor(f) \in Nat
  BY <1>1, FrameFacts DEF Evaluates
<1>3. \A i \in Range(f.open) : i \in Nat /\ i > Base(f) /\ i <= Last(f.open) /\ f.open # <<>>
  <2>1. \A i \in Range(f.open) : i \in Nat /\ i > Base(f) /\ i <= Last(f.open)
    BY <1>1, OpenBelow
  <2>2. \A i \in Range(f.open) : f.open # <<>>
    <3> SUFFICES ASSUME NEW j \in DOMAIN f.open PROVE f.open # <<>>
      BY DEF Range
    <3> QED
      BY <1>1, EmptySeq
  <2> QED
    BY <2>1, <2>2
<1>4. CASE closes
  <2> DEFINE m == Len(f.open)
             os == Front(f.open)
             end == dest - 1
             g == [f EXCEPT !.sp = dest, !.open = os]
  <2>1. r = <<g, Write(s, end, v)>> /\ Rest(f, dest) = end
    BY <1>4 DEF Answered, Rest
  <2>2. /\ os \in Seq(Nat) /\ Len(os) = m - 1 /\ m \in Nat /\ m > 0 /\ DOMAIN f.open = 1 .. m
        /\ DOMAIN os = 1 .. m - 1
        /\ \A i \in DOMAIN os : i \in DOMAIN f.open /\ os[i] = f.open[i]
    <3>1. f.open \in Seq(Nat) /\ f.open # <<>>
      BY <1>1, <1>4
    <3>2. os \in Seq(Nat) /\ Len(os) = m - 1 /\ m \in Nat /\ m > 0
      BY <3>1, FrontOf
    <3> QED
      BY <3>1, <3>2, FrontFacts, LenProperties
  <2>3. m \in DOMAIN f.open /\ f.open[m] = dest
    BY <1>1, <1>4, <2>2 DEF Last
  <2>4. dest \in Range(f.open)
    BY <2>3 DEF Range
  <2>5. dest > Base(f)
    BY <1>3, <2>4
  <2>6. \A i \in DOMAIN os : f.open[i] + 2 <= dest
    <3> SUFFICES ASSUME NEW i \in DOMAIN os PROVE f.open[i] + 2 <= dest
      OBVIOUS
    <3>1. i \in DOMAIN f.open /\ m \in DOMAIN f.open /\ i < m
      BY <2>2, <2>3
    <3> HIDE DEF os, m
    <3>2. f.open[i] + 2 <= f.open[m]
      BY <1>1, <3>1 DEF OperandsOK
    <3> QED
      BY <2>3, <3>2
  <2>7. /\ g \in FrameRecord /\ Same(f, g) /\ g.sp = dest /\ g.open = os
        /\ g.tries = f.tries /\ g.left = f.left /\ g.num = f.num
    <3> HIDE DEF os
    <3> QED
      BY <2>2 DEF FrameRecord, Same
  <2> HIDE DEF g, m
  <2>8. end \notin Range(os)
    <3>0. end \in Int /\ dest = end + 1
      OBVIOUS
    <3> HIDE DEF os, end
    <3> SUFFICES ASSUME NEW j \in DOMAIN os PROVE os[j] # end
      BY DEF Range
    <3>1. j \in DOMAIN f.open /\ os[j] = f.open[j] /\ f.open[j] + 2 <= dest
      BY <2>2, <2>6
    <3>2. f.open[j] \in Nat
      BY <1>1, <3>1
    <3> QED
      BY <3>0, <3>1, <3>2
  <2>9. ASSUME NEW i \in Nat, i < end PROVE i \in Range(os) <=> i \in Range(f.open)
    <3>1. ASSUME NEW j \in DOMAIN os PROVE os[j] \in Range(f.open)
      BY <2>2 DEF Range
    <3>2. ASSUME NEW j \in DOMAIN f.open, f.open[j] = i PROVE i \in Range(os)
      <4>1. j # m
        BY <2>3, <2>9, <3>2
      <4>2. j \in DOMAIN os
        BY <2>2, <4>1
      <4> QED
        BY <2>2, <3>2, <4>2 DEF Range
    <3> QED
      BY <3>1, <3>2 DEF Range
  <2> HIDE DEF os
  <2>10. end \in Nat /\ Base(f) <= end /\ end <= dest /\ dest = end + 1
    BY <1>1, <2>5
  <2> HIDE DEF end, r
  <2>11. r[1] = g /\ r[2] = Write(s, end, v)
    BY <2>1
  <2> QED
    BY <1>1, <2>1, <2>7, <2>8, <2>9, <2>10, <2>11 DEF r
<1>5. CASE ~closes
  <2> DEFINE n == dest + 1
             g == [f EXCEPT !.sp = n]
  <2>1. r = <<g, Write(s, dest, v)>> /\ Rest(f, dest) = dest
    BY <1>5 DEF Answered, Rest
  <2>2. n \in Nat /\ Floor(f) <= n /\ n <= High(f) /\ (f.body \/ AtDefault(f))
    BY <1>5, CallerComputes
  <2>3. n = dest + 1
    OBVIOUS
  <2> HIDE DEF n
  <2>4. Same(f, g) /\ g.sp = n /\ g.open = f.open /\ g.tries = f.tries /\ g.num = f.num
    BY <2>2, Resized
  <2>5. dest \notin Range(f.open)
    <3> SUFFICES ASSUME dest \in Range(f.open) PROVE FALSE
      OBVIOUS
    <3>1. dest >= Floor(f) /\ f.open # <<>> /\ dest <= Last(f.open) /\ Last(f.open) \in Nat
          /\ Floor(f) = Last(f.open) + 1
      BY <1>2, <1>3, <1>5 DEF CallsAt
    <3> QED
      BY <3>1
  <2> HIDE DEF r, g
  <2>6. r[1] = g /\ r[2] = Write(s, dest, v)
    BY <2>1
  <2> QED
    BY <1>1, <2>1, <2>3, <2>4, <2>5, <2>6 DEF r
<1> QED
  BY <1>4, <1>5

Answering(f, dest, s, v, g, w) ==
  /\ f \in FrameRecord /\ FrameOK(f) /\ f.kind # "native" /\ dest \in Nat
  /\ CallsAt(f, dest) /\ s \in Seq(Memory) /\ dest < Len(s)
  /\ v \in Memory /\ v \notin Methods /\ Clean(f, s, Rest(f, dest))
  /\ g = Answered(f, dest, v, s)[1] /\ w = Answered(f, dest, v, s)[2]
  /\ g \in FrameRecord /\ FrameOK(g) /\ w \in Seq(Memory) /\ g.sp <= Len(w)
Answers(f, dest, s, v, g, w) ==
  LET a == ActivationOf(f, s, Rest(f, dest)) IN
  /\ Clean(g, w, g.sp) /\ \A i \in 1 .. Base(f) : w[i] = s[i]
  /\ a \in ActType /\ ActivationOf(g, w, g.sp) = [a EXCEPT !.operands = Append(@, v)]

LEMMA AnsweredView ==
  ASSUME NEW f, NEW dest, NEW s, NEW v, NEW g, NEW w, Answering(f, dest, s, v, g, w)
  PROVE  Answers(f, dest, s, v, g, w)
<1> DEFINE end == Rest(f, dest)
           a == ActivationOf(f, s, end)
           b == ActivationOf(g, w, g.sp)
           d == [a EXCEPT !.operands = Append(a.operands, v)]
<1>0. /\ f \in FrameRecord /\ FrameOK(f) /\ f.kind # "native" /\ dest \in Nat
      /\ CallsAt(f, dest) /\ s \in Seq(Memory) /\ dest < Len(s)
      /\ v \in Memory /\ v \notin Methods /\ Clean(f, s, Rest(f, dest))
      /\ g = Answered(f, dest, v, s)[1] /\ w = Answered(f, dest, v, s)[2]
      /\ g \in FrameRecord /\ FrameOK(g) /\ w \in Seq(Memory) /\ g.sp <= Len(w)
  BY DEF Answering
<1> USE <1>0
<1>1. /\ end \in Nat /\ Base(f) <= end /\ end <= dest /\ Base(f) \in Nat
      /\ Same(f, g) /\ g.num = f.num /\ g.tries = f.tries /\ g.sp = end + 1
      /\ w = Write(s, end, v) /\ end \notin Range(g.open)
      /\ \A i \in Nat : i < end => (i \in Range(g.open) <=> i \in Range(f.open))
  BY AnsweredOpen
<1>2. Evaluates(f) /\ Evaluates(g) /\ Base(g) = Base(f) /\ Len(s) \in Nat
  BY <1>1, SameBase, LenProperties DEF Same, FrameOK, Evaluates
<1>3. Clean(f, s, end)
  OBVIOUS
<1> HIDE DEF end
<1>4. end < Len(s) /\ end <= Len(s)
  BY <1>1, <1>2
<1>5. /\ Len(w) = Len(s) /\ w[end + 1] = v /\ \A i \in 1 .. end : w[i] = s[i]
  <2> DEFINE x == Write(s, end, v)
  <2>0. /\ Len(x) = Len(s) /\ x[end + 1] = v
        /\ \A j \in 1 .. Len(s) : j # end + 1 => x[j] = s[j]
    <3>1. s \in Seq(Memory) /\ end \in Nat /\ end < Len(s) /\ v \in Memory
      BY <1>1, <1>4
    <3> HIDE <1>0
    <3> QED
      BY <3>1, WriteFacts
  <2> HIDE DEF x
  <2>1. /\ Len(w) = Len(s) /\ w[end + 1] = v
        /\ \A j \in 1 .. Len(s) : j # end + 1 => w[j] = s[j]
    BY <1>1, <2>0 DEF x
  <2>2. \A i \in 1 .. end : i \in 1 .. Len(s) /\ i # end + 1
    BY <1>1, <1>2, <1>4
  <2> QED
    BY <2>1, <2>2
<1>6. Clean(g, w, end)
  <2>1. Clean(f, w, end)
    BY <1>1, <1>2, <1>3, <1>5, CleanAgrees
  <2>2. \A i \in Base(f) .. end - 1 : i \in Nat /\ i < end
    BY <1>1
  <2> QED
    BY <1>1, <1>2, <2>1, <2>2 DEF Clean, Same
<1>7. Clean(g, w, g.sp)
  <2>1. Clean(g, w, end + 1)
    BY <1>1, <1>2, <1>5, <1>6, CleanMore
  <2> QED
    BY <1>1, <2>1
<1>8. \A i \in 1 .. Base(f) : w[i] = s[i]
  BY <1>1, <1>5
<1>9. Slots(w, Base(f), g.sp) = Append(Slots(s, Base(f), end), v)
  <2>1. end < Len(w)
    BY <1>4, <1>5
  <2>2. Slots(w, Base(f), end + 1) = Append(Slots(w, Base(f), end), w[end + 1])
    BY <1>1, <2>1, SlotsMore
  <2>3. Slots(w, Base(f), end) = Slots(s, Base(f), end)
    BY <1>1, <1>4, <1>5, SlotsAgree
  <2> QED
    BY <1>1, <1>5, <2>2, <2>3
<1>10. a \in ActType /\ a.operands = Slots(s, Base(f), end) /\ a.operands \in Seq(Memory)
  BY <1>1, <1>2, <1>4, ActivationFacts
<1>11. Keeps(f, s, g, w)
  BY <1>1, <1>2, <1>4, <1>5, <1>8 DEF Keeps
<1> DEFINE m == g.sp
<1>12. b = ActivationOf(g, w, m) /\ m = g.sp
  OBVIOUS
<1> HIDE DEF m
<1>13. /\ b.fn = a.fn /\ b.vars = a.vars /\ b.this = a.this /\ b.tries = a.tries
       /\ b.operands = Slots(w, Base(f), m)
  BY <1>1, <1>11, <1>12, ViewChange
<1>14. b \in ActType
  <2>1. g.sp \in Nat /\ Base(g) <= g.sp
    BY <1>1, <1>2
  <2> QED
    BY <1>2, <2>1, ActivationFacts
<1> HIDE DEF a, b
<1>15. Append(a.operands, v) \in Seq(Memory)
  BY <1>10, AppendProperties
<1>16. d \in ActType /\ d.fn = a.fn /\ d.vars = a.vars /\ d.this = a.this /\ d.tries = a.tries
       /\ d.operands = Append(a.operands, v)
  BY <1>10, <1>15 DEF ActType
<1> HIDE DEF d
<1>17. b.operands = d.operands
  BY <1>9, <1>10, <1>12, <1>13, <1>16
<1>18. b = d
  BY <1>13, <1>14, <1>16, <1>17, SameActivation
<1>19. b = [a EXCEPT !.operands = Append(a.operands, v)]
  BY <1>18 DEF d
<1> QED
  BY <1>7, <1>8, <1>10, <1>19 DEF a, b, end, Answers

(* The frames end in one that goes on.                                     *)
Settling(fs, s, g, t) ==
  /\ Fits(fs, s) /\ CleanUnder(fs, s)
  /\ g \in FrameRecord /\ g.kind = Last(fs).kind /\ g.bp = Last(fs).bp
  /\ t \in Seq(Memory) /\ g.sp <= Len(t) /\ \A i \in 1 .. Last(fs).bp : t[i] = s[i]
  /\ Clean(g, t, g.sp)
  /\ frames' = Append(Front(fs), g) /\ stack' = Cut(t, g.sp) /\ error' = None

LEMMA SettledView ==
  ASSUME IInv', NEW fs, NEW s, NEW g, NEW t, Settling(fs, s, g, t), NEW e
  PROVE  /\ CInv'
         /\ ActsOf(frames', stack', error')
              = Append(Front(ActsOf(fs, s, e)), ActivationOf(g, t, g.sp))
<1>0. /\ Fits(fs, s) /\ CleanUnder(fs, s)
      /\ g \in FrameRecord /\ g.kind = Last(fs).kind /\ g.bp = Last(fs).bp
      /\ t \in Seq(Memory) /\ g.sp <= Len(t) /\ \A i \in 1 .. Last(fs).bp : t[i] = s[i]
      /\ Clean(g, t, g.sp)
      /\ frames' = Append(Front(fs), g) /\ stack' = Cut(t, g.sp) /\ error' = None
  BY DEF Settling
<1>1. /\ fs \in Seq(FrameRecord) /\ fs # <<>>
  BY <1>0, FitsFacts DEF Fits
<1>2. /\ frames' \in Seq(FrameRecord) /\ frames' # <<>> /\ Len(frames') = Len(fs)
      /\ Last(frames') = g /\ frames'[Len(fs)] = g /\ Len(fs) \in Nat /\ Len(fs) > 0
      /\ \A d \in 1 .. Len(fs) - 1 : frames'[d] = fs[d]
  BY <1>0, <1>1, Replaced
<1>3. Fits(frames', stack') /\ Evaluates(g)
  <2>1. Fits(frames', stack')
    BY <1>2, FitsNext
  <2> QED
    BY <1>2, <2>1, FitsFacts
<1>4. /\ g.sp \in Nat /\ Base(g) \in Nat /\ g.bp <= Base(g) /\ Base(g) <= g.sp /\ g.bp \in Nat
  BY <1>3, EvaluatesFacts
<1>5. /\ stack' \in Seq(Memory) /\ Len(stack') = g.sp
      /\ \A i \in 1 .. g.sp : stack'[i] = t[i]
  BY <1>0, <1>4, CutFacts
<1>6. Under(fs, s, frames', stack')
  <2>1. \A i \in 1 .. Last(fs).bp : i \in 1 .. g.sp
    BY <1>0, <1>4
  <2>2. \A i \in 1 .. Last(fs).bp : stack'[i] = s[i]
    BY <1>0, <1>5, <2>1
  <2> QED
    BY <1>0, <1>2, <1>3, <2>2 DEF Under
<1>7. EndOf(frames', error', Len(frames')) = g.sp
  BY <1>0, <1>2 DEF EndOf
<1>8. ActivationOf(g, stack', g.sp) = ActivationOf(g, t, g.sp) /\ Clean(g, stack', g.sp)
  <2> DEFINE r == stack'
             m == g.sp
  <2>1. /\ r \in Seq(Memory) /\ m \in Nat /\ Base(g) <= m /\ m <= Len(t) /\ m <= Len(r) /\ m <= m
        /\ \A i \in 1 .. m : r[i] = t[i]
    BY <1>0, <1>4, <1>5
  <2>2. Evaluates(g) /\ t \in Seq(Memory) /\ Clean(g, t, m)
    BY <1>0, <1>3
  <2> HIDE DEF r, m
  <2>3. ActivationOf(g, r, m) = ActivationOf(g, t, m)
    BY <2>1, <2>2, ActivationAgrees
  <2>4. Clean(g, r, m)
    BY <2>1, <2>2, CleanAgrees
  <2> QED
    BY <2>3, <2>4 DEF r, m
<1>9. ActsOf(frames', stack', error')
        = Append(Front(ActsOf(fs, s, e)), ActivationOf(Last(frames'), stack', EndOf(frames', error', Len(frames'))))
  BY <1>2, <1>6, ActsReplaced
<1>10. CleanAll(frames', stack', error')
  <2>1. CleanUnder(frames', stack')
    BY <1>0, <1>2, <1>6, UnderClean
  <2> QED
    BY <1>2, <1>3, <1>7, <1>8, <2>1, CleanSplits
<1> QED
  BY <1>2, <1>7, <1>8, <1>9, <1>10 DEF CInv

(* A native function.                                                      *)
LEMMA NativeFailsView ==
  ASSUME CInv, NEW n \in Nat, Calling(n), NativeFails(n)
  PROVE  CInv' /\ Abstract!Fail(Now, Error, <<>>)
<1> DEFINE d == Dest(n)
           k == d + 1
           g == [Top EXCEPT !.sp = k]
           w == Write(stack, d, Junk)
           e == Raised(Error)
<1>0. IInv /\ IInv'
  BY NativeFailsKeeps DEF CInv
<1>1. /\ Running /\ d \in Nat /\ Top.sp = d + 1 + n /\ CallsAt(Top, d) /\ Base(Top) <= d
  BY DestView
<1>2. /\ Top \in FrameRecord /\ FrameOK(Top) /\ Top.kind # "native"
      /\ stack \in Seq(Memory) /\ Len(stack) = Top.sp /\ Base(Top) \in Nat
  BY <1>1, TopView
<1>3. RetWithTrace(Append(Front(frames), g), w, e)
  BY DEF NativeFails
<1>4. TopAct \in ActType /\ Now = Append(Front(Now), TopAct)
  BY <1>1, NowView
<1> HIDE DEF d
<1>5. k \in Nat /\ Floor(Top) <= k /\ k <= High(Top) /\ (Top.body \/ AtDefault(Top))
  BY <1>1, <1>2, CallerComputes
<1>6. k <= Len(stack)
  BY <1>1, <1>2
<1> HIDE DEF k
<1>7. /\ g \in FrameRecord /\ FrameOK(g) /\ Same(Top, g) /\ g.sp = k
      /\ g.tries = Top.tries /\ g.num = Top.num
  BY <1>2, <1>5, Resized
<1> HIDE DEF g
<1>8. /\ w \in Seq(Memory) /\ Len(w) = Len(stack) /\ \A i \in 1 .. Base(Top) : w[i] = stack[i]
  <2>1. d < Len(stack) /\ Junk \in Memory
    BY <1>1, <1>2, MethodsApart
  <2>2. /\ w \in Seq(Memory) /\ Len(w) = Len(stack)
        /\ \A j \in 1 .. Len(stack) : j # d + 1 => w[j] = stack[j]
    BY <1>1, <1>2, <2>1, WriteFacts
  <2> HIDE DEF w
  <2>3. \A i \in 1 .. Base(Top) : i \in 1 .. Len(stack) /\ i # d + 1
    BY <1>1, <1>2
  <2> QED
    BY <2>2, <2>3
<1> HIDE DEF w
<1>9. e \in Errors /\ e.value \notin Methods /\ e.value = Error /\ e.tb = <<>>
  BY RaisedIs, RaisedFacts, MethodsApart
<1> HIDE DEF e
<1>10. CInv' /\ Abstract!Fail(Append(Front(Now), TopAct), e.value, e.tb)
  BY <1>0, <1>1, <1>3, <1>4, <1>6, <1>7, <1>8, <1>9, FailHere
<1> QED
  BY <1>4, <1>9, <1>10

LEMMA CallNativeView ==
  ASSUME CInv, NEW n \in Nat, Calling(n), CallNative(n)
  PROVE  CInv' /\ Abstract!Answer(Gone(n))
<1>1. CASE NativeFails(n)
  BY <1>1, NativeFailsView DEF Abstract!Answer, Now
<1>2. ASSUME NEW v \in Data, LET r == Answered(Top, Dest(n), v, stack) IN Moves(r[1], r[2])
      PROVE  CInv' /\ Abstract!Answer(Gone(n))
  <2> DEFINE d == Dest(n)
             g == Answered(Top, d, v, stack)[1]
             w == Answered(Top, d, v, stack)[2]
             end == Rest(Top, d)
             a == ActivationOf(Top, stack, end)
             b == ActivationOf(g, w, g.sp)
  <2>1. IInv /\ IInv'
    <3>1. CallNative(n)
      BY <1>2 DEF CallNative
    <3> QED
      BY <3>1, CallNativeKeeps DEF CInv
  <2>2. /\ Running /\ d \in Nat /\ Top.sp = d + 1 + n /\ CallsAt(Top, d) /\ Base(Top) <= d
    BY DestView
  <2>3. /\ Top \in FrameRecord /\ FrameOK(Top) /\ Top.kind # "native" /\ Evaluates(Top)
        /\ stack \in Seq(Memory) /\ Len(stack) = Top.sp /\ Base(Top) \in Nat
        /\ Clean(Top, stack, Top.sp) /\ CleanUnder(frames, stack) /\ Top.sp \in Nat
        /\ Top.bp \in Nat /\ Top.bp <= Base(Top) /\ error = None
    BY <2>2, TopView
  <2>4. Moves(g, w)
    BY <1>2
  <2>5. v \in Memory /\ v \notin Methods /\ d < Len(stack) /\ v \in Constants
    BY <2>2, <2>3, MethodsApart
  <2>6. stack[1] \notin Methods
    BY <2>1, CallFacts
  <2>7. /\ g \in FrameRecord /\ FrameOK(g) /\ g.kind = Top.kind /\ g.bp = Top.bp
        /\ w \in Seq(Memory) /\ g.sp <= Len(w)
    BY <2>2, <2>3, <2>5, <2>6, AnsweredIs
  <2>8. a = [TopAct EXCEPT !.operands = Abstract!Without(TopAct.operands, Gone(n))]
    <3> DEFINE f == [kind |-> "user", bp |-> d]
    <3>1. f.kind # "script" /\ f.bp = Dest(n)
      OBVIOUS
    <3>2. End(Top, f) = end
      BY DEF End, Rest
    <3> HIDE DEF f, end
    <3> QED
      BY <3>1, <3>2, CallerView
  <2>9. end \in Nat /\ Base(Top) <= end /\ end <= d
    <3> DEFINE z == stack
    <3> QED
      BY <2>2, <2>3, AnsweredOpen
  <2>10. Clean(Top, stack, end)
    <3>1. end <= Top.sp
      BY <2>2, <2>9
    <3> HIDE DEF end
    <3> QED
      BY <2>3, <2>9, <3>1, CleanAgrees
  <2> DEFINE x == g
             y == w
  <2>11. x = Answered(Top, d, v, stack)[1] /\ y = Answered(Top, d, v, stack)[2]
    OBVIOUS
  <2>12. x \in FrameRecord /\ FrameOK(x) /\ y \in Seq(Memory) /\ x.sp <= Len(y)
         /\ x.kind = Top.kind /\ x.bp = Top.bp /\ Moves(x, y) /\ b = ActivationOf(x, y, x.sp)
    BY <2>4, <2>7
  <2> HIDE DEF d, x, y, a, b, end
  <2>13. /\ Clean(x, y, x.sp) /\ \A i \in 1 .. Base(Top) : y[i] = stack[i]
         /\ a \in ActType /\ b = [a EXCEPT !.operands = Append(a.operands, v)]
    <3>1. Answering(Top, d, stack, v, x, y)
      BY <2>2, <2>3, <2>5, <2>10, <2>11, <2>12 DEF Answering, end
    <3>2. Answers(Top, d, stack, v, x, y)
      BY <3>1, AnsweredView
    <3> QED
      BY <2>12, <3>2 DEF Answers, a, end
  <2>14. /\ Fits(frames, stack) /\ Top = Last(frames) /\ TopAct \in ActType /\ Last(Now) = TopAct
    BY <2>2, NowView
  <2>15. /\ frames' = Append(Front(frames), x) /\ stack' = Cut(y, x.sp) /\ error' = None
    BY <2>3, <2>12 DEF Moves
  <2>16. Settling(frames, stack, x, y)
    <3>1. \A i \in 1 .. Top.bp : y[i] = stack[i]
      BY <2>3, <2>13
    <3> QED
      BY <2>3, <2>12, <2>13, <2>14, <2>15, <3>1 DEF Settling
  <2>17. CInv' /\ ActsOf(frames', stack', error') = Append(Front(Now), b)
    BY <2>1, <2>12, <2>16, SettledView DEF Now
  <2>18. b = [TopAct EXCEPT !.operands = Append(Abstract!Without(TopAct.operands, Gone(n)), v)]
    <3> DEFINE o == Abstract!Without(TopAct.operands, Gone(n))
    <3> HIDE DEF o
    <3>1. a = [TopAct EXCEPT !.operands = o]
      BY <2>8 DEF o
    <3>2. b = [TopAct EXCEPT !.operands = Append(o, v)]
      BY <2>13, <2>14, <3>1 DEF ActType
    <3> QED
      BY <3>2 DEF o
  <2> QED
    BY <2>3, <2>5, <2>14, <2>15, <2>17, <2>18, AbstractOperators
      DEF Abstract!Answer, Abstract!Innermost, Now
<1> QED
  BY <1>1, <1>2 DEF CallNative

(* A native function that calls another: apply, and a bound method.        *)
LEMMA NativeIs ==
  ASSUME CInv, NEW n \in Nat, Calling(n), NEW fn \in DOMAIN BoundTo \cup {"apply"},
         NEW h, h = Frame("native", fn, Dest(n), n, Top.room), NEW hs, hs = Append(frames, h)
  PROVE  h \in FrameRecord /\ h.kind = "native" /\ h.bp = Dest(n) /\ Links(hs) /\ hs # <<>>
<1> DEFINE d == Dest(n)
           room == Top.room
<1>1. IInv
  BY DEF CInv
<1>2. /\ d \in Nat /\ Top.sp = d + 1 + n /\ CallsAt(Top, d)
      /\ Top.kind # "native" /\ Top \in FrameRecord /\ FrameOK(Top)
  BY <1>1, CallFacts
<1>3. room \in Nat
  BY <1>2 DEF FrameRecord
<1>4. Links(hs) /\ hs # <<>>
  BY <1>1, NativePushed
<1>5. h = Frame("native", fn, d, n, room)
  OBVIOUS
<1> HIDE DEF d, room
<1>6. d \in Nat /\ room \in Nat
  BY <1>2, <1>3
<1> DEFINE g == Frame("native", fn, d, n, room)
<1>7. g \in FrameRecord /\ g.kind = "native" /\ g.bp = d
  BY <1>6, NewNative DEF Frame
<1> HIDE DEF g
<1> QED
  BY <1>4, <1>5, <1>7 DEF g, d

LEMMA ApplyView ==
  ASSUME CInv, NEW n \in Nat, Calling(n), n >= 2, Apply(n)
  PROVE  LET g == Args(n)[1]
             arr == Args(n)[2]
         IN  /\ CInv'
             /\ IF g \notin DOMAIN Code \/ arr \notin DOMAIN Elements
                THEN Abstract!Fail(Now, Error, <<>>)
                ELSE IF Code[g].kind # "user" THEN Abstract!Answer(Gone(n))
                ELSE Abstract!Enter(g, Elements[arr], None, Gone(n))
<1> DEFINE g == Args(n)[1]
           arr == Args(n)[2]
           el == Elements[arr]
           k == Len(el)
           sp == Top.sp
           room == Ensure(StackSize(g) + k + 1, sp)
           f == Frame("user", g, sp, k, room)
           h == Frame("native", "apply", Dest(n), n, Top.room)
           hs == Append(frames, h)
           gs == Append(hs, f)
           u == stack \o <<g>>
           t == u \o el
           bad == g \notin DOMAIN Code \/ arr \notin DOMAIN Elements
<1>0. IInv /\ IInv'
  BY ApplyKeeps DEF CInv
<1>1. g \notin Methods /\ g \in Memory
  <2>1. 1 \in 1 .. n
    OBVIOUS
  <2> QED
    BY <2>1, ArgsView
<1>2. CASE bad
  <2>1. NativeFails(n)
    BY <1>2 DEF Apply
  <2> QED
    BY <1>2, <2>1, NativeFailsView
<1>3. CASE ~bad /\ Code[g].kind # "user"
  <2>1. CallNative(n)
    BY <1>3 DEF Apply, CallNative
  <2> QED
    BY <1>3, <2>1, CallNativeView
<1>4. CASE ~bad /\ Code[g].kind = "user" /\ k < Code[g].required
  <2>1. NativeFails(n)
    BY <1>4 DEF Apply
  <2>2. CInv' /\ Abstract!Fail(Now, Error, <<>>)
    BY <2>1, NativeFailsView
  <2>3. Abstract!Enter(g, el, None, Gone(n))
    BY <1>4, <2>2 DEF Abstract!Enter, Now
  <2> QED
    BY <1>4, <2>2, <2>3
<1>5. CASE ~bad /\ Code[g].kind = "user" /\ ~(k < Code[g].required)
  <2>1. g \in DOMAIN Code /\ arr \in DOMAIN Elements /\ ~(k < Code[g].required)
    BY <1>5
  <2>2. Eval(hs, f, t)
    BY <1>5 DEF Apply
  <2>3. el \in Seq(Memory) /\ k \in Nat /\ \A i \in 1 .. k : el[i] \notin Methods
    <3>1. el \in Seq(Constants) /\ Constants \subseteq Memory
      BY <2>1, ConstantsAssumption, MethodsApart
    <3>2. \A i \in 1 .. k : el[i] \in Constants
      BY <3>1
    <3> QED
      BY <3>1, <3>2, MethodsApart
  <2>4. /\ Running /\ Dest(n) \in Nat /\ sp = Dest(n) + 1 + n
        /\ stack \in Seq(Memory) /\ Len(stack) = sp /\ sp \in Nat
    BY <1>0, CallFacts
  <2>5. h \in FrameRecord /\ h.kind = "native" /\ h.bp = Dest(n) /\ Links(hs) /\ hs # <<>>
    BY NativeIs
  <2>6. StackSize(g) \in Nat /\ Code[g].required \in Nat
    <3> HIDE DEF g
    <3> QED
      BY <2>1, CodeFacts
  <2>7. /\ t \in Seq(Memory) /\ Len(t) = sp + 1 + k /\ t[sp + 1] = g
        /\ \A i \in 1 .. sp : t[i] = stack[i]
        /\ \A i \in 1 .. k : t[sp + 1 + i] = el[i]
    <3> DEFINE q == <<g>>
    <3> HIDE DEF g, el
    <3>1. q \in Seq(Memory) /\ Len(q) = 1 /\ q[1] = g
      BY <1>1
    <3> HIDE DEF q
    <3>2. /\ u \in Seq(Memory) /\ Len(u) = Len(stack) + Len(q)
          /\ \A j \in 1 .. Len(stack) : u[j] = stack[j]
          /\ \A j \in 1 .. Len(q) : u[Len(stack) + j] = q[j]
      BY <2>4, <3>1, JoinFacts DEF q
    <3>3. Len(u) = sp + 1 /\ u[sp + 1] = g /\ \A j \in 1 .. sp : u[j] = stack[j]
      BY <2>4, <3>1, <3>2
    <3> HIDE DEF u
    <3>4. /\ t \in Seq(Memory) /\ Len(t) = Len(u) + k
          /\ \A j \in 1 .. Len(u) : t[j] = u[j]
          /\ \A j \in 1 .. k : t[Len(u) + j] = el[j]
      BY <2>3, <3>2, JoinFacts
    <3> HIDE DEF t, k
    <3> HIDE DEF sp
    <3>5. sp \in Nat /\ k \in Nat
      BY <2>3, <2>4
    <3>6. \A j \in 1 .. sp + 1 : t[j] = u[j]
      BY <3>3, <3>4
    <3>7. \A j \in 1 .. k : t[sp + 1 + j] = el[j]
      BY <3>3, <3>4
    <3>8. t[sp + 1] = g /\ \A j \in 1 .. sp : t[j] = stack[j]
      BY <3>3, <3>5, <3>6
    <3>9. Len(t) = sp + 1 + k
      BY <3>3, <3>4
    <3> QED
      BY <3>4, <3>7, <3>8, <3>9
  <2>8. room = sp + (StackSize(g) + k + 1)
    BY DEF Ensure
  <2>9. Fits(frames, stack)
    BY <2>4, NowView
  <2>10. /\ Slots(t, sp + 1, sp + 1 + k) = el
    <3> DEFINE r == Slots(t, sp + 1, sp + 1 + k)
               i == sp + 1
               j == sp + 1 + k
    <3>0. sp \in Nat /\ k \in Nat /\ Len(t) = sp + 1 + k
      BY <2>3, <2>4, <2>7
    <3> HIDE DEF t, el, k, sp
    <3>1. /\ i \in Nat /\ j \in Nat /\ i <= j /\ j <= Len(t) /\ j - i = k
      BY <3>0
    <3> HIDE DEF i, j
    <3>2. /\ Slots(t, i, j) \in Seq(Memory) /\ Len(Slots(t, i, j)) = j - i
          /\ \A x \in 1 .. j - i : Slots(t, i, j)[x] = t[i + x]
      BY <2>7, <3>1, SlotsFacts
    <3>3. r = Slots(t, i, j)
      BY DEF i, j
    <3> HIDE DEF r
    <3>4. r \in Seq(Memory) /\ Len(r) = k /\ \A x \in 1 .. k : r[x] = el[x]
      BY <2>7, <3>1, <3>2, <3>3 DEF i
    <3> QED
      BY <2>3, <3>4, SameSeq DEF k, r
  <2> HIDE DEF room, k, sp, g, t, el, h, hs
  <2>11. room \in Nat /\ room >= sp + 1 + k + StackSize(g) /\ k >= Code[g].required
    <3> DEFINE z == StackSize(g)
               q == Code[g].required
    <3>1. k \in Nat /\ sp \in Nat /\ z \in Nat /\ q \in Nat /\ ~(k < q) /\ room = sp + (z + k + 1)
      BY <2>1, <2>3, <2>4, <2>6, <2>8
    <3> HIDE DEF z, q
    <3>2. room \in Nat /\ room >= sp + 1 + k + z /\ k >= q
      BY <3>1
    <3> QED
      BY <3>2 DEF z, q
  <2>12. /\ f \in FrameRecord /\ FrameOK(f) /\ f.kind = "user" /\ f.bp = sp
         /\ f.sp = sp + 1 + k
    BY <1>1, <2>1, <2>3, <2>4, <2>11, NewUser
  <2>13. f = Frame("user", g, sp, k, room)
    OBVIOUS
  <2> HIDE DEF f
  <2>14. Begun(f, g, sp, k, t)
    <3>1. \A i \in sp + 1 .. sp + k : t[i + 1] \notin Methods
      <4> SUFFICES ASSUME NEW i \in sp + 1 .. sp + k PROVE t[i + 1] \notin Methods
        OBVIOUS
      <4> DEFINE x == i - sp
      <4>1. x \in 1 .. k /\ sp + 1 + x = i + 1
        <5>1. sp \in Nat /\ k \in Nat
          BY <2>3, <2>4
        <5> QED
          BY <5>1
      <4> HIDE DEF x
      <4> QED
        BY <2>3, <2>7, <4>1
    <3>2. Begins(f, g, sp, k, t)
      BY <1>1, <2>1, <2>3, <2>4, <2>7, <2>11, <2>12, <2>13, <3>1 DEF Begins
    <3> QED
      BY <3>2, NewUserView
  <2>15. CallsIn(frames, stack, gs, t, f, h)
    <3>1. PairOK(h, f)
      BY <2>4, <2>5, <2>12 DEF PairOK
    <3>2. \A i \in 1 .. h.bp : t[i] = stack[i]
      BY <2>4, <2>5, <2>7
    <3>3. AtopNative(frames, stack, hs, h, f, t)
      BY <2>5, <2>7, <2>9, <2>12, <3>1, <3>2 DEF AtopNative, hs
    <3> QED
      BY <3>3, AboveTwo
  <2>16. Entering(n, g, k, hs, f, sp, t, h)
    BY <2>1, <2>2, <2>3, <2>5, <2>10, <2>11, <2>14, <2>15 DEF Entering, k
  <2>17. /\ CInv' /\ Abstract!Enter(g, Slots(t, sp + 1, sp + 1 + k),
                                   IF g \in Methods THEN t[sp] ELSE None, Gone(n))
    BY <1>0, <2>16, CallEnters
  <2>18. CInv' /\ Abstract!Enter(g, el, None, Gone(n))
    BY <1>1, <2>10, <2>17
  <2> QED
    BY <1>5, <2>18 DEF g, el
<1> QED
  BY <1>2, <1>3, <1>4, <1>5

(* What a bound method passes on is not its arguments (ArgumentsArrive).   *)
BoundTakeNone == \A b \in DOMAIN BoundTo : Code[BoundTo[b].method].params = 0

LEMMA CallBoundView ==
  ASSUME BoundTakeNone, CInv, NEW n \in Nat, Calling(n), NEW b \in DOMAIN BoundTo,
         ~(n < Code[BoundTo[b].method].required), CallBound(b, n)
  PROVE  CInv' /\ Abstract!Enter(BoundTo[b].method, Args(n), BoundTo[b].receiver, Gone(n))
<1> DEFINE m == BoundTo[b].method
           v == BoundTo[b].receiver
           d == Dest(n)
           bp == d + 1
           sp == Top.sp
           room == Ensure(StackSize(m) + 1, sp)
           f == Frame("user", m, bp, n, room)
           h == Frame("native", b, Dest(n), n, Top.room)
           hs == Append(frames, h)
           gs == Append(hs, f)
           s == Append(stack, Junk)
           w == Write(s, d, v)
           t == Write(w, bp, m)
<1>0. IInv /\ IInv'
  BY CallBoundKeeps DEF CInv
<1>1. /\ m \in DOMAIN Code /\ m \in Memory /\ v \in Memory /\ v \notin Methods /\ Junk \in Memory
      /\ m \in Methods /\ Junk \notin Methods
  BY BoundFacts, MethodsApart
<1>2. Eval(hs, f, t)
  BY DEF CallBound
<1>3. /\ Running /\ d \in Nat /\ sp = d + 1 + n
      /\ stack \in Seq(Memory) /\ Len(stack) = sp /\ sp \in Nat
  BY <1>0, CallFacts
<1>4. h \in FrameRecord /\ h.kind = "native" /\ h.bp = d /\ Links(hs) /\ hs # <<>>
  BY NativeIs
<1>5. Fits(frames, stack)
  BY <1>3, NowView
<1>6. Args(n) \in Seq(Memory) /\ Len(Args(n)) = n
      /\ \A k \in 1 .. n : stack[d + 1 + k] \notin Methods
  <2>1. \A k \in 1 .. n : Args(n)[k] = stack[d + 1 + k] /\ Args(n)[k] \notin Methods
    BY ArgsView
  <2> QED
    BY <2>1, ArgsView
<1>7. Code[m].params = 0 /\ Code[m].required = 0 /\ n >= Code[m].required
      /\ StackSize(m) \in Nat
  <2>1. Code[m].params = 0
    BY DEF BoundTakeNone
  <2> HIDE DEF m
  <2> QED
    BY <1>1, <2>1, CodeFacts
<1> HIDE DEF d, sp, m, v, h, hs
<1>8. /\ s \in Seq(Memory) /\ Len(s) = sp + 1 /\ s[sp + 1] = Junk
      /\ \A i \in 1 .. sp : s[i] = stack[i]
  BY <1>1, <1>3, AppendProperties
<1> HIDE DEF s
<1>9. /\ w \in Seq(Memory) /\ Len(w) = sp + 1 /\ w[d + 1] = v
      /\ \A i \in 1 .. sp + 1 : i # d + 1 => w[i] = s[i]
  <2>1. d < Len(s)
    BY <1>3, <1>8
  <2>2. /\ w \in Seq(Memory) /\ Len(w) = Len(s) /\ w[d + 1] = v
        /\ \A i \in 1 .. Len(s) : i # d + 1 => w[i] = s[i]
    BY <1>1, <1>3, <1>8, <2>1, WriteFacts
  <2> HIDE DEF w
  <2> QED
    BY <1>8, <2>2
<1> HIDE DEF w
<1>10. /\ t \in Seq(Memory) /\ Len(t) = sp + 1 /\ t[bp + 1] = m
       /\ \A i \in 1 .. sp + 1 : i # bp + 1 => t[i] = w[i]
  <2>1. bp \in Nat /\ bp < Len(w)
    BY <1>3, <1>9
  <2>2. /\ t \in Seq(Memory) /\ Len(t) = Len(w) /\ t[bp + 1] = m
        /\ \A i \in 1 .. Len(w) : i # bp + 1 => t[i] = w[i]
    BY <1>1, <1>9, <2>1, WriteFacts
  <2> HIDE DEF t
  <2> QED
    BY <1>9, <2>2
<1> HIDE DEF t
<1>11. /\ t[bp] = v /\ \A i \in 1 .. d : t[i] = stack[i]
  <2>1. d + 1 \in 1 .. sp + 1 /\ d + 1 # bp + 1
    BY <1>3
  <2>2. t[bp] = v
    BY <1>9, <1>10, <2>1
  <2>3. ASSUME NEW i \in 1 .. d PROVE t[i] = stack[i]
    <3>1. i \in 1 .. sp + 1 /\ i \in 1 .. sp /\ i # d + 1 /\ i # bp + 1
      BY <1>3
    <3> QED
      BY <1>8, <1>9, <1>10, <3>1
  <2> QED
    BY <2>2, <2>3
<1>12. \A i \in bp + 1 .. bp + n : t[i + 1] \notin Methods
  <2> SUFFICES ASSUME NEW i \in bp + 1 .. bp + n PROVE t[i + 1] \notin Methods
    OBVIOUS
  <2> DEFINE j == i + 1
             k == i - d
  <2>1. j \in 1 .. sp + 1 /\ j # d + 1 /\ j # bp + 1 /\ j = d + 1 + k /\ k \in Nat /\ k > 0
        /\ (j = sp + 1 \/ (j \in 1 .. sp /\ k \in 1 .. n))
    BY <1>3
  <2> HIDE DEF j, k
  <2>2. t[j] = s[j]
    BY <1>9, <1>10, <2>1
  <2>3. CASE j = sp + 1
    BY <1>1, <1>8, <2>2, <2>3 DEF j
  <2>4. CASE j \in 1 .. sp /\ k \in 1 .. n
    <3>1. s[j] = stack[j] /\ stack[d + 1 + k] \notin Methods
      BY <1>6, <1>8, <2>4
    <3> QED
      BY <2>1, <2>2, <3>1 DEF j
  <2> QED
    BY <2>1, <2>3, <2>4
<1>13. room = sp + (StackSize(m) + 1)
  BY DEF Ensure
<1> HIDE DEF room
<1>14. bp = d + 1 /\ room \in Nat /\ room >= bp + 1 + n + StackSize(m) /\ bp > 0 /\ bp \in Nat
       /\ Len(t) = bp + 1 + n
  BY <1>3, <1>7, <1>10, <1>13
<1> HIDE DEF bp
<1>15. /\ f \in FrameRecord /\ FrameOK(f) /\ f.kind = "user" /\ f.bp = bp /\ f.sp = bp + 1 + n
  <2>1. /\ m \in DOMAIN Code /\ bp \in Nat /\ n \in Nat /\ n >= Code[m].required
        /\ room \in Nat /\ room >= bp + 1 + n + StackSize(m) /\ bp > 0
    BY <1>1, <1>7, <1>14
  <2> QED
    BY <2>1, NewUser
<1>16. f = Frame("user", m, bp, n, room)
  OBVIOUS
<1> HIDE DEF f
<1>17. Begun(f, m, bp, n, t)
  <2>1. Begins(f, m, bp, n, t)
    BY <1>1, <1>7, <1>10, <1>11, <1>12, <1>14, <1>15, <1>16 DEF Begins
  <2> QED
    BY <2>1, NewUserView
<1>18. CallsIn(frames, stack, gs, t, f, h)
  <2>1. PairOK(h, f)
    BY <1>3, <1>4, <1>14, <1>15 DEF PairOK
  <2>2. /\ \A i \in 1 .. h.bp : t[i] = stack[i]
        /\ f.kind # "native" /\ f.sp <= Len(t)
    BY <1>4, <1>11, <1>14, <1>15
  <2>3. AtopNative(frames, stack, hs, h, f, t)
    BY <1>4, <1>5, <1>10, <1>15, <2>1, <2>2 DEF AtopNative, hs
  <2> QED
    BY <2>3, AboveTwo
<1> DEFINE args == Slots(t, bp + 1, bp + 1 + n)
<1>19. args \in Seq(Memory) /\ Len(args) = n
  <2> DEFINE i == bp + 1
             j == bp + 1 + n
  <2>1. i \in Nat /\ j \in Nat /\ i <= j /\ j <= Len(t) /\ j - i = n
    BY <1>14
  <2> HIDE DEF i, j
  <2>2. Slots(t, i, j) \in Seq(Memory) /\ Len(Slots(t, i, j)) = j - i
    BY <1>10, <2>1, SlotsFacts
  <2> QED
    BY <2>1, <2>2 DEF i, j
<1>20. Entering(n, m, n, hs, f, bp, t, h)
  <2>1. h.kind # "script" /\ h.bp = Dest(n)
    BY <1>4 DEF d
  <2> QED
    BY <1>1, <1>2, <1>7, <1>17, <1>18, <1>19, <2>1 DEF Entering
<1>21. CInv' /\ Abstract!Enter(m, args, IF m \in Methods THEN t[bp] ELSE None, Gone(n))
  BY <1>0, <1>20, CallEnters
<1> HIDE DEF args
<1>22. Abstract!Enter(m, args, v, Gone(n))
  BY <1>1, <1>11, <1>21
<1> DEFINE mine == Args(n)
<1>23. mine \in Seq(Memory) /\ Len(mine) = n
  BY <1>6
<1> HIDE DEF mine
<1>24. /\ (IF Len(args) > Code[m].params THEN SubSeq(args, 1, Code[m].params) ELSE args) = <<>>
       /\ (IF Len(mine) > Code[m].params THEN SubSeq(mine, 1, Code[m].params) ELSE mine) = <<>>
  <2>1. ASSUME NEW q \in Seq(Memory), Len(q) = n
        PROVE  (IF Len(q) > Code[m].params THEN SubSeq(q, 1, Code[m].params) ELSE q) = <<>>
    <3>1. CASE n > 0
      <4>1. SubSeq(q, 1, 0) = <<>>
        BY <2>1, SubSeqProperties, EmptySeq
      <4> QED
        BY <1>7, <2>1, <3>1, <4>1
    <3>2. CASE n = 0
      <4>1. q = <<>>
        BY <2>1, <3>2, EmptySeq
      <4> QED
        BY <1>7, <2>1, <3>2, <4>1
    <3> QED
      BY <3>1, <3>2
  <2> QED
    BY <1>19, <1>23, <2>1
<1>25. Abstract!Enter(m, mine, v, Gone(n))
  BY <1>19, <1>22, <1>23, <1>24 DEF Abstract!Enter
<1> QED
  BY <1>21, <1>25 DEF mine, m, v

LEMMA DoCallView ==
  ASSUME BoundTakeNone, CInv, NEW n \in Nat, Calling(n), DoCall(n)
  PROVE  CInv' /\ Abstract!CallOf(Slot(Dest(n)), Args(n), This(n), Gone(n))
<1> DEFINE fn == Slot(Dest(n))
           args == Args(n)
           this == This(n)
           gone == Gone(n)
           m == BoundTo[fn].method
<1>0. IInv /\ IInv'
  BY DoCallKeeps DEF CInv
<1>1. Len(args) = n /\ Running
  BY ArgsView DEF Calling, Computing
<1>2. fn \in Abstract!Callable <=> fn \in DOMAIN Code \/ fn \in DOMAIN BoundTo
  BY DEF Abstract!Callable
<1>3. ASSUME Refuse PROVE CInv' /\ Abstract!Fail(Now, Error, <<>>)
  BY <1>0, <1>1, <1>3, RefuseView
<1>4. CASE fn \in DOMAIN BoundTo
  <2>1. CASE n < Code[m].required
    <3>1. CInv' /\ Abstract!Fail(Now, Error, <<>>)
      BY <1>3, <1>4, <2>1 DEF DoCall
    <3>2. Abstract!Enter(m, args, BoundTo[fn].receiver, gone)
      BY <1>1, <2>1, <3>1 DEF Abstract!Enter, Now
    <3> QED
      BY <1>2, <1>4, <3>1, <3>2 DEF Abstract!CallOf
  <2>2. CASE ~(n < Code[m].required)
    <3>1. CallBound(fn, n)
      BY <1>4, <2>2 DEF DoCall
    <3> HIDE DEF fn
    <3>2. CInv' /\ Abstract!Enter(m, args, BoundTo[fn].receiver, gone)
      BY <1>4, <2>2, <3>1, CallBoundView
    <3>3. Abstract!CallOf(fn, args, this, gone)
      BY <1>2, <1>4, <3>2 DEF Abstract!CallOf
    <3> QED
      BY <3>2, <3>3 DEF fn
  <2> QED
    BY <2>1, <2>2
<1>5. CASE fn \notin DOMAIN BoundTo /\ (fn \notin DOMAIN Code \/ n < Code[fn].required)
  <2>1. CInv' /\ Abstract!Fail(Now, Error, <<>>)
    BY <1>3, <1>5 DEF DoCall
  <2> QED
    BY <1>1, <1>2, <1>5, <2>1 DEF Abstract!CallOf, Now
<1>6. CASE fn \notin DOMAIN BoundTo /\ ~(fn \notin DOMAIN Code \/ n < Code[fn].required)
  <2>1. fn \in DOMAIN Code /\ Code[fn].kind \in {"user", "native", "apply"}
        /\ (Code[fn].kind = "apply" => Code[fn].required = 2)
        /\ Code[fn].required \in Nat
    <3> HIDE DEF fn
    <3>1. fn \in DOMAIN Code
      BY <1>6
    <3>2. Code[fn].required \in Nat
      BY <3>1, CodeFacts
    <3> QED
      BY <3>1, <3>2, ConstantsAssumption
  <2>2. n >= Code[fn].required
    BY <1>6, <2>1
  <2>3. CASE Code[fn].kind = "user"
    <3>1. CallUser(fn, n)
      BY <1>6, <2>3 DEF DoCall
    <3>2. fn = Slot(Dest(n))
      OBVIOUS
    <3> HIDE DEF fn
    <3>3. CInv' /\ Abstract!Enter(fn, args, this, gone)
      BY <2>1, <2>2, <3>1, <3>2, CallUserView
    <3>4. Abstract!CallOf(fn, args, this, gone)
      BY <1>1, <1>2, <1>6, <2>3, <3>3 DEF Abstract!CallOf
    <3> QED
      BY <3>3, <3>4 DEF fn
  <2>4. CASE Code[fn].kind = "native"
    <3>1. CallNative(n)
      BY <1>6, <2>4 DEF DoCall
    <3>2. CInv' /\ Abstract!Answer(gone)
      BY <3>1, CallNativeView
    <3> HIDE DEF fn
    <3>3. Abstract!CallOf(fn, args, this, gone)
      BY <1>1, <1>2, <1>6, <2>4, <3>2 DEF Abstract!CallOf
    <3> QED
      BY <3>2, <3>3 DEF fn
  <2>5. CASE Code[fn].kind = "apply"
    <3>1. Apply(n)
      BY <1>6, <2>5 DEF DoCall
    <3>2. n >= 2
      BY <2>1, <2>2, <2>5
    <3>3. /\ CInv'
          /\ IF args[1] \notin DOMAIN Code \/ args[2] \notin DOMAIN Elements
             THEN Abstract!Fail(Now, Error, <<>>)
             ELSE IF Code[args[1]].kind # "user" THEN Abstract!Answer(gone)
             ELSE Abstract!Enter(args[1], Elements[args[2]], None, gone)
      BY <3>1, <3>2, ApplyView
    <3> HIDE DEF fn, args
    <3>4. Abstract!CallOf(fn, args, this, gone)
      BY <1>1, <1>2, <1>6, <2>5, <3>3 DEF Abstract!CallOf, Now
    <3> QED
      BY <3>3, <3>4 DEF fn, args
  <2> QED
    BY <2>1, <2>3, <2>4, <2>5
<1> QED
  BY <1>4, <1>5, <1>6

LEMMA CallView == ASSUME BoundTakeNone, CInv, NEW n \in 0 .. MaxArgs, Call(n) PROVE StepOK
<1> DEFINE ops == TopAct.operands
           m == Len(ops)
<1>1. n \in Nat /\ Calling(n) /\ DoCall(n) /\ Holds(n + 1)
  BY BoundsAssumption DEF Call, Calling
<1>2. Running /\ Dest(n) >= Floor(Top) /\ ~Opens(n)
  <2>1. /\ Running /\ Dest(n) \in Nat /\ Top.sp = Dest(n) + 1 + n
        /\ (Dest(n) >= Floor(Top) => ~Opens(n))
    BY <1>1, DestView
  <2>2. Floor(Top) \in Nat
    BY <2>1, TopView, FrameFacts
  <2> DEFINE k == Floor(Top)
             d == Dest(n)
  <2>3. Top.sp - k >= n + 1
    BY <1>1 DEF Holds
  <2> HIDE DEF k, d
  <2>4. d >= k
    BY <1>1, <2>1, <2>2, <2>3 DEF k, d
  <2> QED
    BY <2>1, <2>4 DEF k, d
<1>3. CInv' /\ Abstract!CallOf(Slot(Dest(n)), Args(n), This(n), Gone(n))
  BY <1>1, DoCallView
<1>4. This(n) = None /\ Gone(n) = n + 1
  BY <1>2 DEF This, Gone
<1>5. m \in Nat /\ n < m /\ ops[m - n] = Slot(Dest(n)) /\ Abstract!Lasts(ops, n) = Args(n)
  BY <1>1, CallingView
<1>6. Last(Now) = TopAct /\ Now # <<>> /\ error = None
  BY <1>2, NowView DEF Running
<1>7. Abstract!Operands = ops
  BY <1>6, AbstractOperators DEF Abstract!Operands, Abstract!Innermost, Now
<1> HIDE DEF ops
<1>8. Abstract!Call(n)
  BY <1>3, <1>4, <1>5, <1>7 DEF Abstract!Call
<1>9. ops # <<>> /\ n \in 0 .. m - 1
  <2>1. Len(<<>>) = 0
    BY EmptySeq
  <2> QED
    BY <1>1, <1>5, <2>1
<1> QED
  BY <1>3, <1>6, <1>7, <1>8, <1>9 DEF StepOK, Abstract!Next, Abstract!Run, Now

LEMMA CallMethodView ==
  ASSUME BoundTakeNone, CInv, NEW n \in 0 .. MaxArgs, CallMethod(n) PROVE StepOK
<1> DEFINE ops == TopAct.operands
           m == Len(ops)
<1>1. n \in Nat /\ Calling(n) /\ DoCall(n) /\ Opens(n) /\ Running
  BY BoundsAssumption DEF CallMethod, Calling, Opens, Computing
<1>2. CInv' /\ Abstract!CallOf(Slot(Dest(n)), Args(n), This(n), Gone(n))
  BY <1>1, DoCallView
<1>3. Gone(n) = n + 2
  BY <1>1 DEF Gone
<1>4. /\ m \in Nat /\ n + 1 < m /\ ops[m - n] = Slot(Dest(n)) /\ Abstract!Lasts(ops, n) = Args(n)
      /\ ops[m - n - 1] = This(n) /\ This(n) \in DOMAIN MethodOf
      /\ Slot(Dest(n)) = MethodOf[This(n)]
  BY <1>1, CallingView
<1>5. Last(Now) = TopAct /\ Now # <<>> /\ error = None
  BY <1>1, NowView DEF Running
<1>6. Abstract!Operands = ops
  BY <1>5, AbstractOperators DEF Abstract!Operands, Abstract!Innermost, Now
<1> HIDE DEF ops
<1>7. Abstract!CallMethod(n)
  BY <1>2, <1>3, <1>4, <1>6 DEF Abstract!CallMethod
<1>8. ops # <<>> /\ n \in 0 .. m - 1
  <2>1. Len(<<>>) = 0
    BY EmptySeq
  <2> QED
    BY <1>1, <1>4, <2>1
<1> QED
  BY <1>2, <1>5, <1>6, <1>7, <1>8 DEF StepOK, Abstract!Next, Abstract!Run, Now
-----------------------------------------------------------------------------
(* The body of a module.                                                   *)
LEMMA ImportModuleView == ASSUME CInv, ImportModule PROVE StepOK
<1> DEFINE sp == Top.sp
           f == Frame("script", None, sp, 0, Ensure(StackSize(None), sp))
           gs == Append(frames, f)
           a == ActivationOf(Top, stack, End(Top, Callee(frames, gs)))
           b == ActivationOf(f, stack, f.sp)
           all == Append(Append(Front(Now), a), b)
<1>0. IInv /\ IInv'
  BY ImportModuleKeeps DEF CInv
<1>1. Statement /\ Eval(frames, f, stack)
  BY DEF ImportModule
<1>2. /\ Running /\ stack \in Seq(Memory) /\ Len(stack) = sp /\ sp \in Nat
      /\ Top.kind # "native"
  BY <1>0, <1>1, StatementFacts
<1>3. /\ Fits(frames, stack) /\ Top = Last(frames) /\ Now = Append(Front(Now), TopAct)
      /\ error = None /\ Now \in Acts /\ Len(Now) \in Nat /\ Now # <<>>
  BY <1>2, NowView DEF Running
<1>4. /\ f \in FrameRecord /\ FrameOK(f) /\ f.kind = "script" /\ f.bp = sp /\ f.sp = sp
      /\ f.tries = 0
  BY <1>2, NewScript
<1>5. f.fn = None /\ f.body /\ f.num = 0
  BY DEF Frame
<1> HIDE DEF f
<1>6. Atop(frames, stack, f, stack)
  <2>1. PairOK(Last(frames), f)
    BY <1>2, <1>3, <1>4 DEF PairOK
  <2> QED
    BY <1>2, <1>3, <1>4, <2>1 DEF Atop
<1>7. Above(frames, stack, gs, stack) /\ Last(gs) = f /\ Callee(frames, gs) = f
  BY <1>6, AboveOne DEF CallsIn
<1>8. f.sp = Base(f) /\ Clean(f, stack, f.sp)
  <2>1. Base(f) = sp
    BY <1>4, BaseIs
  <2>2. None \notin Methods
    BY MethodsApart, ConstantsAssumption
  <2>3. /\ \A i : ~(i \in f.bp + 1 .. Base(f) - 1) /\ ~(i \in Base(f) .. f.sp - 1)
    BY <1>2, <1>4, <2>1
  <2> QED
    BY <1>4, <1>5, <2>1, <2>2, <2>3 DEF Clean
<1>9. a = TopAct
  <2>1. End(Top, f) = sp
    BY <1>4 DEF End
  <2> QED
    BY <1>7, <2>1 DEF TopAct
<1>10. b = Abstract!Script
  <2>1. Variables(f) = 0
    BY <1>5 DEF Variables
  <2>2. Slots(stack, f.bp + 1, f.bp + 1 + Variables(f)) = <<>>
    BY <1>2, <1>4, <2>1, NoSlots
  <2>3. Slots(stack, Base(f), f.sp) = <<>>
    BY <1>2, <1>4, <1>8, NoSlots
  <2>4. None \notin Methods
    BY MethodsApart, ConstantsAssumption
  <2> QED
    BY <1>4, <1>5, <2>2, <2>3, <2>4 DEF ActivationOf, Abstract!Script, Abstract!Activation
<1>11. /\ CInv' /\ all \in Acts /\ Len(all) = eval_depth + 1
       /\ IF eval_depth + 1 >= EvalLimit THEN Abstract!Fail(all, Error, <<>>)
          ELSE ActsOf(frames', stack', error') = all /\ error' = None
  BY <1>0, <1>1, <1>2, <1>4, <1>7, <1>8, EvalView
<1>12. all = Append(Now, Abstract!Script)
  BY <1>3, <1>9, <1>10
<1> HIDE DEF all
<1>13. Abstract!Import
  BY <1>3, <1>11, <1>12 DEF Abstract!Import, Now
<1> QED
  BY <1>3, <1>11, <1>13 DEF StepOK, Abstract!Next, Abstract!Run, Now

(* The frames that called the innermost one, on the slots they had.        *)
Padded(s, n) == s \o [i \in 1 .. n |-> Junk]
CalledAt == IF Top.kind = "script" THEN Top.bp ELSE CallerDest

LEMMA CalleeFacts ==
  ASSUME CInv, frames # <<>>, Callers # <<>>, NEW c, c = Callee(Callers, frames)
  PROVE  /\ Links(Callers) /\ Len(Callers) < Len(frames)
         /\ \A d \in 1 .. Len(Callers) : frames[d] = Callers[d]
         /\ \A d \in Len(Callers) + 1 .. Len(frames) - 1 : frames[d].kind = "native"
         /\ c.bp = CalledAt /\ (c.kind = "script" <=> Top.kind = "script")
         /\ CalledAt \in Nat /\ CalledAt <= Top.bp /\ CalledAt <= Top.sp
         /\ PairOK(Last(Callers), c) /\ c \in FrameRecord
<1>1. IInv /\ Fits(frames, stack)
  BY FramesFit DEF CInv
<1>2. /\ Links(frames) /\ frames \in Seq(FrameRecord) /\ Len(frames) \in Nat /\ Len(frames) > 0
      /\ DOMAIN frames = 1 .. Len(frames) /\ Top = frames[Len(frames)] /\ Evaluates(Top)
  BY <1>1, FitsFacts DEF Top
<1>3. Top \in FrameRecord /\ Top.bp \in Nat /\ Top.sp \in Nat /\ Top.bp <= Top.sp
      /\ Top.kind \in {"user", "script"}
  <2>1. Top.bp \in Nat /\ Top.sp \in Nat /\ Base(Top) \in Nat /\ Top.bp <= Base(Top)
        /\ Base(Top) <= Top.sp /\ Top.kind \in {"user", "script"}
    BY <1>2, EvaluatesFacts
  <2> QED
    BY <1>2, <2>1 DEF Evaluates
<1>4. /\ Below \in Seq(FrameRecord) /\ Len(Below) = Len(frames) - 1
      /\ \A d \in 1 .. Len(frames) - 1 : Below[d] = frames[d]
  <2>1. Below \in Seq(FrameRecord) /\ Len(Below) = Len(frames) - 1
    BY <1>1, <1>2, FrontOf DEF Below
  <2>2. \A d \in 1 .. Len(frames) - 1 : Below[d] = frames[d]
    BY <1>2 DEF Below, Front
  <2> QED
    BY <2>1, <2>2
<1>5. CASE Native
  <2>1. Below # <<>> /\ Last(Below).kind = "native" /\ Callers = Front(Below)
        /\ CallerDest = Last(Below).bp
    BY <1>5 DEF Native, Callers, CallerDest
  <2>2. /\ Top.kind = "user" /\ Links(Callers) /\ PairOK(Last(Callers), Last(Below))
        /\ Last(Below).bp \in Nat /\ Last(Below).bp < Top.bp
    BY <1>1, <1>5, CallersFacts
  <2>3. /\ Callers \in Seq(FrameRecord) /\ Len(Callers) = Len(Below) - 1 /\ Len(Below) \in Nat
        /\ Len(Below) > 0 /\ Last(Below) = Below[Len(Below)] /\ Last(Below) \in FrameRecord
    BY <1>4, <2>1, FrontOf
  <2>4. \A d \in 1 .. Len(Callers) : Callers[d] = Below[d]
    BY <1>4, <2>1, <2>3 DEF Front
  <2> DEFINE m == Len(Callers)
  <2>5. m + 1 = Len(Below) /\ Len(Below) = Len(frames) - 1 /\ m \in Nat
    BY <1>4, <2>3
  <2>6. c = Last(Below)
    BY <1>4, <2>3, <2>5 DEF Callee
  <2>7. \A d \in 1 .. m : frames[d] = Callers[d]
    BY <1>4, <2>4, <2>5
  <2>8. \A d \in m + 1 .. Len(frames) - 1 : frames[d].kind = "native"
    <3>1. \A d \in m + 1 .. Len(frames) - 1 : d = m + 1
      BY <2>5
    <3>2. frames[m + 1] = Last(Below)
      BY <1>4, <2>3, <2>5
    <3> QED
      BY <2>1, <3>1, <3>2
  <2>9. CalledAt = Last(Below).bp /\ c.kind # "script"
    BY <2>1, <2>2, <2>6 DEF CalledAt
  <2>10. m < Len(frames)
    BY <2>5
  <2>11. CalledAt \in Nat /\ CalledAt <= Top.bp /\ CalledAt <= Top.sp
    BY <1>3, <2>2, <2>9
  <2> QED
    BY <2>2, <2>3, <2>6, <2>7, <2>8, <2>9, <2>10, <2>11
<1>6. CASE ~Native
  <2>1. Callers = Below /\ CallerDest = Top.bp
    BY <1>6 DEF Callers, CallerDest
  <2>2. Links(Callers) /\ PairOK(Last(Callers), Top)
    BY <1>1, <1>6, <2>1, CallersFacts
  <2>3. c = Top /\ CalledAt = Top.bp
    BY <1>2, <1>4, <2>1 DEF Callee, CalledAt
  <2>4. /\ Len(Callers) < Len(frames)
        /\ \A d \in 1 .. Len(Callers) : frames[d] = Callers[d]
        /\ \A d : ~(d \in Len(Callers) + 1 .. Len(frames) - 1)
    BY <1>2, <1>4, <2>1
  <2> QED
    BY <1>3, <2>2, <2>3, <2>4
<1> QED
  BY <1>5, <1>6

(* What is suspended: the caller f of the callee c, the slots p, the end   *)
(* of its operands, its activation a, and those up to it.                  *)
Suspends(f, c, p, end, a, as) ==
  /\ f = Last(Callers) /\ c = Callee(Callers, frames) /\ p = Padded(stack, f.sp)
  /\ end = End(f, c) /\ a = ActivationOf(f, p, end) /\ as = ActsOf(Callers, p, None)

CallersSeen(f, p, end, a, as) ==
  /\ Fits(Callers, p) /\ p \in Seq(Memory)
  /\ Len(stack) <= Len(p) /\ \A i \in 1 .. Len(stack) : p[i] = stack[i]
  /\ CleanUnder(Callers, p) /\ Clean(f, p, end)
  /\ f \in FrameRecord /\ FrameOK(f) /\ f.kind # "native" /\ Evaluates(f)
  /\ end \in Nat /\ Base(f) <= end /\ end <= CalledAt /\ end <= Len(stack)
  /\ as \in Acts /\ Front(as) \in Acts /\ a \in ActType
  /\ Now \in Acts /\ Now # <<>> /\ Len(Now) = Len(as) + 1 /\ Len(as) > 0
  /\ Front(Now) = Append(Front(as), a)
  /\ Last(Now) = ActivationOf(Top, stack, EndOf(frames, error, Len(frames)))
  /\ Front(Front(Now)) = Front(as) /\ Last(Front(Now)) = a

LEMMA CallersView ==
  ASSUME CInv, frames # <<>>, Callers # <<>>, NEW f, NEW c, NEW p, NEW end, NEW a, NEW as,
         Suspends(f, c, p, end, a, as)
  PROVE  CallersSeen(f, p, end, a, as)
<1>0. /\ f = Last(Callers) /\ c = Callee(Callers, frames) /\ p = Padded(stack, f.sp)
      /\ end = End(f, c) /\ a = ActivationOf(f, p, end) /\ as = ActsOf(Callers, p, None)
  BY DEF Suspends
<1>1. IInv /\ Fits(frames, stack) /\ CleanUnder(frames, stack)
  BY FramesFit, TopClean DEF CInv
<1>2. /\ Links(Callers) /\ Len(Callers) < Len(frames)
      /\ \A d \in 1 .. Len(Callers) : frames[d] = Callers[d]
      /\ \A d \in Len(Callers) + 1 .. Len(frames) - 1 : frames[d].kind = "native"
      /\ c.bp = CalledAt /\ CalledAt \in Nat /\ CalledAt <= Top.sp
      /\ PairOK(f, c) /\ c \in FrameRecord
  BY <1>0, CalleeFacts
<1>3. f \in FrameRecord /\ FrameOK(f) /\ f.kind # "native" /\ f.sp \in Nat
  BY <1>0, <1>1, CallersFacts DEF FrameRecord
<1>4. stack \in Seq(Memory) /\ Len(stack) = Top.sp /\ Len(stack) \in Nat
  BY <1>1, TopEvaluates, FitsFacts
<1>5. /\ p \in Seq(Memory) /\ Len(p) = Len(stack) + f.sp
      /\ \A i \in 1 .. Len(stack) : p[i] = stack[i]
  <2> DEFINE q == [i \in 1 .. f.sp |-> Junk]
  <2>1. q \in Seq(Memory) /\ Len(q) = f.sp
    BY <1>3, MethodsApart
  <2>2. p = stack \o q
    BY <1>0 DEF Padded
  <2> HIDE DEF q
  <2> DEFINE x == stack \o q
  <2>3. /\ x \in Seq(Memory) /\ Len(x) = Len(stack) + Len(q)
        /\ \A i \in 1 .. Len(stack) : x[i] = stack[i]
    BY <1>4, <2>1, JoinFacts
  <2> HIDE DEF x
  <2> QED
    BY <2>1, <2>2, <2>3 DEF x
<1>6. Fits(Callers, p)
  BY <1>0, <1>2, <1>3, <1>4, <1>5 DEF Fits, Chain
<1>7. Above(Callers, p, frames, stack)
  <2>1. \A i \in 1 .. c.bp : stack[i] = p[i]
    BY <1>2, <1>4, <1>5
  <2>2. c = frames[Len(Callers) + 1]
    BY <1>0 DEF Callee
  <2> QED
    BY <1>1, <1>2, <1>6, <2>1, <2>2 DEF Above
<1>8. CleanUnder(Callers, p) /\ Clean(f, p, end)
  <2>1. CleanUnder(Callers, p) /\ Clean(Last(Callers), p, End(Last(Callers), Callee(Callers, frames)))
    BY <1>1, <1>7, AboveClean
  <2> QED
    BY <1>0, <2>1
<1>9. Evaluates(f)
  BY <1>3 DEF Evaluates, FrameOK
<1>10. end \in Nat /\ Base(f) <= end /\ end <= CalledAt /\ end <= Len(stack)
  <2>1. end \in Nat /\ Base(f) <= end /\ end <= c.bp
    BY <1>0, <1>2, <1>9, EndFacts
  <2> QED
    BY <1>2, <1>4, <2>1
<1> DEFINE b == ActivationOf(Top, stack, EndOf(frames, error, Len(frames)))
<1>11. Stacked(as, a, Now, b)
  <2>1. Stacked(ActsOf(Callers, p, None),
                ActivationOf(Last(Callers), p, End(Last(Callers), Callee(Callers, frames))),
                ActsOf(frames, stack, error),
                ActivationOf(Last(frames), stack, EndOf(frames, error, Len(frames))))
    BY <1>7, AboveActs
  <2> QED
    BY <1>0, <2>1 DEF Now, Top
<1>12. as \in Acts /\ Front(as) \in Acts /\ Len(as) \in Nat /\ Len(as) > 0
  BY <1>0, <1>7, ActsAbove
<1>13. /\ Now \in Acts /\ Len(Now) = Len(as) + 1 /\ a \in ActType
       /\ Front(Now) = Append(Front(as), a) /\ Last(Now) = b
  BY <1>11 DEF Stacked
<1>14. Front(Front(Now)) = Front(as) /\ Last(Front(Now)) = a
  <2> DEFINE h == Front(as)
  <2>1. h \in Seq(ActType)
    BY <1>12 DEF Acts
  <2> HIDE DEF h
  <2>2. Front(Append(h, a)) = h /\ Last(Append(h, a)) = a
    BY <1>13, <2>1, SeqAppended
  <2> QED
    BY <1>13, <2>2 DEF h
<1>15. Now # <<>>
  <2>1. Len(<<>>) = 0
    OBVIOUS
  <2> DEFINE n == Len(as)
             m == Len(Now)
  <2>2. n \in Nat /\ m = n + 1
    BY <1>12, <1>13
  <2> HIDE DEF n, m
  <2>3. m # 0
    BY <2>2
  <2> QED
    BY <2>1, <2>3 DEF m
<1>16. f.kind # "native" /\ Evaluates(f) /\ Last(Now) = b
  BY <1>3, <1>9, <1>13
<1>17. Len(stack) <= Len(p)
  BY <1>3, <1>4, <1>5
<1> HIDE DEF b
<1>18. Last(Now) = ActivationOf(Top, stack, EndOf(frames, error, Len(frames)))
  BY <1>16 DEF b
<1> QED
  <2>1. /\ Fits(Callers, p) /\ p \in Seq(Memory)
        /\ Len(stack) <= Len(p) /\ \A i \in 1 .. Len(stack) : p[i] = stack[i]
        /\ CleanUnder(Callers, p) /\ Clean(f, p, end)
    BY <1>5, <1>6, <1>8, <1>17
  <2>2. f \in FrameRecord /\ FrameOK(f) /\ f.kind # "native" /\ Evaluates(f)
    BY <1>3, <1>9, <1>16
  <2>3. /\ end \in Nat /\ Base(f) <= end /\ end <= CalledAt /\ end <= Len(stack)
        /\ as \in Acts /\ Front(as) \in Acts /\ a \in ActType
    BY <1>10, <1>12, <1>13
  <2>4. /\ Now \in Acts /\ Now # <<>> /\ Len(Now) = Len(as) + 1 /\ Len(as) > 0
        /\ Front(Now) = Append(Front(as), a)
    BY <1>12, <1>13, <1>15
  <2> QED
    BY <2>1, <2>2, <2>3, <2>4, <1>14, <1>18 DEF CallersSeen

LEMMA HaltView == ASSUME CInv, Halt PROVE StepOK
<1>0. IInv /\ IInv'
  BY HaltKeeps DEF CInv
<1>1. /\ Running /\ frames # <<>> /\ error = None /\ error' = None /\ Top.kind = "script"
      /\ frames' = Below /\ stack' = Cut(stack, Top.bp)
  BY DEF Halt, Statement, InBody, Running
<1>2. /\ Callers = Below /\ Top.bp \in Nat /\ Top.bp <= Top.sp
      /\ Below # <<>> => Last(Below).sp = Top.bp
      /\ Below # <<>> => Last(Below).kind # "native"
  BY <1>0, <1>1, ScriptFacts DEF Native
<1>3. /\ Last(Now) = TopAct /\ Now \in Acts /\ Len(Now) = eval_depth /\ Len(Now) \in Nat
      /\ Now # <<>>
  BY <1>1, NowView
<1>4. TopAct.fn = None
  <2>1. Top.fn = None
    BY <1>1, TopView DEF EvaluatesOK, ScriptOK
  <2> QED
    BY <2>1 DEF TopAct, ActivationOf
<1>5. ASSUME CInv', ActsOf(frames', stack', error') = Front(Now) PROVE StepOK
  BY <1>1, <1>3, <1>4, <1>5, AbstractOperators
     DEF StepOK, Abstract!Next, Abstract!Run, Abstract!Halt, Abstract!Innermost, Now
<1>6. CASE Below = <<>>
  <2>1. frames' = <<>> /\ Evaluators(<<>>) = {}
    BY <1>1, <1>6 DEF Evaluators
  <2>2. Cardinality({}) = 0
    BY FS_EmptySet
  <2>3. CleanAll(frames', stack', error') /\ ActsOf(frames', stack', error') = <<>>
    BY <2>1, <2>2 DEF CleanAll, ActsOf
  <2>4. Len(Now) = 1
    <3>1. Cardinality(Evaluators(Callers)) = eval_depth - 1
      BY <1>0, <1>1, CallersFacts
    <3>2. Cardinality(Evaluators(Callers)) = 0
      BY <1>2, <1>6, <2>1, <2>2
    <3> DEFINE n == Len(Now)
    <3>3. n = eval_depth /\ n \in Nat /\ eval_depth - 1 = 0
      BY <1>3, <3>1, <3>2
    <3>4. n = 1
      BY <3>3
    <3> QED
      BY <3>4
  <2>5. Front(Now) = <<>>
    <3> DEFINE x == Front(Now)
    <3>1. x \in Seq(ActType) /\ Len(x) = 0
      BY <1>3, <2>4, FrontOf DEF Acts
    <3> HIDE DEF x
    <3>2. x = <<>>
      BY <3>1, EmptySeq
    <3> QED
      BY <3>2 DEF x
  <2> QED
    BY <1>0, <1>5, <2>3, <2>5 DEF CInv
<1>7. CASE Below # <<>>
  <2> DEFINE f == Last(Callers)
             c == Callee(Callers, frames)
             p == Padded(stack, f.sp)
             end == End(f, c)
             a == ActivationOf(f, p, end)
             as == ActsOf(Callers, p, None)
  <2>1. Callers # <<>> /\ f.sp = Top.bp
    BY <1>2, <1>7
  <2>2. Suspends(f, c, p, end, a, as)
    BY DEF Suspends
  <2>3. c.bp = CalledAt /\ c.kind = "script" /\ CalledAt = Top.bp
    BY <1>1, <2>1, CalleeFacts DEF CalledAt
  <2>4. end = f.sp
    BY <2>1, <2>3 DEF End
  <2>5. Callers = Append(Front(Callers), f) /\ Callers # <<>> /\ frames' = Callers
    <3>1. Links(Callers) /\ Callers # <<>>
      BY <2>1, <1>1, <1>0, CallersFacts
    <3>2. Callers \in Seq(FrameRecord)
      BY <3>1 DEF Links
    <3> QED
      BY <1>1, <1>2, <3>1, <3>2 DEF Front, Last
  <2> HIDE DEF f, c, p, end, a, as
  <2>6. /\ Fits(Callers, p) /\ p \in Seq(Memory)
        /\ Len(stack) <= Len(p) /\ \A i \in 1 .. Len(stack) : p[i] = stack[i]
        /\ CleanUnder(Callers, p) /\ Clean(f, p, end)
        /\ f \in FrameRecord /\ FrameOK(f) /\ f.kind # "native" /\ Evaluates(f)
        /\ end \in Nat /\ Base(f) <= end /\ end <= CalledAt /\ end <= Len(stack)
        /\ as \in Acts /\ Front(as) \in Acts /\ a \in ActType
        /\ Front(Now) = Append(Front(as), a)
    <3>1. CallersSeen(f, p, end, a, as)
      BY <1>1, <2>1, <2>2, CallersView
    <3> QED
      BY <3>1 DEF CallersSeen
  <2>7. stack \in Seq(Memory) /\ Len(stack) \in Nat
    BY <1>1, TopView
  <2>8. stack' = Cut(p, f.sp)
    <3> DEFINE n == f.sp
    <3>1. n \in Nat /\ n <= Len(stack) /\ n <= Len(p) /\ Len(p) \in Nat
      BY <2>4, <2>6, <2>7, LenProperties
    <3> HIDE DEF n
    <3>2. /\ Cut(p, n) \in Seq(Memory) /\ Len(Cut(p, n)) = n /\ \A i \in 1 .. n : Cut(p, n)[i] = p[i]
      BY <2>6, <3>1, CutFacts
    <3>3. /\ Cut(stack, n) \in Seq(Memory) /\ Len(Cut(stack, n)) = n
          /\ \A i \in 1 .. n : Cut(stack, n)[i] = stack[i]
      BY <2>7, <3>1, CutFacts
    <3>4. \A i \in 1 .. n : p[i] = stack[i]
      BY <2>6, <2>7, <3>1
    <3> DEFINE x == Cut(p, n)
               y == Cut(stack, n)
    <3>5. x \in Seq(Memory) /\ y \in Seq(Memory) /\ Len(x) = n /\ Len(y) = n
          /\ \A i \in 1 .. n : x[i] = y[i]
      BY <3>2, <3>3, <3>4
    <3> HIDE DEF x, y
    <3>6. x = y
      BY <3>5, SameSeq
    <3> QED
      BY <1>1, <2>1, <3>6 DEF x, y, n
  <2>9. Settling(Callers, p, f, p)
    <3>1. f.sp <= Len(p)
      BY <2>4, <2>6, <2>7, LenProperties
    <3>2. f = Last(Callers)
      BY DEF f
    <3> QED
      BY <1>1, <2>4, <2>5, <2>6, <2>8, <3>1, <3>2 DEF Settling
  <2>10. CInv' /\ ActsOf(frames', stack', error') = Append(Front(as), ActivationOf(f, p, f.sp))
    BY <1>0, <2>9, SettledView DEF as
  <2>11. ActsOf(frames', stack', error') = Front(Now)
    BY <2>4, <2>6, <2>10 DEF a
  <2> QED
    BY <1>5, <2>10, <2>11
<1> QED
  BY <1>6, <1>7
-----------------------------------------------------------------------------
(* The ends of an activation.                                              *)

LEMMA ReturnView == ASSUME CInv, Return PROVE StepOK
<1> DEFINE f == Last(Callers)
           c == Callee(Callers, frames)
           p == Padded(stack, f.sp)
           end == End(f, c)
           a == ActivationOf(f, p, end)
           as == ActsOf(Callers, p, None)
           dest == CallerDest
           v == Operand
           bp == Top.bp
           w == Write(stack, bp, v)
           q == Write(p, bp, v)
           r == Answered(f, dest, v, w)
           g == r[1]
           t == r[2]
<1>0. IInv /\ IInv'
  BY ReturnKeeps DEF CInv
<1>1. /\ InBody /\ Running /\ frames # <<>> /\ error = None /\ Holds(1) /\ Top.kind = "user"
      /\ v \in Data \cup {Error} /\ error' = None
      /\ frames' = Append(Front(Callers), g) /\ stack' = Cut(t, g.sp)
  BY DEF Return, InBody, Running, HasData
<1>2. /\ stack \in Seq(Memory) /\ Len(stack) = Top.sp /\ Top.sp \in Nat /\ bp \in Nat
      /\ Evaluates(Top)
  BY <1>1, TopView
<1>3. Callers # <<>> /\ Callers \in Seq(FrameRecord)
  BY <1>0, <1>1, CallersFacts DEF Links
<1>4. Suspends(f, c, p, end, a, as)
  BY DEF Suspends
<1>5. dest \in Nat /\ CallsAt(f, dest) /\ dest <= bp /\ bp < Top.sp
  BY <1>0, <1>1, <1>3, CallerFacts
<1>6. c.bp = dest /\ c.kind # "script" /\ CalledAt = dest
  BY <1>1, <1>0, <1>3, CalleeFacts DEF CalledAt
<1>7. end = Rest(f, dest)
  BY <1>6 DEF End, Rest
<1>8. v \in Memory /\ v \notin Methods
  BY <1>1, MethodsApart
<1>9. f = Last(Callers)
  OBVIOUS
<1> HIDE DEF f, c, p, end, a, as, dest, v, bp
<1>10. /\ Fits(Callers, p) /\ p \in Seq(Memory)
       /\ Len(stack) <= Len(p) /\ \A i \in 1 .. Len(stack) : p[i] = stack[i]
       /\ CleanUnder(Callers, p) /\ Clean(f, p, end)
       /\ f \in FrameRecord /\ FrameOK(f) /\ f.kind # "native" /\ Evaluates(f)
       /\ end \in Nat /\ Base(f) <= end /\ end <= CalledAt /\ end <= Len(stack)
       /\ as \in Acts /\ Front(as) \in Acts /\ a \in ActType
       /\ Now # <<>> /\ Len(Now) = Len(as) + 1 /\ Len(as) > 0
       /\ Front(Front(Now)) = Front(as) /\ Last(Front(Now)) = a
  <2>0. CallersSeen(f, p, end, a, as)
    BY <1>1, <1>3, <1>4, CallersView
  <2>1. /\ Fits(Callers, p) /\ p \in Seq(Memory)
        /\ Len(stack) <= Len(p) /\ \A i \in 1 .. Len(stack) : p[i] = stack[i]
        /\ CleanUnder(Callers, p) /\ Clean(f, p, end)
        /\ f \in FrameRecord /\ FrameOK(f) /\ f.kind # "native" /\ Evaluates(f)
        /\ end \in Nat /\ Base(f) <= end /\ end <= CalledAt /\ end <= Len(stack)
    BY <2>0 DEF CallersSeen
  <2>2. as \in Acts /\ Front(as) \in Acts /\ a \in ActType
    BY <2>0 DEF CallersSeen
  <2>3. Now # <<>> /\ Len(as) > 0
    BY <2>0 DEF CallersSeen
  <2>4. Len(Now) = Len(as) + 1
    BY <2>0 DEF CallersSeen
  <2>5. Front(Front(Now)) = Front(as)
    BY <2>0 DEF CallersSeen
  <2>6. Last(Front(Now)) = a
    BY <2>0 DEF CallersSeen
  <2> QED
    BY <2>1, <2>2, <2>3, <2>4, <2>5, <2>6
<1>11. /\ w \in Seq(Memory) /\ Len(w) = Len(stack)
       /\ \A j \in 1 .. Len(stack) : j # bp + 1 => w[j] = stack[j]
  BY <1>2, <1>5, <1>8, WriteFacts
<1> HIDE DEF w
<1>12. \A i \in 1 .. end : w[i] = p[i]
  <2>1. \A i \in 1 .. end : i \in 1 .. Len(stack) /\ i # bp + 1
    BY <1>2, <1>5, <1>6, <1>10
  <2> QED
    BY <1>10, <1>11, <2>1
<1>13. Clean(f, w, end) /\ ActivationOf(f, w, end) = a
  <2>1. end <= Len(w) /\ end <= Len(p) /\ end <= end
    <3>1. Len(p) \in Nat
      BY <1>10, LenProperties
    <3> QED
      BY <1>2, <1>10, <1>11, <3>1
  <2>2. Clean(f, w, end)
    BY <1>10, <1>12, <2>1, CleanAgrees
  <2>3. ActivationOf(f, w, end) = ActivationOf(f, p, end)
    BY <1>10, <1>11, <1>12, <2>1, ActivationAgrees
  <2> QED
    BY <2>2, <2>3 DEF a
<1>14. /\ g \in FrameRecord /\ FrameOK(g) /\ g.kind = f.kind /\ g.bp = f.bp
       /\ t \in Seq(Memory) /\ g.sp <= Len(t)
  <2>1. dest < Len(w)
    BY <1>2, <1>5, <1>11
  <2>2. dest > 0 => w[1] \notin Methods
    <3> SUFFICES ASSUME dest > 0 PROVE w[1] \notin Methods
      OBVIOUS
    <3>1. stack[1] \notin Methods
      BY <1>0, <1>1, <1>2, <1>5, TopFacts
    <3>2. 1 \in 1 .. Len(stack) /\ 1 # bp + 1
      BY <1>2, <1>5
    <3> QED
      BY <1>11, <3>1, <3>2
  <2> QED
    BY <1>5, <1>8, <1>10, <1>11, <2>1, <2>2, AnsweredIs
<1>15. Answering(f, dest, w, v, g, t)
  <2>1. dest < Len(w)
    BY <1>2, <1>5, <1>11
  <2>2. Clean(f, w, Rest(f, dest))
    BY <1>7, <1>13
  <2> QED
    BY <1>5, <1>8, <1>10, <1>11, <1>14, <2>1, <2>2 DEF Answering
<1> HIDE DEF r, g, t
<1>16. Answers(f, dest, w, v, g, t)
  BY <1>15, AnsweredView
<1>17. /\ Clean(g, t, g.sp) /\ \A i \in 1 .. Base(f) : t[i] = w[i]
       /\ ActivationOf(g, t, g.sp) = [a EXCEPT !.operands = Append(@, v)]
  <2>1. ActivationOf(f, w, Rest(f, dest)) = a
    BY <1>7, <1>13
  <2> QED
    BY <1>16, <2>1 DEF Answers
<1>18. Settling(Callers, p, g, t)
  <2>1. f.bp \in Nat /\ Base(f) \in Nat /\ f.bp <= Base(f)
    BY <1>10, EvaluatesFacts
  <2>2. \A i \in 1 .. f.bp : i \in 1 .. Base(f) /\ i \in 1 .. end
    BY <1>10, <2>1
  <2>3. \A i \in 1 .. f.bp : t[i] = p[i]
    BY <1>12, <1>17, <2>2
  <2> QED
    BY <1>1, <1>9, <1>10, <1>14, <1>17, <2>3 DEF Settling
<1>19. /\ CInv'
       /\ ActsOf(frames', stack', error') = Append(Front(as), ActivationOf(g, t, g.sp))
  BY <1>0, <1>18, SettledView DEF as
<1>20. /\ Last(Now) = TopAct /\ TopAct.operands # <<>> /\ Last(TopAct.operands) = v
       /\ TopAct.fn # None
  <2>1. Last(Now) = TopAct
    BY <1>1, NowView
  <2>2. TopAct.operands # <<>> /\ Last(TopAct.operands) = v
    BY <1>1, OperandView DEF v
  <2>3. Top.fn \in DOMAIN Code /\ None \notin DOMAIN Code
    BY <1>1, <1>2, EvaluatesFacts, CodeNames
  <2> QED
    BY <2>1, <2>2, <2>3 DEF TopAct, ActivationOf
<1>21. ActsOf(frames', stack', error')
         = Append(Front(Front(Now)), [Last(Front(Now)) EXCEPT !.operands = Append(@, v)])
  BY <1>10, <1>17, <1>19
<1> QED
  BY <1>1, <1>10, <1>19, <1>20, <1>21, AbstractOperators
     DEF StepOK, Abstract!Next, Abstract!Run, Abstract!Return, Abstract!Innermost,
         Abstract!Operands, Now

(* The caller that the error comes to, on the slots it finds.              *)
Unwinds(f, g, s) ==
  /\ f = Last(Callers) /\ g \in FrameRecord /\ FrameOK(g) /\ Same(f, g)
  /\ g.num = f.num /\ g.tries = f.tries /\ g.open = f.open
  /\ s \in Seq(Memory) /\ g.sp <= Len(s) /\ \A i \in 1 .. CalledAt : s[i] = stack[i]
  /\ RetWithTrace(Append(Front(Callers), g), s, error)

LEMMA UnwindFrame ==
  ASSUME IInv, frames # <<>>, Unwind, Callers # <<>>, NEW f, f = Last(Callers)
  PROVE  \E g, s : Unwinds(f, g, s)
<1> DEFINE sp == IF Top.kind = "script" THEN Top.bp ELSE CallerDest + 1
           g == [f EXCEPT !.sp = sp]
           s == IF Native THEN Write(stack, CallerDest, Slot(Top.bp)) ELSE stack
<1>1. RetWithTrace(Append(Front(Callers), g), s, error)
  BY DEF Unwind
<1>2. /\ stack \in Seq(Memory) /\ Len(stack) = Top.sp /\ Top.sp \in Nat /\ Top \in FrameRecord
      /\ Top.kind \in {"script", "user"}
  BY TopFacts
<1>3. f \in FrameRecord /\ FrameOK(f) /\ f.kind # "native"
  BY CallersFacts
<1>4. CASE Top.kind = "script"
  <2>1. /\ Callers = Below /\ ~Native /\ Top.bp \in Nat /\ Top.bp <= Top.sp /\ f.sp = Top.bp
    BY <1>4, ScriptFacts
  <2>2. sp = f.sp /\ s = stack
    BY <1>4, <2>1
  <2>3. g = f
    <3> HIDE DEF sp
    <3> QED
      BY <1>3, <2>2 DEF FrameRecord
  <2> HIDE DEF g, s
  <2>4. Unwinds(f, g, s)
    BY <1>1, <1>2, <1>3, <2>1, <2>2, <2>3 DEF Unwinds, Same
  <2> QED
    BY <2>4
<1>5. CASE Top.kind = "user"
  <2> DEFINE d == CallerDest
             bp == Top.bp
             n == d + 1
  <2>1. d \in Nat /\ CallsAt(f, d) /\ d <= bp /\ bp < Top.sp /\ bp \in Nat
    BY <1>2, <1>5, CallerFacts DEF FrameRecord
  <2>2. g = [f EXCEPT !.sp = n] /\ CalledAt = d
    BY <1>5 DEF CalledAt
  <2>3. s = IF Native THEN Write(stack, d, Slot(bp)) ELSE stack
    OBVIOUS
  <2> HIDE DEF sp, g, s, d, bp
  <2>4. f.body \/ AtDefault(f)
    BY <1>3, <2>1, CallerComputes
  <2>5. Floor(f) <= n /\ n <= High(f) /\ n \in Nat
    BY <1>3, <2>1, CallerComputes
  <2>6. Slot(bp) \in Memory /\ d < Len(stack)
    <3>1. bp + 1 \in 1 .. Len(stack)
      BY <1>2, <2>1
    <3> QED
      BY <1>2, <2>1, <3>1 DEF Slot
  <2>7. s \in Seq(Memory) /\ Len(s) = Len(stack) /\ \A i \in 1 .. d : s[i] = stack[i]
    <3>1. CASE Native
      <4> DEFINE w == Write(stack, d, Slot(bp))
      <4>1. /\ w \in Seq(Memory) /\ Len(w) = Len(stack)
            /\ \A j \in 1 .. Len(stack) : j # d + 1 => w[j] = stack[j]
        BY <1>2, <2>1, <2>6, WriteFacts
      <4> HIDE DEF w
      <4>2. s = w
        BY <2>3, <3>1 DEF w
      <4>3. \A i \in 1 .. d : i \in 1 .. Len(stack) /\ i # d + 1
        BY <1>2, <2>1
      <4> QED
        BY <4>1, <4>2, <4>3
    <3>2. CASE ~Native
      BY <1>2, <2>3, <3>2
    <3> QED
      BY <3>1, <3>2
  <2>8. n <= Len(s)
    BY <1>2, <2>1, <2>7
  <2> HIDE DEF n
  <2> DEFINE h == [f EXCEPT !.sp = n]
  <2>9. /\ h \in FrameRecord /\ FrameOK(h) /\ Same(f, h) /\ h.sp = n
        /\ h.tries = f.tries /\ h.open = f.open /\ h.num = f.num
    BY <1>3, <2>4, <2>5, Resized
  <2>10. g = h
    BY <2>2
  <2> HIDE DEF h
  <2>11. Unwinds(f, g, s)
    BY <1>1, <2>2, <2>7, <2>8, <2>9, <2>10 DEF Unwinds
  <2> QED
    BY <2>11
<1> QED
  BY <1>2, <1>4, <1>5

LEMMA UnwindView == ASSUME CInv, Unwind PROVE StepOK
<1>0. IInv /\ IInv'
  BY UnwindKeeps DEF CInv
<1>1. error # None /\ frames # <<>> /\ error \in Errors /\ error.value \notin Methods
  BY <1>0 DEF Unwind, IInv, ErrorOK
<1>2. error.value # None /\ error.value \in Values
  BY <1>1, ConstantsAssumption DEF Errors
<1>3. CASE Callers = <<>>
  <2>1. frames' = <<>> /\ stack' = <<>> /\ error' = None
    BY <1>3 DEF Unwind
  <2>2. Evaluators(<<>>) = {}
    BY DEF Evaluators
  <2>3. Cardinality({}) = 0
    BY FS_EmptySet
  <2>4. CleanAll(frames', stack', error') /\ ActsOf(frames', stack', error') = <<>>
    <3>1. Evaluators(frames') = {}
      BY <2>1, <2>2
    <3>2. CleanAll(frames', stack', error')
      BY <3>1 DEF CleanAll
    <3>3. ActsOf(frames', stack', error') = <<>>
      BY <2>3, <3>1 DEF ActsOf
    <3> QED
      BY <3>2, <3>3
  <2>5. Len(Now) = 1
    <3>1. Cardinality(Evaluators(Callers)) = eval_depth - 1
      BY <1>0, <1>1, CallersFacts
    <3>2. Cardinality(Evaluators(Callers)) = 0
      BY <1>3, <2>2, <2>3
    <3>3. eval_depth = Cardinality(Evaluators(frames)) /\ eval_depth \in Nat
      BY <1>0, <1>1, TopFacts
    <3>4. Fits(frames, stack)
      BY <1>0, <1>1, FramesFit
    <3>5. Len(Now) = Cardinality(Evaluators(frames))
      BY <3>4, ActsFacts DEF Now
    <3> DEFINE n == Len(Now)
    <3>6. n = eval_depth /\ n \in Nat /\ eval_depth - 1 = 0
      BY <3>1, <3>2, <3>3, <3>5
    <3> HIDE DEF n
    <3>7. n = 1
      BY <3>6
    <3> QED
      BY <3>7 DEF n
  <2> QED
    BY <1>0, <1>1, <1>2, <2>1, <2>4, <2>5
       DEF StepOK, CInv, Abstract!Next, Abstract!Unwind, Now
<1>4. CASE Callers # <<>>
  <2> DEFINE f == Last(Callers)
             c == Callee(Callers, frames)
             p == Padded(stack, f.sp)
             end == End(f, c)
             a == ActivationOf(f, p, end)
             as == ActsOf(Callers, p, None)
  <2>1. Suspends(f, c, p, end, a, as)
    BY DEF Suspends
  <2>2. f = Last(Callers)
    OBVIOUS
  <2> HIDE DEF f, c, p, end, a, as
  <2>3. PICK g, s : Unwinds(f, g, s)
    BY <1>0, <1>1, <1>4, <2>2, UnwindFrame
  <2> DEFINE fs == Append(Front(Callers), g)
             h == Front(Now)
  <2>4. /\ g \in FrameRecord /\ FrameOK(g) /\ Same(f, g)
        /\ g.num = f.num /\ g.tries = f.tries /\ g.open = f.open
        /\ s \in Seq(Memory) /\ g.sp <= Len(s) /\ \A i \in 1 .. CalledAt : s[i] = stack[i]
        /\ RetWithTrace(fs, s, error)
    BY <2>3 DEF Unwinds
  <2>0. CallersSeen(f, p, end, a, as)
    BY <1>1, <1>4, <2>1, CallersView
  <2>5. /\ Fits(Callers, p) /\ p \in Seq(Memory)
        /\ Len(stack) <= Len(p) /\ \A i \in 1 .. Len(stack) : p[i] = stack[i]
        /\ CleanUnder(Callers, p) /\ Clean(f, p, end)
        /\ f \in FrameRecord /\ FrameOK(f) /\ f.kind # "native" /\ Evaluates(f)
        /\ end \in Nat /\ Base(f) <= end /\ end <= CalledAt /\ end <= Len(stack)
    BY <2>0 DEF CallersSeen
  <2>6. as \in Acts /\ Front(as) \in Acts /\ a \in ActType
    BY <2>0 DEF CallersSeen
  <2>7. h = Append(Front(as), a) /\ Now # <<>>
    BY <2>0 DEF CallersSeen
  <2>8. Len(Now) = Len(as) + 1 /\ Len(as) > 0 /\ Now \in Acts
    <3>1. Len(Now) = Len(as) + 1
      BY <2>0 DEF CallersSeen
    <3>2. Len(as) > 0 /\ Now \in Acts
      BY <2>0 DEF CallersSeen
    <3> QED
      BY <3>1, <3>2
  <2>9. CalledAt \in Nat /\ CalledAt <= Top.sp /\ Links(Callers)
    BY <1>1, <1>4, CalleeFacts
  <2>10. stack \in Seq(Memory) /\ Len(stack) = Top.sp
    BY <1>0, <1>1, TopFacts
  <2>11. g.kind = f.kind /\ g.bp = f.bp /\ g.kind # "native" /\ Base(g) = Base(f)
    BY <2>4, <2>5, SameBase DEF Same
  <2>12. /\ f.bp \in Nat /\ Base(f) \in Nat /\ f.bp <= Base(f)
    BY <2>5, EvaluatesFacts
  <2>13. /\ Links(fs) /\ fs # <<>> /\ Last(fs) = g /\ Len(fs) = Len(Callers)
    BY <1>4, <2>2, <2>4, <2>9, <2>11, LinksReplaced
  <2>14. /\ Callers \in Seq(FrameRecord) /\ Len(Callers) \in Nat
         /\ fs[Len(Callers)] = g /\ \A d \in 1 .. Len(Callers) - 1 : fs[d] = Callers[d]
    <3>1. Callers \in Seq(FrameRecord)
      BY <2>9 DEF Links
    <3> QED
      BY <1>4, <2>4, <3>1, Replaced
  <2> HIDE DEF fs
  <2>15. Fits(fs, s)
    BY <2>4, <2>11, <2>13 DEF Fits, Chain
  <2>16. \A i \in 1 .. end : s[i] = p[i]
    <3>1. \A i \in 1 .. end : i \in 1 .. CalledAt /\ i \in 1 .. Len(stack)
      BY <2>5, <2>9, <2>10
    <3> QED
      BY <2>4, <2>5, <3>1
  <2>17. Under(Callers, p, fs, s)
    <3>1. \A i \in 1 .. f.bp : i \in 1 .. end
      BY <2>5, <2>12
    <3>2. \A i \in 1 .. f.bp : s[i] = p[i]
      BY <2>16, <3>1
    <3> QED
      BY <2>2, <2>5, <2>11, <2>13, <2>14, <2>15, <3>2 DEF Under
  <2>18. CleanUnder(fs, s)
    BY <2>5, <2>13, <2>17, UnderClean
  <2>19. Clean(g, s, Base(g))
    <3> DEFINE b == Base(f)
    <3>1. b \in Nat /\ b <= end
      BY <2>5, <2>12
    <3> HIDE DEF b
    <3>2. Clean(f, s, b)
      BY <2>5, <2>16, <3>1, CleanAgrees
    <3>3. Clean(g, s, b)
      BY <2>4, <3>2, CleanFrame
    <3> QED
      BY <2>11, <3>3 DEF b
  <2>20. Failing(fs, s, error)
    BY <1>1, <2>4, <2>13, <2>15, <2>18, <2>19 DEF Failing
  <2>21. /\ h \in Acts /\ h # <<>> /\ Front(h) = Front(as) /\ Last(h) = a
    <3> DEFINE k == Front(as)
    <3>1. k \in Seq(ActType)
      BY <2>6 DEF Acts
    <3> HIDE DEF k, h
    <3>2. /\ Append(k, a) \in Seq(ActType) /\ Append(k, a) # <<>>
          /\ Front(Append(k, a)) = k /\ Last(Append(k, a)) = a
      BY <2>6, <3>1, SeqAppended
    <3> QED
      BY <2>7, <3>2 DEF Acts, k
  <2>22. Front(h) = Front(ActsOf(fs, s, None))
    <3> DEFINE B == ActsOf(fs, s, None)
               b == ActivationOf(Last(fs), s, EndOf(fs, None, Len(fs)))
               k == Front(as)
    <3>1. b \in ActType /\ B = Append(k, b)
      BY <2>13, <2>17, ActsReplaced DEF as
    <3>2. k \in Seq(ActType)
      BY <2>6 DEF Acts
    <3> HIDE DEF B, b, k, h
    <3>3. Front(Append(k, b)) = k
      BY <3>1, <3>2, SeqAppended
    <3> QED
      BY <2>21, <3>1, <3>3 DEF B, k
  <2>23. Fails(Last(h), Last(fs), s)
    <3>1. Keeps(f, p, g, s)
      <4>1. \A i \in 1 .. Base(f) : i \in 1 .. end
        BY <2>5, <2>12
      <4>2. \A i \in 1 .. Base(f) : s[i] = p[i]
        BY <2>16, <4>1
      <4>3. Base(g) <= g.sp /\ Base(g) \in Nat /\ g.sp \in Nat
        <5>1. Evaluates(g)
          BY <2>13, <2>15, FitsFacts
        <5> QED
          BY <5>1, EvaluatesFacts
      <4>4. Len(p) \in Nat /\ Len(s) \in Nat
        BY <2>4, <2>5, LenProperties
      <4>5. Base(f) <= Len(s)
        BY <2>4, <2>11, <2>12, <4>3, <4>4
      <4>6. Base(f) <= Len(p)
        BY <2>5, <2>9, <2>10, <2>12, <4>4
      <4> QED
        BY <2>4, <2>5, <4>2, <4>5, <4>6 DEF Keeps
    <3> DEFINE b == Base(g)
    <3> HIDE DEF b
    <3>2. /\ ActivationOf(g, s, b).fn = ActivationOf(f, p, end).fn
          /\ ActivationOf(g, s, b).vars = ActivationOf(f, p, end).vars
          /\ ActivationOf(g, s, b).this = ActivationOf(f, p, end).this
          /\ ActivationOf(g, s, b).tries = ActivationOf(f, p, end).tries
      BY <2>4, <3>1, ViewChange
    <3>3. Last(h) = ActivationOf(f, p, end) /\ Last(fs) = g
      BY <2>13, <2>21 DEF a
    <3> QED
      BY <3>2, <3>3 DEF Fails, b
  <2> HIDE DEF h
  <2>24. CleanAll(frames', stack', error') /\ Abstract!Fail(h, error.value, error.tb)
    BY <1>0, <2>20, <2>21, <2>22, <2>23, FailView
  <2>25. Len(Now) # 1
    <3> DEFINE n == Len(as)
               m == Len(Now)
    <3>1. n \in Nat /\ m = n + 1 /\ n > 0
      BY <2>6, <2>8, LenProperties DEF Acts
    <3> HIDE DEF n, m
    <3>2. m # 1
      BY <3>1
    <3> QED
      BY <3>2 DEF m
  <2> QED
    BY <1>0, <1>1, <1>2, <2>24, <2>25, AbstractOperators
       DEF StepOK, CInv, Abstract!Next, Abstract!Unwind, Now, h
<1> QED
  BY <1>3, <1>4
-----------------------------------------------------------------------------
LEMMA OneOnly ==
  ASSUME NEW T, NEW s \in Seq(T), Len(s) = 1, NEW x, s[1] = x
  PROVE  s = <<x>>
<1>1. DOMAIN s = {1}
  <2>1. DOMAIN s = 1 .. 1
    BY LenProperties
  <2> QED
    BY <2>1
<1>2. s[1] \in T
  BY <1>1, ElementOfSeq
<1>3. <<x>> \in Seq(T) /\ Len(<<x>>) = 1 /\ <<x>>[1] = x
  BY <1>2
<1> DEFINE t == <<x>>
<1> HIDE DEF t
<1>4. t \in Seq(T) /\ Len(t) = 1 /\ t[1] = x
  BY <1>3 DEF t
<1>5. \A i \in 1 .. Len(s) : s[i] = t[i]
  <2>1. 1 .. Len(s) = {1}
    OBVIOUS
  <2> QED
    BY <1>4, <2>1
<1>6. s = t
  BY <1>4, <1>5, SeqEqual
<1> QED
  BY <1>6 DEF t

LEMMA InitView == Init => CInv /\ Abstract!Init
<1> SUFFICES ASSUME Init PROVE CInv /\ Abstract!Init
  OBVIOUS
<1> DEFINE g == Frame("script", None, 0, 0, Ensure(StackSize(None), 0))
<1>1. IInv
  BY InitIInv
<1>2. stack = <<>> /\ frames = <<g>> /\ error = None
  BY ScriptRoom DEF Init, Ensure
<1>3. g.kind = "script" /\ g.bp = 0 /\ g.sp = 0 /\ g.tries = 0
  BY NewScript
<1> HIDE DEF g
<1>4. Len(frames) = 1 /\ DOMAIN frames = {1} /\ frames[1] = g /\ Top = g /\ frames # <<>>
  BY <1>2 DEF Last, Top
<1>5. Fits(frames, stack) /\ Last(frames) = g
  BY <1>1, <1>4, FramesFit DEF Top
<1>6. Evaluates(g) /\ g \in FrameRecord
  BY <1>5, FitsFacts DEF Evaluates
<1>7. Base(g) = 0 /\ g.fn = None /\ g.fn \notin Methods /\ Variables(g) = 0
  <2>1. Methods \subseteq DOMAIN Code /\ None \notin DOMAIN Code
    BY ConstantsAssumption, CodeNames
  <2> QED
    BY <1>3, <1>6, <2>1, EvaluatesFacts, VariablesFit
<1>8. EndOf(frames, error, 1) = 0
  BY <1>2, <1>3, <1>4 DEF EndOf
<1>9. Evaluators(frames) = {1}
  BY <1>3, <1>4 DEF Evaluators
<1>10. CleanAll(frames, stack, error)
  <2>1. \A i : ~(i \in 0 + 1 .. 0 - 1) /\ ~(i \in 0 .. 0 - 1)
    OBVIOUS
  <2>2. Clean(g, stack, 0)
    BY <1>3, <1>7, <2>1 DEF Clean
  <2> QED
    BY <1>4, <1>8, <1>9, <2>2 DEF CleanAll
<1>11. ActsOf(frames, stack, error) = <<Abstract!Script>>
  <2> DEFINE a == ActivationOf(g, stack, 0)
             b == Abstract!Script
             as == ActsOf(frames, stack, error)
  <2>1. Cardinality(Evaluators(frames)) = 1
    BY <1>9, FS_Singleton
  <2>2. as \in Acts /\ Len(as) = 1 /\ as[1] = a
    <3>1. /\ as \in Acts /\ Len(as) = Cardinality(Evaluators(frames))
          /\ as[Cardinality(Evaluators(frames))]
               = ActivationOf(Last(frames), stack, EndOf(frames, error, Len(frames)))
      BY <1>5, ActsFacts
    <3> QED
      BY <1>4, <1>5, <1>8, <2>1, <3>1
  <2>3. a = b
    <3>1. a.fn = None /\ a.this = None
      BY <1>3, <1>7 DEF ActivationOf
    <3>2. a.operands = <<>>
      BY <1>7, NoSlots DEF ActivationOf
    <3>3. a.vars = <<>>
      <4>1. g.bp + 1 + Variables(g) = g.bp + 1 /\ g.bp + 1 \in Int
        BY <1>3, <1>7
      <4> QED
        BY <4>1, NoSlots DEF ActivationOf
    <3>4. a.tries = 0
      BY <1>3 DEF ActivationOf
    <3>5. a \in ActType
      <4>1. 0 <= Len(stack)
        BY <1>2
      <4> QED
        BY <1>5, <1>6, <1>7, <4>1, ActivationFacts DEF Fits
    <3>6. b = [fn |-> None, vars |-> <<>>, operands |-> <<>>, this |-> None, tries |-> 0]
      BY DEF Abstract!Script, Abstract!Activation
    <3> HIDE DEF a, b
    <3>7. b \in ActType
      <4>1. <<>> \in Seq(Memory) /\ 0 \in Nat
        OBVIOUS
      <4> QED
        BY <3>6, <4>1 DEF ActType
    <3>8. /\ b.fn = None /\ b.vars = <<>> /\ b.operands = <<>> /\ b.this = None /\ b.tries = 0
      BY <3>6
    <3> QED
      BY <3>1, <3>2, <3>3, <3>4, <3>5, <3>7, <3>8, SameActivation
  <2>4. as \in Seq(ActType)
    BY <2>2 DEF Acts
  <2> HIDE DEF as, a, b
  <2>5. as = <<a>>
    BY <2>2, <2>4, OneOnly
  <2> QED
    BY <2>3, <2>5 DEF as, b
<1> QED
  BY <1>1, <1>2, <1>10, <1>11 DEF CInv, Abstract!Init

(* Bound methods take arguments in no program of these.                    *)
LEMMA StepView == ASSUME BoundTakeNone, CInv, [Next]_vars PROVE StepOK
<1>1. CASE UNCHANGED vars
  BY <1>1 DEF vars, CInv, IInv, StepOK, Abstract!vars
<1>2. CASE Next
  <2>1. ASSUME NEW v \in Constants, Push(v) PROVE StepOK
    BY <2>1, PushView
  <2>2. ASSUME NEW n \in 0 .. MaxArgs, Call(n) PROVE StepOK
    BY <2>2, CallView
  <2>3. ASSUME NEW n \in 0 .. MaxArgs, CallMethod(n) PROVE StepOK
    BY <2>3, CallMethodView
  <2>4. CASE Ended
    BY <1>1, <2>4 DEF Ended
  <2> QED
    BY <1>2, <2>1, <2>2, <2>3, <2>4, PopView, LoadLocalView, StoreLocalView, LoadThisView,
       LoadMethodView, ApplyDefaultArgView, AllocateLocalsView, PushTryView, PopTryView,
       ThrowView, ReturnView, ImportModuleView, HaltView, UnwindView DEF Next
<1> QED
  BY <1>1, <1>2

(* Calls keep their promise, do_call, cb_eval and RET_WITH_TRACE in eval.c:  *)
(* on the one array of slots every activation finds its own variables and   *)
(* operands, a caller the result on top of those it left, and an error the  *)
(* nearest handler.  The arguments of bound methods that take some do not   *)
(* arrive (ArgumentsArrive), which is why there are none here.              *)
THEOREM CallsImplementActivations ==
  ASSUME BoundTakeNone PROVE Spec => ImplementsActivations
<1>1. Init => CInv /\ Abstract!Init
  BY InitView
<1>2. CInv /\ [Next]_vars => CInv' /\ [Abstract!Next]_Abstract!vars
  BY StepView DEF StepOK
<1> QED
  BY <1>1, <1>2, PTL DEF Spec, ImplementsActivations, Abstract!Spec
=============================================================================
