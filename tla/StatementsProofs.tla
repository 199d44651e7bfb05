-------------------------- MODULE StatementsProofs --------------------------
(***************************************************************************)
(* Proofs about Statements, for programs of any length: every jump and     *)
(* handler of the code compiled names the address of its label, the        *)
(* handlers in force at a statement are those of the try blocks around it, *)
(* and the operands are balanced and fit.                                  *)
(*                                                                         *)
(* The argument is that of a bytecode verifier.  The compiler's single     *)
(* pass gives each label the handlers in force where it is marked (L), and *)
(* each address the handlers in force (hs) and the operands on the stack   *)
(* (ns) there.  Each operation on the bytecode keeps the types of what was *)
(* emitted before, whatever is still to be patched; each instruction of    *)
(* typed code goes from a state that has the type of its address to one    *)
(* that has the type of the next.                                          *)
(***************************************************************************)
EXTENDS Statements, SequenceTheorems, WellFoundedInduction, TLAPS

Jumps == {"JUMP", "JUMP_IF_FALSE", "PUSH_TRY"}
Ops == Jumps \cup {"PUSH", "CATCH", "POP", "THROW", "RETURN", "CALL", "POP_TRY"}
Instruction == [op : Ops, arg : Nat, label : Nat]
Bytecodes == [code : Seq(Instruction), labels : Seq(Nat \cup {Unmarked}),
              pending : SUBSET [label : Nat, address : Nat]]

(* A bytecode whose jumps name their labels' addresses, or wait for them;  *)
(* a label that is marked is at an address of the code, or at its end.     *)
Resolved(b) ==
  /\ b \in Bytecodes
  /\ JumpsResolve(b)
  /\ \A l \in Labels(b) : b.labels[l] # Unmarked => b.labels[l] \in 0 .. Len(b.code)
-----------------------------------------------------------------------------
(* A function on 1 .. n is a sequence of length n.                         *)
LEMMA FunctionIsSeq ==
  ASSUME NEW S, NEW n \in Nat, NEW f \in [1 .. n -> S]
  PROVE  f \in Seq(S) /\ Len(f) = n
OBVIOUS

LEMMA OneMore ==
  ASSUME NEW n \in Nat
  PROVE  \A i : i \in 1 .. n + 1 <=> i \in 1 .. n \/ i = n + 1
OBVIOUS

(* What the operations do to a bytecode, one field at a time.              *)
LEMMA EmptyResolved ==
  /\ Resolved(EmptyBytecode)
  /\ EmptyBytecode.code = <<>> /\ EmptyBytecode.labels = <<>>
BY DEF EmptyBytecode, Resolved, Bytecodes, JumpsResolve, Addresses, Labels

LEMMA EmitResolved ==
  ASSUME NEW b, Resolved(b), NEW op \in Ops \ Jumps
  PROVE  /\ Resolved(Emit(b, op))
         /\ Emit(b, op).code = Append(b.code, [op |-> op, arg |-> 0, label |-> NoLabel])
         /\ Emit(b, op).labels = b.labels
         /\ Emit(b, op).pending = b.pending
<1> DEFINE i == [op |-> op, arg |-> 0, label |-> NoLabel]
           e == Emit(b, op)
<1>1. b \in Bytecodes /\ i \in Instruction
  BY DEF Resolved, Instruction, NoLabel
<1>2. e.code = Append(b.code, i) /\ e.labels = b.labels /\ e.pending = b.pending
  BY <1>1 DEF Emit, Bytecodes
<1>3. e \in Bytecodes
  <2>1. b.code \in Seq(Instruction)
    BY <1>1 DEF Bytecodes
  <2> HIDE DEF i
  <2>2. Append(b.code, i) \in Seq(Instruction)
    BY <1>1, <2>1
  <2>3. e = [b EXCEPT !.code = Append(b.code, i)]
    BY DEF Emit, i
  <2> QED
    BY <1>1, <2>2, <2>3 DEF Bytecodes
<1>4. /\ Len(e.code) = Len(b.code) + 1 /\ e.code[Len(b.code) + 1] = i
      /\ \A a \in Addresses(b) : e.code[a + 1] = b.code[a + 1]
  BY <1>1, <1>2 DEF Bytecodes, Addresses
<1>5. i.label = NoLabel
  OBVIOUS
<1> HIDE DEF i, e
<1>6. Addresses(b) \subseteq Addresses(e) /\ Labels(e) = Labels(b)
      /\ Addresses(e) = Addresses(b) \cup {Len(b.code)}
      /\ Len(b.code) \in Nat
  BY <1>1, <1>2, <1>4 DEF Addresses, Labels, Bytecodes
<1>7. JumpsResolve(b)
  BY DEF Resolved
<1>8. JumpsResolve(e)
  <2>1. ASSUME NEW a \in Addresses(e), e.code[a + 1].label # NoLabel
        PROVE  /\ e.code[a + 1].label \in Labels(e)
               /\ IF e.labels[e.code[a + 1].label] = Unmarked
                  THEN [label |-> e.code[a + 1].label, address |-> a] \in e.pending
                  ELSE e.code[a + 1].arg = e.labels[e.code[a + 1].label]
    <3>1. a \in Addresses(b)
      BY <2>1, <1>4, <1>5, <1>6
    <3> QED
      BY <3>1, <2>1, <1>2, <1>4, <1>6, <1>7 DEF JumpsResolve
  <2>2. ASSUME NEW p \in e.pending
        PROVE  /\ p.address \in Addresses(e) /\ p.label \in Labels(e)
               /\ e.code[p.address + 1].label = p.label
               /\ e.labels[p.label] = Unmarked
    <3>1. p \in b.pending
      BY <1>2
    <3>2. p.address \in Addresses(b) /\ p.label \in Labels(b)
          /\ b.code[p.address + 1].label = p.label /\ b.labels[p.label] = Unmarked
      BY <3>1, <1>7 DEF JumpsResolve
    <3> QED
      BY <3>2, <1>2, <1>4, <1>6
  <2> QED
    BY <2>1, <2>2 DEF JumpsResolve
<1>9. \A l \in Labels(e) : e.labels[l] # Unmarked => e.labels[l] \in 0 .. Len(e.code)
  BY <1>1, <1>2, <1>4, <1>6 DEF Resolved
<1> QED
  BY <1>2, <1>3, <1>8, <1>9 DEF Resolved, i, e

LEMMA NewLabelResolved ==
  ASSUME NEW b, Resolved(b)
  PROVE  /\ Resolved(NewLabel(b))
         /\ NewLabel(b).code = b.code
         /\ NewLabel(b).labels = Append(b.labels, Unmarked)
         /\ NewLabel(b).pending = b.pending
<1> DEFINE e == NewLabel(b)
<1>1. b \in Bytecodes
  BY DEF Resolved
<1>2. e.code = b.code /\ e.labels = Append(b.labels, Unmarked) /\ e.pending = b.pending
  BY <1>1 DEF NewLabel, Bytecodes
<1>3. e \in Bytecodes
  BY <1>1 DEF NewLabel, Bytecodes
<1>4. /\ Labels(e) = Labels(b) \cup {Len(b.labels) + 1}
      /\ \A l \in Labels(b) : e.labels[l] = b.labels[l]
      /\ e.labels[Len(b.labels) + 1] = Unmarked
  BY <1>1, <1>2 DEF Labels, Bytecodes
<1> HIDE DEF e
<1>5. Addresses(e) = Addresses(b)
  BY <1>2 DEF Addresses
<1>6. JumpsResolve(b)
  BY DEF Resolved
<1>7. JumpsResolve(e)
  <2>1. ASSUME NEW a \in Addresses(b), b.code[a + 1].label # NoLabel
        PROVE  /\ b.code[a + 1].label \in Labels(e)
               /\ IF e.labels[b.code[a + 1].label] = Unmarked
                  THEN [label |-> b.code[a + 1].label, address |-> a] \in b.pending
                  ELSE b.code[a + 1].arg = e.labels[b.code[a + 1].label]
    BY <2>1, <1>4, <1>6 DEF JumpsResolve
  <2>2. ASSUME NEW p \in b.pending
        PROVE  /\ p.address \in Addresses(b) /\ p.label \in Labels(e)
               /\ b.code[p.address + 1].label = p.label
               /\ e.labels[p.label] = Unmarked
    BY <2>2, <1>4, <1>6 DEF JumpsResolve
  <2> QED
    BY <2>1, <2>2, <1>2, <1>5 DEF JumpsResolve
<1>8. ASSUME NEW l \in Labels(e), e.labels[l] # Unmarked
      PROVE  e.labels[l] \in 0 .. Len(e.code)
  <2>1. l \in Labels(b) /\ e.labels[l] = b.labels[l]
    BY <1>4, <1>8
  <2> QED
    BY <2>1, <1>2, <1>8 DEF Resolved
<1> QED
  BY <1>2, <1>3, <1>7, <1>8 DEF Resolved, e

(* bytecode_push of a jump: the address of its label if it has one, else   *)
(* the jump waits.                                                         *)
LEMMA EmitJumpResolved ==
  ASSUME NEW b, Resolved(b), NEW op \in Jumps, NEW l \in Labels(b)
  PROVE  /\ Resolved(EmitJump(b, op, l))
         /\ \E arg \in Nat :
              EmitJump(b, op, l).code = Append(b.code, [op |-> op, arg |-> arg, label |-> l])
         /\ EmitJump(b, op, l).labels = b.labels
<1> DEFINE marked == b.labels[l] # Unmarked
           i == [op |-> op, arg |-> IF marked THEN b.labels[l] ELSE 0, label |-> l]
           new == IF marked THEN {} ELSE {[label |-> l, address |-> Len(b.code)]}
           e == EmitJump(b, op, l)
<1>1. b \in Bytecodes
  BY DEF Resolved
<1>2. l \in Nat /\ l # NoLabel /\ Len(b.code) \in Nat
  BY <1>1 DEF Bytecodes, Labels, NoLabel
<1>3. marked => b.labels[l] \in Nat
  BY <1>1 DEF Bytecodes, Labels
<1>4. i \in Instruction /\ i.label = l /\ i.op = op
      /\ i.arg = IF marked THEN b.labels[l] ELSE 0
  BY <1>2, <1>3 DEF Instruction, Ops
<1>5. e = [b EXCEPT !.code = Append(b.code, i), !.pending = b.pending \cup new]
  <2>1. CASE marked
    <3>1. e = [b EXCEPT !.code = Append(b.code, i)]
      BY <2>1 DEF EmitJump
    <3>2. b.pending \cup new = b.pending
      BY <2>1
    <3> HIDE DEF new, i, e
    <3> QED
      BY <1>1, <3>1, <3>2 DEF Bytecodes
  <2>2. CASE ~marked
    BY <2>2 DEF EmitJump
  <2> QED
    BY <2>1, <2>2
<1>6. new \subseteq [label : Nat, address : Nat]
  BY <1>2
<1>7. \A p \in new : p.label = l /\ p.address = Len(b.code) /\ ~marked
  OBVIOUS
<1>8. ~marked => [label |-> l, address |-> Len(b.code)] \in new
  OBVIOUS
<1>9. i.arg \in Nat /\ i = [op |-> op, arg |-> i.arg, label |-> l]
  BY <1>4 DEF Instruction
<1>10. (marked <=> b.labels[l] # Unmarked) /\ marked \in BOOLEAN
  OBVIOUS
<1> HIDE DEF i, e, new, marked
<1>11. e.code = Append(b.code, i) /\ e.labels = b.labels /\ e.pending = b.pending \cup new
  BY <1>1, <1>5 DEF Bytecodes
<1>12. e \in Bytecodes
  <2>1. b.code \in Seq(Instruction) /\ b.pending \cup new \subseteq [label : Nat, address : Nat]
    BY <1>1, <1>6 DEF Bytecodes
  <2>2. Append(b.code, i) \in Seq(Instruction)
    BY <2>1, <1>4
  <2> QED
    BY <1>1, <1>5, <2>1, <2>2 DEF Bytecodes
<1>13. /\ Len(e.code) = Len(b.code) + 1 /\ e.code[Len(b.code) + 1] = i
       /\ \A a \in Addresses(b) : e.code[a + 1] = b.code[a + 1]
  BY <1>1, <1>4, <1>11 DEF Bytecodes, Addresses
<1>14. Labels(e) = Labels(b) /\ Addresses(e) = Addresses(b) \cup {Len(b.code)}
  BY <1>2, <1>11, <1>13 DEF Addresses, Labels
<1>15. JumpsResolve(e)
  <2>1. ASSUME NEW a \in Addresses(e), e.code[a + 1].label # NoLabel
        PROVE  /\ e.code[a + 1].label \in Labels(e)
               /\ IF e.labels[e.code[a + 1].label] = Unmarked
                  THEN [label |-> e.code[a + 1].label, address |-> a] \in e.pending
                  ELSE e.code[a + 1].arg = e.labels[e.code[a + 1].label]
    <3>1. CASE a \in Addresses(b)
      <4>1. /\ b.code[a + 1].label \in Labels(b)
            /\ IF b.labels[b.code[a + 1].label] = Unmarked
               THEN [label |-> b.code[a + 1].label, address |-> a] \in b.pending
               ELSE b.code[a + 1].arg = b.labels[b.code[a + 1].label]
        BY <3>1, <2>1, <1>13 DEF Resolved, JumpsResolve
      <4> QED
        BY <3>1, <4>1, <1>11, <1>13, <1>14
    <3>2. CASE a = Len(b.code)
      BY <3>2, <1>4, <1>8, <1>10, <1>11, <1>13, <1>14
    <3> QED
      BY <3>1, <3>2, <1>14
  <2>2. ASSUME NEW p \in e.pending
        PROVE  /\ p.address \in Addresses(e) /\ p.label \in Labels(e)
               /\ e.code[p.address + 1].label = p.label
               /\ e.labels[p.label] = Unmarked
    <3>1. CASE p \in b.pending
      <4>1. p.address \in Addresses(b) /\ p.label \in Labels(b)
            /\ b.code[p.address + 1].label = p.label /\ b.labels[p.label] = Unmarked
        BY <3>1 DEF Resolved, JumpsResolve
      <4> QED
        BY <4>1, <1>11, <1>13, <1>14
    <3>2. CASE p \in new
      BY <3>2, <1>4, <1>7, <1>10, <1>11, <1>13, <1>14
    <3> QED
      BY <3>1, <3>2, <1>11
  <2> QED
    BY <2>1, <2>2 DEF JumpsResolve
<1>16. ASSUME NEW k \in Labels(e), e.labels[k] # Unmarked
       PROVE  e.labels[k] \in 0 .. Len(e.code)
  <2>1. k \in Labels(b) /\ b.labels[k] \in 0 .. Len(b.code)
    BY <1>11, <1>14, <1>16 DEF Resolved
  <2> QED
    BY <2>1, <1>2, <1>11, <1>13
<1> QED
  BY <1>9, <1>11, <1>12, <1>15, <1>16 DEF Resolved, e

(* bytecode_mark_label, of a label not marked before, patches the jumps    *)
(* that wait for it, and changes no instruction but in its argument.       *)
LEMMA MarkResolved ==
  ASSUME NEW b, Resolved(b), NEW l \in Labels(b), b.labels[l] = Unmarked
  PROVE  /\ Resolved(Mark(b, l))
         /\ Len(Mark(b, l).code) = Len(b.code)
         /\ \A j \in 1 .. Len(b.code) :
              Mark(b, l).code[j].op = b.code[j].op /\ Mark(b, l).code[j].label = b.code[j].label
         /\ Mark(b, l).labels = [b.labels EXCEPT ![l] = Len(b.code)]
<1> DEFINE n == Len(b.code)
           waiting == {p \in b.pending : p.label = l}
           patched == [i \in DOMAIN b.code |->
                         IF \E p \in waiting : p.address = i - 1
                         THEN [b.code[i] EXCEPT !.arg = n] ELSE b.code[i]]
           labels2 == [b.labels EXCEPT ![l] = n]
           e == Mark(b, l)
<1>1. b.code \in Seq(Instruction) /\ b.labels \in Seq(Nat \cup {Unmarked})
      /\ b.pending \subseteq [label : Nat, address : Nat] /\ n \in Nat
      /\ DOMAIN b.code = 1 .. n
  BY DEF Resolved, Bytecodes
<1>2. e = [code |-> patched, labels |-> labels2, pending |-> b.pending \ waiting]
  BY DEF Mark
<1>3. \A j \in 1 .. n : /\ patched[j] \in Instruction
                        /\ patched[j].op = b.code[j].op /\ patched[j].label = b.code[j].label
                        /\ patched[j].arg = IF \E p \in waiting : p.address = j - 1
                                            THEN n ELSE b.code[j].arg
  <2> SUFFICES ASSUME NEW j \in 1 .. n
               PROVE  /\ patched[j] \in Instruction
                      /\ patched[j].op = b.code[j].op /\ patched[j].label = b.code[j].label
                      /\ patched[j].arg = IF \E p \in waiting : p.address = j - 1
                                          THEN n ELSE b.code[j].arg
    OBVIOUS
  <2>1. b.code[j] \in Instruction
    BY <1>1
  <2>2. patched[j] = IF \E p \in waiting : p.address = j - 1
                     THEN [b.code[j] EXCEPT !.arg = n] ELSE b.code[j]
    BY <1>1
  <2> HIDE DEF patched, waiting
  <2> QED
    BY <1>1, <2>1, <2>2 DEF Instruction
<1>4. DOMAIN patched = 1 .. n
  BY <1>1
<1>5. \A p : p \in waiting <=> p \in b.pending /\ p.label = l
  OBVIOUS
<1>6. patched = [j \in 1 .. n |-> patched[j]]
  BY <1>1
<1>7. /\ labels2 \in Seq(Nat \cup {Unmarked}) /\ DOMAIN labels2 = DOMAIN b.labels
      /\ \A k \in DOMAIN b.labels : labels2[k] = IF k = l THEN n ELSE b.labels[k]
  BY <1>1 DEF Labels
<1> HIDE DEF patched, waiting, labels2, e
<1>8. patched \in Seq(Instruction) /\ Len(patched) = n
  <2>1. patched \in [1 .. n -> Instruction]
    BY <1>3, <1>6
  <2> QED
    BY <1>1, <2>1, FunctionIsSeq
<1>9. e.code = patched /\ e.labels = labels2 /\ e.pending = b.pending \ waiting
  BY <1>2
<1>10. e \in Bytecodes
  BY <1>1, <1>2, <1>7, <1>8 DEF Bytecodes
<1>11. /\ Addresses(e) = Addresses(b) /\ Labels(e) = Labels(b)
       /\ \A a \in Addresses(b) : a + 1 \in 1 .. n /\ (a + 1) - 1 = a
  BY <1>1, <1>7, <1>8, <1>9 DEF Addresses, Labels
<1>12. n # Unmarked
  BY <1>1 DEF Unmarked
<1> HIDE DEF n
<1>13. JumpsResolve(e)
  <2>1. ASSUME NEW a \in Addresses(b), patched[a + 1].label # NoLabel
        PROVE  /\ patched[a + 1].label \in Labels(b)
               /\ IF labels2[patched[a + 1].label] = Unmarked
                  THEN [label |-> patched[a + 1].label, address |-> a] \in b.pending \ waiting
                  ELSE patched[a + 1].arg = labels2[patched[a + 1].label]
    <3> DEFINE k == b.code[a + 1].label
    <3>1. patched[a + 1].label = k /\ k # NoLabel
      BY <2>1, <1>3, <1>11
    <3>2. /\ k \in Labels(b)
          /\ IF b.labels[k] = Unmarked THEN [label |-> k, address |-> a] \in b.pending
             ELSE b.code[a + 1].arg = b.labels[k]
      BY <3>1 DEF Resolved, JumpsResolve
    <3>3. patched[a + 1].arg = IF \E p \in waiting : p.address = a
                               THEN n ELSE b.code[a + 1].arg
      BY <1>3, <1>11
    <3>4. labels2[k] = IF k = l THEN n ELSE b.labels[k]
      BY <3>2, <1>7 DEF Labels
    <3>5. \A p \in waiting : p.address = a => k = l
      BY <1>5 DEF Resolved, JumpsResolve
    <3> HIDE DEF k
    <3>6. CASE k = l
      <4>1. [label |-> k, address |-> a] \in waiting
        BY <3>2, <3>6, <1>5
      <4>2. \E p \in waiting : p.address = a
        BY <4>1
      <4> QED
        BY <4>2, <3>1, <3>2, <3>3, <3>4, <3>6, <1>12
    <3>7. CASE k # l
      <4>1. patched[a + 1].arg = b.code[a + 1].arg
        BY <3>3, <3>5, <3>7
      <4>2. [label |-> k, address |-> a] \notin waiting
        BY <3>7, <1>5
      <4> QED
        BY <4>1, <4>2, <3>1, <3>2, <3>4, <3>7
    <3> QED
      BY <3>6, <3>7
  <2>2. ASSUME NEW p \in b.pending \ waiting
        PROVE  /\ p.address \in Addresses(b) /\ p.label \in Labels(b)
               /\ patched[p.address + 1].label = p.label
               /\ labels2[p.label] = Unmarked
    <3>1. p.address \in Addresses(b) /\ p.label \in Labels(b)
          /\ b.code[p.address + 1].label = p.label /\ b.labels[p.label] = Unmarked
      BY DEF Resolved, JumpsResolve
    <3>2. p.label # l
      BY <1>5
    <3> QED
      BY <3>1, <3>2, <1>3, <1>7, <1>11 DEF Labels
  <2> QED
    BY <2>1, <2>2, <1>9, <1>11 DEF JumpsResolve
<1>14. ASSUME NEW k \in Labels(b), labels2[k] # Unmarked
       PROVE  labels2[k] \in 0 .. n
  BY <1>1, <1>7, <1>14 DEF Resolved, Labels, n
<1> QED
  BY <1>3, <1>8, <1>9, <1>10, <1>11, <1>13, <1>14 DEF Resolved, e, n, labels2
-----------------------------------------------------------------------------
(* Types.  Prefix(h, k) are the handlers without the innermost ones.       *)
Prefix(h, k) == SubSeq(h, 1, k)
Outer(h) == Prefix(h, Len(h) - 1)

(* A list of handlers: the labels of catch blocks, each of which runs with *)
(* the handlers up to itself; no more of them than the try stack holds.    *)
Handlers(b, L, mx, h) ==
  /\ h \in Seq(Nat) /\ Len(h) <= mx
  /\ \A i \in DOMAIN h : h[i] \in Labels(b) /\ L[h[i]] = Prefix(h, i)

(* The instruction op, of label l, goes from handlers h and n operands to  *)
(* h2 and n2; a jump, to the handlers of its label and no operand.         *)
Fits(op, l, L, h, n, h2, n2) ==
  /\ n2 <= n + StackEffect(op)
  /\ op \in Jumps => l # NoLabel
  /\ op \in {"PUSH", "CALL", "POP"} => h2 = h /\ n2 = n + StackEffect(op)
  /\ op = "JUMP" => L[l] = h /\ n = 0
  /\ op = "JUMP_IF_FALSE" => L[l] = h /\ h2 = h /\ n = 1 /\ n2 = 0
  /\ op = "PUSH_TRY" => L[l] = Append(h, l) /\ h2 = Append(h, l) /\ n2 = n
  /\ op \in {"POP_TRY", "CATCH"} => h # <<>> /\ h2 = Outer(h) /\ n2 = n + StackEffect(op)
  /\ op \in {"THROW", "RETURN"} => n = 1 /\ n2 = 0

(* The addresses of b have the types hs and ns, its end H and m, and the   *)
(* statements st start with the handlers they were recorded with.          *)
Typed(b, L, mx, hs, ns, H, m, st) ==
  /\ hs[0] = <<>> /\ ns[0] = 0
  /\ hs[Len(b.code)] = H /\ ns[Len(b.code)] = m
  /\ \A a \in 0 .. Len(b.code) : Handlers(b, L, mx, hs[a]) /\ ns[a] \in Nat
  /\ \A a \in Addresses(b) :
       Fits(b.code[a + 1].op, b.code[a + 1].label, L, hs[a], ns[a], hs[a + 1], ns[a + 1])
  /\ \A l \in Labels(b) : b.labels[l] # Unmarked =>
       hs[b.labels[l]] = L[l] /\ ns[b.labels[l]] = 0
  /\ \A s \in st : /\ s.address \in 0 .. Len(b.code)
                   /\ hs[s.address] = s.handlers /\ ns[s.address] = 0

Sound(b, L, mx, H, m, st) ==
  /\ Resolved(b)
  /\ \E hs \in [0 .. Len(b.code) -> Seq(Nat)], ns \in [0 .. Len(b.code) -> Nat] :
       Typed(b, L, mx, hs, ns, H, m, st)

LEMMA SoundHere ==
  ASSUME NEW b, NEW L, NEW mx, NEW H, NEW m, NEW st, Sound(b, L, mx, H, m, st)
  PROVE  Handlers(b, L, mx, H) /\ m \in Nat /\ Len(b.code) \in Nat /\ b \in Bytecodes
BY DEF Sound, Typed, Resolved, Bytecodes

(* A prefix of a list of handlers is one.                                  *)
LEMMA PrefixHandlers ==
  ASSUME NEW b, NEW L, NEW mx \in Nat, NEW h, Handlers(b, L, mx, h), NEW k \in 0 .. Len(h)
  PROVE  Handlers(b, L, mx, Prefix(h, k)) /\ Len(Prefix(h, k)) = k
<1>1. h \in Seq(Nat) /\ Len(h) \in Nat /\ Len(h) <= mx
  BY DEF Handlers
<1>2. /\ Prefix(h, k) \in Seq(Nat) /\ Len(Prefix(h, k)) = k
      /\ \A i \in 1 .. k : Prefix(h, k)[i] = h[i] /\ Prefix(Prefix(h, k), i) = Prefix(h, i)
  BY <1>1 DEF Prefix
<1>3. ASSUME NEW i \in DOMAIN Prefix(h, k)
      PROVE  Prefix(h, k)[i] \in Labels(b) /\ L[Prefix(h, k)[i]] = Prefix(Prefix(h, k), i)
  <2>1. i \in 1 .. k /\ i \in DOMAIN h
    BY <1>1, <1>2
  <2> QED
    BY <2>1, <1>2 DEF Handlers
<1> QED
  BY <1>1, <1>2, <1>3 DEF Handlers

(* The types of labels still to be made may be chosen later, and the try   *)
(* stack may grow.                                                         *)
LEMMA AgreeSound ==
  ASSUME NEW b, NEW L, NEW L2, NEW mx \in Nat, NEW mx2 \in Nat, mx <= mx2,
         NEW H, NEW m, NEW st, Sound(b, L, mx, H, m, st),
         \A l \in Labels(b) : L2[l] = L[l]
  PROVE  Sound(b, L2, mx2, H, m, st)
<1>1. PICK hs \in [0 .. Len(b.code) -> Seq(Nat)], ns \in [0 .. Len(b.code) -> Nat] :
        Typed(b, L, mx, hs, ns, H, m, st)
  BY DEF Sound
<1>2. ASSUME NEW h, Handlers(b, L, mx, h)
      PROVE  Handlers(b, L2, mx2, h)
  BY <1>2 DEF Handlers
<1>3. ASSUME NEW a \in Addresses(b)
      PROVE  Fits(b.code[a + 1].op, b.code[a + 1].label, L2, hs[a], ns[a], hs[a + 1], ns[a + 1])
  <2>1. Fits(b.code[a + 1].op, b.code[a + 1].label, L, hs[a], ns[a], hs[a + 1], ns[a + 1])
    BY <1>1 DEF Typed
  <2>2. b.code[a + 1].label # NoLabel => b.code[a + 1].label \in Labels(b)
    BY DEF Sound, Resolved, JumpsResolve
  <2> QED
    BY <2>1, <2>2 DEF Fits, Jumps
<1>4. Typed(b, L2, mx2, hs, ns, H, m, st)
  BY <1>1, <1>2, <1>3 DEF Typed
<1> QED
  BY <1>4 DEF Sound

LEMMA NewLabelSound ==
  ASSUME NEW b, NEW L, NEW mx, NEW H, NEW m, NEW st, Sound(b, L, mx, H, m, st)
  PROVE  Sound(NewLabel(b), L, mx, H, m, st)
<1> DEFINE e == NewLabel(b)
<1>1. PICK hs \in [0 .. Len(b.code) -> Seq(Nat)], ns \in [0 .. Len(b.code) -> Nat] :
        Typed(b, L, mx, hs, ns, H, m, st)
  BY DEF Sound
<1>2. Resolved(b) /\ b.labels \in Seq(Nat \cup {Unmarked})
  BY DEF Sound, Resolved, Bytecodes
<1>3. Resolved(e) /\ e.code = b.code /\ e.labels = Append(b.labels, Unmarked)
  BY <1>2, NewLabelResolved
<1> HIDE DEF e
<1>4. /\ Labels(b) \subseteq Labels(e) /\ Addresses(e) = Addresses(b)
      /\ \A l \in Labels(e) : e.labels[l] # Unmarked =>
           l \in Labels(b) /\ e.labels[l] = b.labels[l]
  BY <1>2, <1>3 DEF Labels, Addresses
<1>5. ASSUME NEW h, Handlers(b, L, mx, h)
      PROVE  Handlers(e, L, mx, h)
  BY <1>5, <1>4 DEF Handlers
<1>6. Typed(e, L, mx, hs, ns, H, m, st)
  BY <1>1, <1>3, <1>4, <1>5 DEF Typed
<1> QED
  BY <1>3, <1>6 DEF Sound, e

(* One more instruction, whatever the operation that appends it.           *)
LEMMA AppendSound ==
  ASSUME NEW b, NEW L, NEW mx, NEW H, NEW m, NEW st, Sound(b, L, mx, H, m, st),
         NEW e, Resolved(e), e.labels = b.labels,
         NEW i, e.code = Append(b.code, i),
         NEW H2, NEW m2 \in Nat, Handlers(b, L, mx, H2),
         Fits(i.op, i.label, L, H, m, H2, m2)
  PROVE  Sound(e, L, mx, H2, m2, st)
<1> DEFINE n == Len(b.code)
<1>1. PICK hs \in [0 .. n -> Seq(Nat)], ns \in [0 .. n -> Nat] :
        Typed(b, L, mx, hs, ns, H, m, st)
  BY DEF Sound
<1> DEFINE hs2 == [a \in 0 .. n + 1 |-> IF a <= n THEN hs[a] ELSE H2]
           ns2 == [a \in 0 .. n + 1 |-> IF a <= n THEN ns[a] ELSE m2]
<1>2. b.code \in Seq(Instruction) /\ n \in Nat /\ Resolved(b) /\ Len(e.code) \in Nat
  BY DEF Sound, Resolved, Bytecodes
<1>3. Len(e.code) = n + 1 /\ e.code[n + 1] = i /\ \A a \in 0 .. n - 1 : e.code[a + 1] = b.code[a + 1]
  BY <1>2 
<1>4. H2 \in Seq(Nat)
  BY DEF Handlers
<1> HIDE DEF n
<1>5. hs2 \in [0 .. n + 1 -> Seq(Nat)] /\ ns2 \in [0 .. n + 1 -> Nat]
  <2>1. ASSUME NEW a \in 0 .. n + 1
        PROVE  /\ (IF a <= n THEN hs[a] ELSE H2) \in Seq(Nat)
               /\ (IF a <= n THEN ns[a] ELSE m2) \in Nat
    <3>1. CASE a <= n
      <4>1. a \in 0 .. n
        BY <3>1, <1>2
      <4> QED
        BY <4>1, <3>1
    <3>2. CASE ~(a <= n)
      BY <3>2, <1>4
    <3> QED
      BY <3>1, <3>2
  <2> QED
    BY <2>1
<1>6. /\ \A a \in 0 .. n : a \in 0 .. n + 1 /\ hs2[a] = hs[a] /\ ns2[a] = ns[a]
      /\ hs2[n + 1] = H2 /\ ns2[n + 1] = m2
  BY <1>2
<1> HIDE DEF hs2, ns2
<1>7. Labels(e) = Labels(b) /\ Addresses(b) = 0 .. n - 1 /\ Addresses(e) = (0 .. n - 1) \cup {n}
  BY <1>2, <1>3 DEF Labels, Addresses, n
<1>8. ASSUME NEW h, Handlers(b, L, mx, h)
      PROVE  Handlers(e, L, mx, h)
  BY <1>7, <1>8 DEF Handlers
<1>9. hs[0] = <<>> /\ ns[0] = 0 /\ hs[n] = H /\ ns[n] = m
  BY <1>1 DEF Typed, n
<1>10. hs2[0] = <<>> /\ ns2[0] = 0 /\ hs2[n + 1] = H2 /\ ns2[n + 1] = m2
       /\ hs2[n] = H /\ ns2[n] = m
  <2>1. 0 \in 0 .. n /\ n \in 0 .. n
    BY <1>2
  <2> QED
    BY <2>1, <1>6, <1>9
<1>11. ASSUME NEW a \in 0 .. n + 1
       PROVE  Handlers(e, L, mx, hs2[a]) /\ ns2[a] \in Nat
  <2>1. CASE a \in 0 .. n
    <3>1. Handlers(b, L, mx, hs[a]) /\ ns[a] \in Nat
      BY <1>1, <2>1 DEF Typed, n
    <3> QED
      BY <2>1, <3>1, <1>6, <1>8
  <2>2. CASE a = n + 1
    BY <2>2, <1>8, <1>10
  <2> QED
    BY <2>1, <2>2, <1>2
<1>12. ASSUME NEW a \in Addresses(e)
       PROVE  Fits(e.code[a + 1].op, e.code[a + 1].label, L, hs2[a], ns2[a], hs2[a + 1], ns2[a + 1])
  <2>1. CASE a \in 0 .. n - 1
    <3>1. Fits(b.code[a + 1].op, b.code[a + 1].label, L, hs[a], ns[a], hs[a + 1], ns[a + 1])
      BY <1>1, <1>7, <2>1 DEF Typed
    <3>2. a \in 0 .. n /\ a + 1 \in 0 .. n
      BY <2>1, <1>2
    <3> QED
      BY <2>1, <3>1, <3>2, <1>3, <1>6
  <2>2. CASE a = n
    BY <2>2, <1>3, <1>10
  <2> QED
    BY <2>1, <2>2, <1>7
<1>13. ASSUME NEW l \in Labels(e), e.labels[l] # Unmarked
       PROVE  hs2[e.labels[l]] = L[l] /\ ns2[e.labels[l]] = 0
  <2>1. b.labels[l] \in 0 .. n
    BY <1>2, <1>7, <1>13 DEF Resolved, n
  <2>2. hs[b.labels[l]] = L[l] /\ ns[b.labels[l]] = 0
    BY <1>1, <1>7, <1>13 DEF Typed
  <2> QED
    BY <2>1, <2>2, <1>6
<1>14. ASSUME NEW s \in st
       PROVE  s.address \in 0 .. n + 1 /\ hs2[s.address] = s.handlers /\ ns2[s.address] = 0
  <2>1. s.address \in 0 .. n /\ hs[s.address] = s.handlers /\ ns[s.address] = 0
    BY <1>1 DEF Typed, n
  <2> QED
    BY <2>1, <1>6
<1>15. Typed(e, L, mx, hs2, ns2, H2, m2, st)
  BY <1>3, <1>10, <1>11, <1>12, <1>13, <1>14 DEF Typed
<1> QED
  BY <1>3, <1>5, <1>15 DEF Sound

LEMMA EmitSound ==
  ASSUME NEW b, NEW L, NEW mx, NEW H, NEW m, NEW st, Sound(b, L, mx, H, m, st),
         NEW op \in Ops \ Jumps, NEW H2, NEW m2 \in Nat, Handlers(b, L, mx, H2),
         Fits(op, NoLabel, L, H, m, H2, m2)
  PROVE  Sound(Emit(b, op), L, mx, H2, m2, st) /\ Emit(b, op).labels = b.labels
<1> DEFINE i == [op |-> op, arg |-> 0, label |-> NoLabel]
<1>1. Resolved(b)
  BY DEF Sound
<1>2. Resolved(Emit(b, op)) /\ Emit(b, op).code = Append(b.code, i) /\ Emit(b, op).labels = b.labels
  BY <1>1, EmitResolved
<1>3. i.op = op /\ i.label = NoLabel
  OBVIOUS
<1> HIDE DEF i
<1>4. Sound(Emit(b, op), L, mx, H2, m2, st)
  BY <1>2, <1>3, AppendSound
<1> QED
  BY <1>2, <1>4

LEMMA EmitJumpSound ==
  ASSUME NEW b, NEW L, NEW mx, NEW H, NEW m, NEW st, Sound(b, L, mx, H, m, st),
         NEW op \in Jumps, NEW l \in Labels(b), NEW H2, NEW m2 \in Nat,
         Handlers(b, L, mx, H2), Fits(op, l, L, H, m, H2, m2)
  PROVE  Sound(EmitJump(b, op, l), L, mx, H2, m2, st) /\ EmitJump(b, op, l).labels = b.labels
<1>1. Resolved(b)
  BY DEF Sound
<1>2. Resolved(EmitJump(b, op, l)) /\ EmitJump(b, op, l).labels = b.labels
  BY <1>1, EmitJumpResolved
<1>3. PICK arg \in Nat :
        EmitJump(b, op, l).code = Append(b.code, [op |-> op, arg |-> arg, label |-> l])
  BY <1>1, EmitJumpResolved
<1> DEFINE i == [op |-> op, arg |-> arg, label |-> l]
<1>4. i.op = op /\ i.label = l /\ EmitJump(b, op, l).code = Append(b.code, i)
  BY <1>3
<1> HIDE DEF i
<1>5. Sound(EmitJump(b, op, l), L, mx, H2, m2, st)
  BY <1>2, <1>4, AppendSound
<1> QED
  BY <1>2, <1>5

(* A label may be marked where its handlers are in force.                  *)
LEMMA MarkSound ==
  ASSUME NEW b, NEW L, NEW mx, NEW H, NEW st, Sound(b, L, mx, H, 0, st),
         NEW l \in Labels(b), b.labels[l] = Unmarked, L[l] = H
  PROVE  Sound(Mark(b, l), L, mx, H, 0, st)
         /\ Mark(b, l).labels = [b.labels EXCEPT ![l] = Len(b.code)]
<1> DEFINE e == Mark(b, l)
           n == Len(b.code)
<1>1. PICK hs \in [0 .. n -> Seq(Nat)], ns \in [0 .. n -> Nat] :
        Typed(b, L, mx, hs, ns, H, 0, st)
  BY DEF Sound
<1>2. Resolved(b) /\ b.code \in Seq(Instruction) /\ n \in Nat
      /\ b.labels \in Seq(Nat \cup {Unmarked})
  BY DEF Sound, Resolved, Bytecodes
<1>3. /\ Resolved(e) /\ Len(e.code) = n
      /\ \A j \in 1 .. n : e.code[j].op = b.code[j].op /\ e.code[j].label = b.code[j].label
      /\ e.labels = [b.labels EXCEPT ![l] = n]
  BY <1>2, MarkResolved
<1> HIDE DEF e
<1>4. Labels(e) = Labels(b) /\ Addresses(e) = Addresses(b) /\ Addresses(b) = 0 .. n - 1
  BY <1>2, <1>3 DEF Labels, Addresses
<1>5. ASSUME NEW h, Handlers(b, L, mx, h)
      PROVE  Handlers(e, L, mx, h)
  BY <1>4, <1>5 DEF Handlers
<1>6. ASSUME NEW a \in Addresses(e)
      PROVE  Fits(e.code[a + 1].op, e.code[a + 1].label, L, hs[a], ns[a], hs[a + 1], ns[a + 1])
  <2>1. a + 1 \in 1 .. n
    BY <1>2, <1>4
  <2> QED
    BY <2>1, <1>1, <1>3, <1>4 DEF Typed
<1>7. ASSUME NEW k \in Labels(e), e.labels[k] # Unmarked
      PROVE  hs[e.labels[k]] = L[k] /\ ns[e.labels[k]] = 0
  <2>1. k \in Labels(b) /\ e.labels[k] = IF k = l THEN n ELSE b.labels[k]
    BY <1>2, <1>3, <1>4 DEF Labels
  <2>2. hs[n] = H /\ ns[n] = 0
    BY <1>1 DEF Typed
  <2> HIDE DEF n
  <2> QED
    BY <2>1, <2>2, <1>1, <1>7 DEF Typed
<1>8. Typed(e, L, mx, hs, ns, H, 0, st)
  BY <1>1, <1>3, <1>4, <1>5, <1>6, <1>7 DEF Typed
<1> QED
  BY <1>3, <1>8 DEF Sound, e

LEMMA MarkedSound ==
  ASSUME NEW b, NEW L, NEW mx, NEW H, NEW st, Sound(b, L, mx, H, 0, st),
         NEW l \in Labels(b), b.labels[l] = Unmarked, L[l] = H
  PROVE  /\ Sound(Mark(b, l), L, mx, H, 0, st)
         /\ \E a \in Nat : Mark(b, l).labels = [b.labels EXCEPT ![l] = a]
         /\ Labels(Mark(b, l)) = Labels(b)
         /\ \A j \in Labels(b) :
              Mark(b, l).labels[j] = Unmarked <=> b.labels[j] = Unmarked /\ j # l
<1>1. Sound(Mark(b, l), L, mx, H, 0, st)
      /\ Mark(b, l).labels = [b.labels EXCEPT ![l] = Len(b.code)]
  BY MarkSound
<1>2. Len(b.code) \in Nat
  BY SoundHere
<1>3. Len(b.code) # Unmarked
  BY <1>2 DEF Unmarked
<1> QED
  BY <1>1, <1>2, <1>3 DEF Labels

(* A statement starts here.                                                *)
LEMMA StartSound ==
  ASSUME NEW b, NEW L, NEW mx, NEW H, NEW st, Sound(b, L, mx, H, 0, st)
  PROVE  Sound(b, L, mx, H, 0, st \cup {[address |-> Len(b.code), handlers |-> H]})
<1> DEFINE new == [address |-> Len(b.code), handlers |-> H]
<1>1. PICK hs \in [0 .. Len(b.code) -> Seq(Nat)], ns \in [0 .. Len(b.code) -> Nat] :
        Typed(b, L, mx, hs, ns, H, 0, st)
  BY DEF Sound
<1>2. new.address = Len(b.code) /\ new.handlers = H /\ Len(b.code) \in Nat
  BY SoundHere
<1> HIDE DEF new
<1>3. Typed(b, L, mx, hs, ns, H, 0, st \cup {new})
  BY <1>1, <1>2 DEF Typed
<1> QED
  BY <1>3 DEF Sound, new

(* PopTries: n of the handlers are taken off.                              *)
LEMMA PopTriesResolved ==
  ASSUME NEW b, Resolved(b), NEW n \in Nat
  PROVE  /\ Resolved(PopTries(b, n))
         /\ PopTries(b, n).labels = b.labels
         /\ Len(PopTries(b, n).code) = Len(b.code) + n
         /\ \A j \in 1 .. Len(b.code) : PopTries(b, n).code[j] = b.code[j]
         /\ \A j \in Len(b.code) + 1 .. Len(b.code) + n :
              PopTries(b, n).code[j].op = "POP_TRY" /\ PopTries(b, n).code[j].label = NoLabel
<1> DEFINE i == [op |-> "POP_TRY", arg |-> 0, label |-> NoLabel]
           pops == [k \in 1 .. n |-> i]
           e == PopTries(b, n)
           len == Len(b.code)
<1>1. b \in Bytecodes /\ b.code \in Seq(Instruction) /\ len \in Nat
      /\ b.pending \subseteq [label : Nat, address : Nat]
      /\ b.labels \in Seq(Nat \cup {Unmarked})
  BY DEF Resolved, Bytecodes
<1>2. i \in Instruction /\ i.op = "POP_TRY" /\ i.label = NoLabel
  BY DEF Instruction, Ops, NoLabel
<1>3. e = [b EXCEPT !.code = b.code \o pops]
  BY DEF PopTries
<1> HIDE DEF i
<1>4. pops \in Seq(Instruction) /\ Len(pops) = n /\ \A k \in 1 .. n : pops[k] = i
  <2>1. pops \in [1 .. n -> Instruction]
    BY <1>2
  <2> QED
    BY <2>1, FunctionIsSeq
<1> HIDE DEF pops, e
<1>5. /\ b.code \o pops \in Seq(Instruction)
      /\ Len(b.code \o pops) = len + n
      /\ \A j \in 1 .. len + n : (b.code \o pops)[j] = IF j <= len THEN b.code[j] ELSE pops[j - len]
  BY <1>1, <1>4, ConcatProperties
<1>6. e.code = b.code \o pops /\ e.labels = b.labels /\ e.pending = b.pending
  BY <1>1, <1>3 DEF Bytecodes
<1>7. e \in Bytecodes
  BY <1>1, <1>3, <1>5 DEF Bytecodes
<1> HIDE DEF len
<1>8. /\ \A j \in 1 .. len : e.code[j] = b.code[j]
      /\ \A j \in len + 1 .. len + n : e.code[j] = i
  BY <1>1, <1>4, <1>5, <1>6
<1>9. /\ Addresses(b) = 0 .. len - 1 /\ Addresses(e) = 0 .. len + n - 1
      /\ Labels(e) = Labels(b) /\ Len(e.code) = len + n
  BY <1>1, <1>5, <1>6 DEF Addresses, Labels, len
<1>10. JumpsResolve(e)
  <2>1. ASSUME NEW a \in Addresses(e), e.code[a + 1].label # NoLabel
        PROVE  /\ e.code[a + 1].label \in Labels(e)
               /\ IF e.labels[e.code[a + 1].label] = Unmarked
                  THEN [label |-> e.code[a + 1].label, address |-> a] \in e.pending
                  ELSE e.code[a + 1].arg = e.labels[e.code[a + 1].label]
    <3>1. a \in 0 .. len + n - 1
      BY <1>9
    <3>2. a + 1 \in len + 1 .. len + n => e.code[a + 1].label = NoLabel
      BY <1>2, <1>8
    <3>3. a \in Addresses(b) /\ a + 1 \in 1 .. len
      <4>1. ~(a + 1 \in len + 1 .. len + n)
        BY <2>1, <3>2
      <4>2. a \in 0 .. len - 1 /\ a + 1 \in 1 .. len
        BY <3>1, <4>1, <1>1
      <4> QED
        BY <4>2, <1>9
    <3>4. e.code[a + 1] = b.code[a + 1]
      BY <3>3, <1>8
    <3> QED
      BY <2>1, <3>3, <3>4, <1>6, <1>9 DEF Resolved, JumpsResolve
  <2>2. ASSUME NEW p \in e.pending
        PROVE  /\ p.address \in Addresses(e) /\ p.label \in Labels(e)
               /\ e.code[p.address + 1].label = p.label
               /\ e.labels[p.label] = Unmarked
    <3>1. p.address \in Addresses(b) /\ p.label \in Labels(b)
          /\ b.code[p.address + 1].label = p.label /\ b.labels[p.label] = Unmarked
      BY <1>6 DEF Resolved, JumpsResolve
    <3>2. p.address \in Addresses(e) /\ p.address + 1 \in 1 .. len
      BY <3>1, <1>1, <1>9
    <3> QED
      BY <3>1, <3>2, <1>6, <1>8, <1>9
  <2> QED
    BY <2>1, <2>2 DEF JumpsResolve
<1>11. \A l \in Labels(e) : e.labels[l] # Unmarked => e.labels[l] \in 0 .. Len(e.code)
  BY <1>1, <1>6, <1>9 DEF Resolved, len
<1> QED
  BY <1>2, <1>6, <1>7, <1>8, <1>9, <1>10, <1>11 DEF Resolved, e, len

LEMMA PopTriesSound ==
  ASSUME NEW b, NEW L, NEW mx \in Nat, NEW H, NEW st, Sound(b, L, mx, H, 0, st),
         NEW n \in 0 .. Len(H)
  PROVE  /\ Sound(PopTries(b, n), L, mx, Prefix(H, Len(H) - n), 0, st)
         /\ PopTries(b, n).labels = b.labels
<1> DEFINE len == Len(b.code)
           e == PopTries(b, n)
           top(a) == Len(H) - (a - len)
<1>1. PICK hs \in [0 .. len -> Seq(Nat)], ns \in [0 .. len -> Nat] :
        Typed(b, L, mx, hs, ns, H, 0, st)
  BY DEF Sound
<1> DEFINE hs2 == [a \in 0 .. len + n |-> IF a <= len THEN hs[a] ELSE Prefix(H, top(a))]
           ns2 == [a \in 0 .. len + n |-> IF a <= len THEN ns[a] ELSE 0]
<1>2. Resolved(b) /\ len \in Nat /\ Handlers(b, L, mx, H) /\ H \in Seq(Nat) /\ Len(H) \in Nat
      /\ n \in Nat /\ n <= Len(H)
  <2>1. Resolved(b) /\ len \in Nat /\ Handlers(b, L, mx, H)
    BY SoundHere DEF Sound
  <2>2. H \in Seq(Nat)
    BY <2>1 DEF Handlers
  <2> QED
    BY <2>1, <2>2
<1>3. /\ Resolved(e) /\ e.labels = b.labels /\ Len(e.code) = len + n
      /\ \A j \in 1 .. len : e.code[j] = b.code[j]
      /\ \A j \in len + 1 .. len + n : e.code[j].op = "POP_TRY" /\ e.code[j].label = NoLabel
  BY <1>2, PopTriesResolved
<1>4. /\ Labels(e) = Labels(b) /\ Addresses(b) = 0 .. len - 1 /\ Addresses(e) = 0 .. len + n - 1
  BY <1>2, <1>3 DEF Labels, Addresses
<1>5. hs[0] = <<>> /\ ns[0] = 0 /\ hs[len] = H /\ ns[len] = 0
  BY <1>1 DEF Typed
<1>6. ASSUME NEW h, Handlers(b, L, mx, h)
      PROVE  Handlers(e, L, mx, h)
  BY <1>4, <1>6 DEF Handlers
<1>7. \A a \in len .. len + n : top(a) \in 0 .. Len(H)
  BY <1>2
<1>8. Prefix(H, Len(H)) = H
  BY <1>2 DEF Prefix
<1> HIDE DEF len, e
<1>9. \A a \in 0 .. len : a \in 0 .. len + n /\ hs2[a] = hs[a] /\ ns2[a] = ns[a]
  BY <1>2
<1>10. \A a \in len .. len + n : hs2[a] = Prefix(H, top(a)) /\ ns2[a] = 0
  <2> SUFFICES ASSUME NEW a \in len .. len + n
               PROVE  hs2[a] = Prefix(H, top(a)) /\ ns2[a] = 0
    OBVIOUS
  <2>1. CASE a = len
    <3>1. top(a) = Len(H) /\ a \in 0 .. len
      BY <2>1, <1>2
    <3> QED
      BY <2>1, <3>1, <1>5, <1>8, <1>9
  <2>2. CASE a > len
    BY <2>2, <1>2
  <2> QED
    BY <2>1, <2>2, <1>2
<1>11. \A a \in len .. len + n :
         /\ Handlers(b, L, mx, Prefix(H, top(a)))
         /\ Len(Prefix(H, top(a))) = top(a)
  <2> SUFFICES ASSUME NEW a \in len .. len + n
               PROVE  /\ Handlers(b, L, mx, Prefix(H, top(a)))
                      /\ Len(Prefix(H, top(a))) = top(a)
    OBVIOUS
  <2>1. top(a) \in 0 .. Len(H)
    BY <1>7
  <2>2. ASSUME NEW k \in 0 .. Len(H)
        PROVE  Handlers(b, L, mx, Prefix(H, k)) /\ Len(Prefix(H, k)) = k
    <3>1. Handlers(b, L, mx, H)
      BY <1>2
    <3> QED
      BY <3>1, PrefixHandlers
  <2> QED
    BY <2>1, <2>2
<1>12. hs2 \in [0 .. len + n -> Seq(Nat)] /\ ns2 \in [0 .. len + n -> Nat]
  <2>1. ASSUME NEW a \in 0 .. len + n
        PROVE  hs2[a] \in Seq(Nat) /\ ns2[a] \in Nat
    <3>1. CASE a \in 0 .. len
      BY <3>1, <1>1, <1>9
    <3>2. CASE a \in len .. len + n
      BY <3>2, <1>10, <1>11 DEF Handlers
    <3> QED
      BY <3>1, <3>2, <1>2
  <2>2. hs2 = [a \in 0 .. len + n |-> hs2[a]] /\ ns2 = [a \in 0 .. len + n |-> ns2[a]]
    OBVIOUS
  <2> HIDE DEF hs2, ns2
  <2> QED
    BY <2>1, <2>2
<1> HIDE DEF hs2, ns2
<1>13. ASSUME NEW a \in 0 .. len + n
       PROVE  Handlers(e, L, mx, hs2[a]) /\ ns2[a] \in Nat
  <2>1. CASE a \in 0 .. len
    <3>1. Handlers(b, L, mx, hs[a]) /\ ns[a] \in Nat
      BY <1>1, <2>1 DEF Typed, len
    <3> QED
      BY <2>1, <3>1, <1>6, <1>9
  <2>2. CASE a \in len .. len + n
    BY <2>2, <1>6, <1>10, <1>11
  <2> QED
    BY <2>1, <2>2, <1>2
<1>14. ASSUME NEW a \in Addresses(e)
       PROVE  Fits(e.code[a + 1].op, e.code[a + 1].label, L, hs2[a], ns2[a], hs2[a + 1], ns2[a + 1])
  <2>1. CASE a \in 0 .. len - 1
    <3>1. Fits(b.code[a + 1].op, b.code[a + 1].label, L, hs[a], ns[a], hs[a + 1], ns[a + 1])
      BY <1>1, <1>4, <2>1 DEF Typed
    <3>2. a \in 0 .. len /\ a + 1 \in 0 .. len /\ a + 1 \in 1 .. len
      BY <2>1, <1>2
    <3> QED
      BY <3>1, <3>2, <1>3, <1>9
  <2>2. CASE a \in len .. len + n - 1
    <3> DEFINE h == Prefix(H, top(a))
               k == top(a)
    <3>1. a \in len .. len + n /\ a + 1 \in len .. len + n /\ a + 1 \in len + 1 .. len + n
          /\ top(a + 1) = k - 1 /\ k - 1 \in 0 .. Len(H) /\ k \in 0 .. Len(H)
      BY <2>2, <1>2, <1>7
    <3>2. hs2[a] = h /\ Len(h) = k /\ hs2[a + 1] = Prefix(H, k - 1) /\ ns2[a] = 0 /\ ns2[a + 1] = 0
      BY <3>1, <1>10, <1>11
    <3>3. h = Prefix(H, k)
      OBVIOUS
    <3> HIDE DEF h, k
    <3>4. h # <<>> /\ Prefix(h, k - 1) = Prefix(H, k - 1)
      <4>1. k \in 1 .. Len(H)
        BY <3>1, <1>2
      <4>2. h # <<>>
        BY <4>1, <3>2
      <4>3. Prefix(h, k - 1) = Prefix(H, k - 1)
        BY <4>1, <3>3, <1>2 DEF Prefix
      <4> QED
        BY <4>2, <4>3
    <3>5. e.code[a + 1].op = "POP_TRY" /\ e.code[a + 1].label = NoLabel
      BY <3>1, <1>3
    <3> QED
      BY <3>2, <3>4, <3>5 DEF Fits, Outer, StackEffect, Jumps
  <2> QED
    BY <2>1, <2>2, <1>2, <1>4
<1>15. ASSUME NEW l \in Labels(e), e.labels[l] # Unmarked
       PROVE  hs2[e.labels[l]] = L[l] /\ ns2[e.labels[l]] = 0
  <2>1. b.labels[l] \in 0 .. len
    BY <1>2, <1>3, <1>4, <1>15 DEF Resolved, len
  <2>2. hs[b.labels[l]] = L[l] /\ ns[b.labels[l]] = 0
    BY <1>1, <1>3, <1>4, <1>15 DEF Typed
  <2> QED
    BY <2>1, <2>2, <1>3, <1>9
<1>16. ASSUME NEW s \in st
       PROVE  s.address \in 0 .. len + n /\ hs2[s.address] = s.handlers /\ ns2[s.address] = 0
  <2>1. s.address \in 0 .. len /\ hs[s.address] = s.handlers /\ ns[s.address] = 0
    BY <1>1 DEF Typed, len
  <2> QED
    BY <2>1, <1>9
<1>17. hs2[len + n] = Prefix(H, Len(H) - n) /\ ns2[len + n] = 0 /\ hs2[0] = <<>> /\ ns2[0] = 0
  <2>1. len + n \in len .. len + n /\ top(len + n) = Len(H) - n /\ 0 \in 0 .. len
    BY <1>2
  <2> QED
    BY <2>1, <1>5, <1>9, <1>10
<1>18. Typed(e, L, mx, hs2, ns2, Prefix(H, Len(H) - n), 0, st)
  BY <1>3, <1>13, <1>14, <1>15, <1>16, <1>17 DEF Typed
<1> QED
  BY <1>3, <1>12, <1>18 DEF Sound, e
-----------------------------------------------------------------------------
(* The operations, as the statements use them.                             *)
LEMMA ExpressionSound ==
  ASSUME NEW b, NEW L, NEW mx, NEW H, NEW m, NEW st, Sound(b, L, mx, H, m, st)
  PROVE  Sound(Expression(b), L, mx, H, m + 1, st) /\ Expression(b).labels = b.labels
<1>1. Handlers(b, L, mx, H) /\ m \in Nat /\ m + 1 \in Nat
  BY SoundHere
<1> DEFINE e == Emit(b, "PUSH")
<1>2. Fits("PUSH", NoLabel, L, H, m, H, m + 1) /\ Fits("CALL", NoLabel, L, H, m + 1, H, m + 1)
  BY <1>1 DEF Fits, StackEffect, Jumps
<1>3. "PUSH" \in Ops \ Jumps /\ "CALL" \in Ops \ Jumps
  BY DEF Ops, Jumps
<1>4. Sound(e, L, mx, H, m + 1, st) /\ e.labels = b.labels
  BY <1>1, <1>2, <1>3, EmitSound
<1> HIDE DEF e
<1>5. Handlers(e, L, mx, H)
  BY <1>4, SoundHere
<1>6. Sound(Emit(e, "CALL"), L, mx, H, m + 1, st) /\ Emit(e, "CALL").labels = e.labels
  BY <1>1, <1>2, <1>3, <1>4, <1>5, EmitSound
<1> QED
  BY <1>4, <1>6 DEF Expression, e

LEMMA PushSound ==
  ASSUME NEW b, NEW L, NEW mx, NEW H, NEW m, NEW st, Sound(b, L, mx, H, m, st)
  PROVE  Sound(Emit(b, "PUSH"), L, mx, H, m + 1, st) /\ Emit(b, "PUSH").labels = b.labels
<1>1. Handlers(b, L, mx, H) /\ m \in Nat /\ m + 1 \in Nat
  BY SoundHere
<1>2. Fits("PUSH", NoLabel, L, H, m, H, m + 1) /\ "PUSH" \in Ops \ Jumps
  BY <1>1 DEF Fits, StackEffect, Ops, Jumps
<1> QED
  BY <1>1, <1>2, EmitSound

LEMMA PopSound ==
  ASSUME NEW b, NEW L, NEW mx, NEW H, NEW st, Sound(b, L, mx, H, 1, st)
  PROVE  Sound(Emit(b, "POP"), L, mx, H, 0, st) /\ Emit(b, "POP").labels = b.labels
<1>1. Handlers(b, L, mx, H)
  BY SoundHere
<1>2. Fits("POP", NoLabel, L, H, 1, H, 0) /\ "POP" \in Ops \ Jumps
  BY DEF Fits, StackEffect, Ops, Jumps
<1> QED
  BY <1>1, <1>2, EmitSound

LEMMA LeaveSound ==
  ASSUME NEW b, NEW L, NEW mx, NEW H, NEW st, Sound(b, L, mx, H, 1, st),
         NEW op \in {"THROW", "RETURN"}
  PROVE  Sound(Emit(b, op), L, mx, H, 0, st) /\ Emit(b, op).labels = b.labels
<1>1. Handlers(b, L, mx, H)
  BY SoundHere
<1>2. Fits(op, NoLabel, L, H, 1, H, 0) /\ op \in Ops \ Jumps
  BY DEF Fits, StackEffect, Ops, Jumps
<1> QED
  BY <1>1, <1>2, EmitSound

(* POP_TRY at the end of a try block, CATCH at the head of a catch block.  *)
LEMMA PopTrySound ==
  ASSUME NEW b, NEW L, NEW mx \in Nat, NEW H, NEW st, Sound(b, L, mx, H, 0, st), H # <<>>
  PROVE  /\ Sound(Emit(b, "POP_TRY"), L, mx, Outer(H), 0, st)
         /\ Emit(b, "POP_TRY").labels = b.labels
         /\ Sound(Emit(b, "CATCH"), L, mx, Outer(H), 1, st)
         /\ Emit(b, "CATCH").labels = b.labels
<1>1. Handlers(b, L, mx, H)
  BY SoundHere
<1>2. H \in Seq(Nat)
  BY <1>1 DEF Handlers
<1>3. Len(H) - 1 \in 0 .. Len(H)
  BY <1>2
<1>4. Handlers(b, L, mx, Outer(H))
  BY <1>1, <1>3, PrefixHandlers DEF Outer
<1>5. /\ Fits("POP_TRY", NoLabel, L, H, 0, Outer(H), 0) /\ "POP_TRY" \in Ops \ Jumps
      /\ Fits("CATCH", NoLabel, L, H, 0, Outer(H), 1) /\ "CATCH" \in Ops \ Jumps
  BY DEF Fits, StackEffect, Ops, Jumps
<1> QED
  BY <1>4, <1>5, EmitSound

(* What follows a jump is reached from elsewhere, under handlers H2.       *)
LEMMA JumpSound ==
  ASSUME NEW b, NEW L, NEW mx, NEW H, NEW st, Sound(b, L, mx, H, 0, st),
         NEW l \in Labels(b), L[l] = H, NEW H2, Handlers(b, L, mx, H2)
  PROVE  Sound(EmitJump(b, "JUMP", l), L, mx, H2, 0, st)
         /\ EmitJump(b, "JUMP", l).labels = b.labels
<1>1. l # NoLabel
  BY SoundHere DEF Labels, NoLabel, Bytecodes
<1>2. Fits("JUMP", l, L, H, 0, H2, 0) /\ "JUMP" \in Jumps
  BY <1>1 DEF Fits, StackEffect, Jumps
<1> QED
  BY <1>2, EmitJumpSound

LEMMA JumpIfFalseSound ==
  ASSUME NEW b, NEW L, NEW mx, NEW H, NEW st, Sound(b, L, mx, H, 1, st),
         NEW l \in Labels(b), L[l] = H
  PROVE  Sound(EmitJump(b, "JUMP_IF_FALSE", l), L, mx, H, 0, st)
         /\ EmitJump(b, "JUMP_IF_FALSE", l).labels = b.labels
<1>1. l # NoLabel /\ Handlers(b, L, mx, H)
  BY SoundHere DEF Labels, NoLabel, Bytecodes
<1>2. Fits("JUMP_IF_FALSE", l, L, H, 1, H, 0) /\ "JUMP_IF_FALSE" \in Jumps
  BY <1>1 DEF Fits, StackEffect, Jumps
<1> QED
  BY <1>1, <1>2, EmitJumpSound

LEMMA PushTrySound ==
  ASSUME NEW b, NEW L, NEW mx, NEW H, NEW st, Sound(b, L, mx, H, 0, st),
         NEW l \in Labels(b), L[l] = Append(H, l), Len(H) + 1 <= mx
  PROVE  Sound(EmitJump(b, "PUSH_TRY", l), L, mx, Append(H, l), 0, st)
         /\ EmitJump(b, "PUSH_TRY", l).labels = b.labels
<1> DEFINE H2 == Append(H, l)
<1>1. l # NoLabel /\ Handlers(b, L, mx, H) /\ l \in Nat
  BY SoundHere DEF Labels, NoLabel, Bytecodes
<1>2. H \in Seq(Nat)
  BY <1>1 DEF Handlers
<1>3. /\ H2 \in Seq(Nat) /\ Len(H2) = Len(H) + 1 /\ H2[Len(H) + 1] = l
      /\ \A i \in 1 .. Len(H) : H2[i] = H[i] /\ Prefix(H2, i) = Prefix(H, i)
      /\ Prefix(H2, Len(H) + 1) = H2
  BY <1>1, <1>2 DEF Prefix
<1> HIDE DEF H2
<1>4. ASSUME NEW i \in DOMAIN H2
      PROVE  H2[i] \in Labels(b) /\ L[H2[i]] = Prefix(H2, i)
  <2>1. CASE i \in 1 .. Len(H)
    <3>1. i \in DOMAIN H
      BY <2>1, <1>2
    <3> QED
      BY <3>1, <2>1, <1>1, <1>3 DEF Handlers
  <2>2. CASE i = Len(H) + 1
    BY <2>2, <1>3 DEF H2
  <2> QED
    BY <2>1, <2>2, <1>2, <1>3
<1>5. Handlers(b, L, mx, H2)
  BY <1>3, <1>4 DEF Handlers
<1>6. Fits("PUSH_TRY", l, L, H, 0, H2, 0) /\ "PUSH_TRY" \in Jumps
  BY <1>1 DEF Fits, StackEffect, Jumps, H2
<1>7. Sound(EmitJump(b, "PUSH_TRY", l), L, mx, H2, 0, st)
      /\ EmitJump(b, "PUSH_TRY", l).labels = b.labels
  BY <1>5, <1>6, EmitJumpSound
<1> QED
  BY <1>7 DEF H2
-----------------------------------------------------------------------------
(* The statements being parsed.  A block waits for its last label and, if  *)
(* its next part starts with a label, for its first.                       *)
Waits(k, l) == l = k.last \/ (k.kind \in {"if", "try"} /\ l = k.first)

(* The handlers inside a block, and inside the i-th of the blocks bs.      *)
Inner(L, k) == IF k.kind = "try" THEN Append(L[k.last], k.first) ELSE L[k.last]
Around(L, bs, i) == IF i = 0 THEN <<>> ELSE Inner(L, bs[i])

IsPrefixOf(g, h) == Len(g) <= Len(h) /\ g = Prefix(h, Len(g))
Before(k, j) == k.first < j.first /\ k.first < j.last /\ k.last < j.first /\ k.last < j.last

(* The labels not marked yet are those that the blocks wait for.           *)
LabelInv ==
  \A l \in Labels(bc) :
    bc.labels[l] = Unmarked <=> \E i \in DOMAIN blocks : Waits(blocks[i], l)

(* A block's last label comes back to the handlers outside of it; its first *)
(* label is inside.  Labels are numbered from the outside in.              *)
BlockInv(L) ==
  /\ L \in [Nat -> Seq(Nat)]
  /\ blocks \in Seq(Block) /\ handlers \in Seq(Nat)
  /\ \A i \in DOMAIN blocks :
       /\ blocks[i].first \in Labels(bc) /\ blocks[i].last \in Labels(bc)
       /\ blocks[i].first # blocks[i].last
       /\ L[blocks[i].last] = Around(L, blocks, i - 1)
       /\ blocks[i].kind \notin {"else", "catch"} => L[blocks[i].first] = Inner(L, blocks[i])
  /\ \A i, j \in DOMAIN blocks : i < j => Before(blocks[i], blocks[j])
  /\ \A i, j \in DOMAIN blocks : i <= j => IsPrefixOf(L[blocks[i].last], L[blocks[j].last])
  /\ handlers = Around(L, blocks, Len(blocks))

IsLoop(k) == k.kind \in {"while", "for"}
LoopBlocks == {blocks[i] : i \in {j \in DOMAIN blocks : IsLoop(blocks[j])}}
LoopState == [continue_label : Nat, break_label : Nat, try_depth : Int]
Within(L, k) == IF k = Len(loops) THEN handlers ELSE L[loops[k + 1].break_label]

(* The loop states are those of the loops among the blocks; try_depth       *)
(* counts the try statements up to the next loop inside.                   *)
LoopInv(L) ==
  /\ loops \in Seq(LoopState)
  /\ \A k \in DOMAIN loops : \E x \in LoopBlocks :
       x.last = loops[k].break_label /\ x.first = loops[k].continue_label
  /\ \A x \in LoopBlocks : \E k \in DOMAIN loops : x.last = loops[k].break_label
  /\ \A j, k \in DOMAIN loops : j < k => loops[j].break_label < loops[k].break_label
  /\ \A k \in DOMAIN loops :
       loops[k].try_depth = Len(Within(L, k)) - Len(L[loops[k].break_label])

(* A prefix of a prefix is one, and one more handler keeps prefixes.       *)
LEMMA PrefixFacts ==
  ASSUME NEW g \in Seq(Nat), NEW h \in Seq(Nat)
  PROVE  /\ IsPrefixOf(h, h)
         /\ \A x \in Nat : IsPrefixOf(h, Append(h, x)) /\ Outer(Append(h, x)) = h
         /\ \A f \in Seq(Nat) : IsPrefixOf(f, g) /\ IsPrefixOf(g, h) => IsPrefixOf(f, h)
<1>1. IsPrefixOf(h, h)
  BY DEF IsPrefixOf, Prefix
<1>2. ASSUME NEW x \in Nat
      PROVE  IsPrefixOf(h, Append(h, x)) /\ Outer(Append(h, x)) = h
  BY DEF IsPrefixOf, Prefix, Outer
<1>3. ASSUME NEW f \in Seq(Nat), IsPrefixOf(f, g), IsPrefixOf(g, h)
      PROVE  IsPrefixOf(f, h)
  <2> DEFINE n == Len(f)
             m == Len(g)
  <2>1. n \in Nat /\ m \in Nat /\ n <= m /\ m <= Len(h) /\ f = Prefix(g, n) /\ g = Prefix(h, m)
    BY <1>3 DEF IsPrefixOf
  <2> HIDE DEF n, m
  <2>2. SubSeq(SubSeq(h, 1, m), 1, n) = SubSeq(h, 1, n)
    BY <2>1
  <2> QED
    BY <2>1, <2>2 DEF IsPrefixOf, Prefix, n
<1> QED
  BY <1>1, <1>2, <1>3

LEMMA BlockFacts ==
  ASSUME NEW L, BlockInv(L), blocks # <<>>
  PROVE  LET n == Len(blocks) IN
         /\ n \in Nat /\ n \in DOMAIN blocks /\ n > 0 /\ DOMAIN blocks = 1 .. n
         /\ Innermost \in Block /\ Innermost = blocks[n]
         /\ Innermost.first \in Labels(bc) /\ Innermost.last \in Labels(bc)
         /\ Innermost.first # Innermost.last
         /\ handlers = Inner(L, Innermost)
         /\ L[Innermost.last] = Around(L, blocks, n - 1)
         /\ L[Innermost.last] \in Seq(Nat) /\ IsPrefixOf(L[Innermost.last], handlers)
<1> DEFINE n == Len(blocks)
<1>1. n \in Nat /\ n \in DOMAIN blocks /\ n > 0 /\ DOMAIN blocks = 1 .. n
  BY DEF BlockInv
<1>2. Innermost \in Block /\ Innermost = blocks[n]
  BY <1>1 DEF BlockInv, Innermost
<1>3. Innermost.first \in Nat /\ Innermost.last \in Nat
  BY <1>2 DEF Block
<1>4. handlers = Inner(L, Innermost) /\ L[Innermost.last] = Around(L, blocks, n - 1)
      /\ Innermost.first \in Labels(bc) /\ Innermost.last \in Labels(bc)
      /\ Innermost.first # Innermost.last
  <2>1. Around(L, blocks, n) = Inner(L, Innermost)
    BY <1>1, <1>2 DEF Around
  <2>2. handlers = Around(L, blocks, n)
    BY DEF BlockInv
  <2>3. /\ blocks[n].first \in Labels(bc) /\ blocks[n].last \in Labels(bc)
        /\ blocks[n].first # blocks[n].last
        /\ L[blocks[n].last] = Around(L, blocks, n - 1)
    BY <1>1 DEF BlockInv
  <2> QED
    BY <2>1, <2>2, <2>3, <1>2
<1>5. L[Innermost.last] \in Seq(Nat)
  BY <1>3 DEF BlockInv
<1>6. IsPrefixOf(L[Innermost.last], handlers)
  BY <1>3, <1>4, <1>5, PrefixFacts DEF Inner
<1> QED
  BY <1>1, <1>2, <1>4, <1>5, <1>6

(* A statement with a body: its block k waits for new labels.              *)
Pushes(L, L2, k) ==
  /\ L2 \in [Nat -> Seq(Nat)]
  /\ bc \in Bytecodes /\ bc' \in Bytecodes
  /\ k \in Block /\ k.kind \notin {"else", "catch"} /\ k.first # k.last
  /\ Labels(bc) \subseteq Labels(bc')
  /\ k.first \in Labels(bc') \ Labels(bc) /\ k.last \in Labels(bc') \ Labels(bc)
  /\ \A l \in Labels(bc) : bc'.labels[l] = bc.labels[l] /\ L2[l] = L[l]
  /\ \A l \in Labels(bc') \ Labels(bc) : bc'.labels[l] = Unmarked <=> Waits(k, l)
  /\ L2[k.last] = handlers /\ L2[k.first] = Inner(L2, k)
  /\ blocks' = Append(blocks, k) /\ handlers' = Inner(L2, k)

LEMMA PushBlock ==
  ASSUME NEW L, NEW L2, NEW k, LabelInv, BlockInv(L), Pushes(L, L2, k)
  PROVE  LabelInv' /\ BlockInv(L2)'
<1> DEFINE n == Len(blocks)
<1>1. blocks \in Seq(Block) /\ n \in Nat /\ DOMAIN blocks = 1 .. n /\ handlers \in Seq(Nat)
  BY DEF BlockInv
<1>k. k \in Block /\ k.first \in Nat /\ k.last \in Nat
  BY DEF Pushes, Block
<1>2. /\ blocks' \in Seq(Block) /\ Len(blocks') = n + 1 /\ DOMAIN blocks' = 1 .. n + 1
      /\ \A i \in 1 .. n : blocks'[i] = blocks[i]
      /\ blocks'[n + 1] = k
  BY <1>1, <1>k DEF Pushes
<1> HIDE DEF n
<1>d. \A i : i \in 1 .. n + 1 <=> i \in 1 .. n \/ i = n + 1
  BY <1>1
<1>3. \A x \in Labels(bc), y \in Labels(bc') \ Labels(bc) : x < y
  <2>1. bc.labels \in Seq(Nat \cup {Unmarked}) /\ bc'.labels \in Seq(Nat \cup {Unmarked})
    BY DEF Bytecodes, Pushes
  <2> DEFINE m == Len(bc.labels)
             m2 == Len(bc'.labels)
  <2>2. m \in Nat /\ m2 \in Nat /\ Labels(bc) = 1 .. m /\ Labels(bc') = 1 .. m2
    BY <2>1, LenProperties DEF Labels
  <2> HIDE DEF m, m2
  <2> QED
    BY <2>2
<1>4. ASSUME NEW i \in 1 .. n
      PROVE  /\ blocks[i] \in Block /\ blocks[i].first \in Nat /\ blocks[i].last \in Nat
             /\ blocks[i].first \in Labels(bc) /\ blocks[i].last \in Labels(bc)
             /\ L[blocks[i].last] \in Seq(Nat)
  <2>1. i \in DOMAIN blocks /\ blocks[i] \in Block
    BY <1>1
  <2>2. blocks[i].first \in Nat /\ blocks[i].last \in Nat
    BY <2>1 DEF Block
  <2> QED
    BY <2>1, <2>2 DEF BlockInv
<1>5. ASSUME NEW i \in 1 .. n
      PROVE  /\ Inner(L2, blocks[i]) = Inner(L, blocks[i])
             /\ L2[blocks[i].last] = L[blocks[i].last]
             /\ L2[blocks[i].first] = L[blocks[i].first]
  BY <1>4 DEF Inner, Pushes
<1>6. LabelInv'
  <2>1. ASSUME NEW l \in Labels(bc')
        PROVE  bc'.labels[l] = Unmarked <=> \E i \in 1 .. n + 1 : Waits(blocks'[i], l)
    <3>0. (\E i \in 1 .. n + 1 : Waits(blocks'[i], l))
            <=> Waits(k, l) \/ \E i \in 1 .. n : Waits(blocks[i], l)
      BY <1>2, <1>d
    <3>1. CASE l \in Labels(bc)
      <4>1. ~Waits(k, l)
        BY <3>1 DEF Waits, Pushes
      <4>2. bc'.labels[l] = bc.labels[l]
        BY <3>1 DEF Pushes
      <4> QED
        BY <3>0, <3>1, <4>1, <4>2, <1>1 DEF LabelInv
    <3>2. CASE l \notin Labels(bc)
      <4>1. \A i \in 1 .. n : ~Waits(blocks[i], l)
        BY <3>2, <1>4 DEF Waits
      <4>2. bc'.labels[l] = Unmarked <=> Waits(k, l)
        BY <2>1, <3>2 DEF Pushes
      <4> QED
        BY <3>0, <4>1, <4>2
    <3> QED
      BY <3>1, <3>2
  <2> QED
    BY <2>1, <1>2 DEF LabelInv
<1>7. ASSUME NEW i \in 0 .. n
      PROVE  Around(L2, blocks', i) = Around(L, blocks, i)
  <2>1. CASE i = 0
    BY <2>1 DEF Around
  <2>2. CASE i # 0
    <3>1. i \in 1 .. n
      BY <2>2, <1>1
    <3> QED
      BY <2>2, <3>1, <1>2, <1>5 DEF Around
  <2> QED
    BY <2>1, <2>2
<1>8. handlers = Around(L, blocks, n)
  BY DEF BlockInv, n
<1>9. ASSUME NEW i \in 1 .. n + 1
      PROVE  /\ blocks'[i].first \in Labels(bc') /\ blocks'[i].last \in Labels(bc')
             /\ blocks'[i].first # blocks'[i].last
             /\ L2[blocks'[i].last] = Around(L2, blocks', i - 1)
             /\ blocks'[i].kind \notin {"else", "catch"} => L2[blocks'[i].first] = Inner(L2, blocks'[i])
  <2>1. CASE i \in 1 .. n
    <3>1. i - 1 \in 0 .. n /\ i \in DOMAIN blocks
      BY <2>1, <1>1
    <3>2. /\ blocks[i].first # blocks[i].last
          /\ L[blocks[i].last] = Around(L, blocks, i - 1)
          /\ blocks[i].kind \notin {"else", "catch"} => L[blocks[i].first] = Inner(L, blocks[i])
      BY <3>1 DEF BlockInv
    <3>3. blocks'[i] = blocks[i] /\ Around(L2, blocks', i - 1) = Around(L, blocks, i - 1)
      BY <2>1, <3>1, <1>2, <1>7
    <3>4. blocks[i].first \in Labels(bc') /\ blocks[i].last \in Labels(bc')
      BY <2>1, <1>4 DEF Pushes
    <3>5. Inner(L2, blocks[i]) = Inner(L, blocks[i]) /\ L2[blocks[i].last] = L[blocks[i].last]
          /\ L2[blocks[i].first] = L[blocks[i].first]
      BY <2>1, <1>5
    <3> QED
      BY <3>2, <3>3, <3>4, <3>5
  <2>2. CASE i = n + 1
    <3>1. i - 1 = n /\ n \in 0 .. n
      BY <2>2, <1>1
    <3>2. Around(L2, blocks', i - 1) = handlers
      BY <3>1, <1>7, <1>8
    <3> QED
      BY <2>2, <3>2, <1>2 DEF Pushes
  <2> QED
    BY <2>1, <2>2, <1>d
<1>10. ASSUME NEW i \in 1 .. n + 1, NEW j \in 1 .. n + 1, i < j
       PROVE  Before(blocks'[i], blocks'[j])
  <2>1. i \in 1 .. n /\ i \in DOMAIN blocks
    BY <1>1, <1>10
  <2>2. CASE j \in 1 .. n
    <3>1. j \in DOMAIN blocks
      BY <2>2, <1>1
    <3>2. Before(blocks[i], blocks[j])
      BY <2>1, <3>1, <1>10 DEF BlockInv
    <3> QED
      BY <2>1, <2>2, <3>2, <1>2
  <2>3. CASE j = n + 1
    <3>1. blocks[i].first \in Labels(bc) /\ blocks[i].last \in Labels(bc)
      BY <2>1, <1>4
    <3>2. k.first \in Labels(bc') \ Labels(bc) /\ k.last \in Labels(bc') \ Labels(bc)
      BY DEF Pushes
    <3>3. Before(blocks[i], k)
      BY <3>1, <3>2, <1>3 DEF Before
    <3> QED
      BY <2>1, <2>3, <3>3, <1>2
  <2> QED
    BY <2>2, <2>3, <1>d
<1>11. ASSUME NEW i \in 1 .. n + 1, NEW j \in 1 .. n + 1, i <= j
       PROVE  IsPrefixOf(L2[blocks'[i].last], L2[blocks'[j].last])
  <2>0. L2[blocks'[n + 1].last] = handlers
    BY <1>2 DEF Pushes
  <2>1. CASE i \in 1 .. n /\ j \in 1 .. n
    <3>1. i \in DOMAIN blocks /\ j \in DOMAIN blocks
      BY <2>1, <1>1
    <3>2. IsPrefixOf(L[blocks[i].last], L[blocks[j].last])
      BY <3>1, <1>11 DEF BlockInv
    <3> QED
      BY <2>1, <3>2, <1>2, <1>5
  <2>2. CASE i \in 1 .. n /\ j = n + 1
    <3>1. blocks # <<>> /\ n \in DOMAIN blocks /\ i \in DOMAIN blocks /\ i <= n
      BY <2>2, <1>1
    <3>2. /\ Innermost = blocks[n] /\ L[Innermost.last] \in Seq(Nat)
          /\ IsPrefixOf(L[Innermost.last], handlers)
      BY <3>1, BlockFacts DEF n
    <3>3. IsPrefixOf(L[blocks[i].last], L[blocks[n].last])
      BY <3>1 DEF BlockInv
    <3>4. L[blocks[i].last] \in Seq(Nat)
      BY <2>2, <1>4
    <3>5. IsPrefixOf(L[blocks[i].last], handlers)
      BY <3>2, <3>3, <3>4, <1>1, PrefixFacts
    <3> QED
      BY <2>0, <2>2, <3>5, <1>2, <1>5
  <2>3. CASE i = n + 1 /\ j = n + 1
    BY <2>0, <2>3, <1>1, PrefixFacts
  <2>4. i = n + 1 => j = n + 1
    BY <1>1, <1>11
  <2> QED
    BY <2>1, <2>2, <2>3, <2>4, <1>d
<1>12. handlers' \in Seq(Nat) /\ handlers' = Around(L2, blocks', n + 1)
  <2>1. n + 1 # 0
    BY <1>1
  <2>2. handlers' \in Seq(Nat)
    BY <1>1, <1>k DEF Inner, Pushes
  <2>3. handlers' = Inner(L2, k)
    BY DEF Pushes
  <2> QED
    BY <2>1, <2>2, <2>3, <1>2 DEF Around
<1>13. BlockInv(L2)'
  <2>1. L2 \in [Nat -> Seq(Nat)]
    BY DEF Pushes
  <2> QED
    BY <2>1, <1>2, <1>9, <1>10, <1>11, <1>12 DEF BlockInv
<1> QED
  BY <1>6, <1>13

(* The end of a statement, which is not that of its try block.             *)
Pops ==
  /\ blocks # <<>> /\ Innermost.kind # "try"
  /\ Labels(bc') = Labels(bc)
  /\ \A l \in Labels(bc) :
       bc'.labels[l] = Unmarked <=> bc.labels[l] = Unmarked /\ ~Waits(Innermost, l)
  /\ blocks' = Pop(blocks) /\ handlers' = handlers

LEMMA PopBlock ==
  ASSUME NEW L, LabelInv, BlockInv(L), Pops
  PROVE  LabelInv' /\ BlockInv(L)'
<1> DEFINE n == Len(blocks)
<1>0. blocks # <<>> /\ blocks' = Pop(blocks) /\ handlers' = handlers /\ Innermost.kind # "try"
  BY DEF Pops
<1>1. blocks \in Seq(Block) /\ n \in Nat /\ DOMAIN blocks = 1 .. n /\ handlers \in Seq(Nat)
      /\ n > 0 /\ Innermost = blocks[n] /\ L[Innermost.last] = Around(L, blocks, n - 1)
      /\ handlers = Inner(L, Innermost)
  <2>1. blocks \in Seq(Block) /\ handlers \in Seq(Nat)
    BY DEF BlockInv
  <2> QED
    BY <1>0, <2>1, BlockFacts
<1>2. /\ blocks' \in Seq(Block) /\ Len(blocks') = n - 1 /\ DOMAIN blocks' = 1 .. n - 1
      /\ \A i \in 1 .. n - 1 : blocks'[i] = blocks[i]
  BY <1>0, <1>1 DEF Pop
<1> HIDE DEF n
<1>d. /\ \A i : i \in 1 .. n <=> i \in 1 .. n - 1 \/ i = n
      /\ \A i \in 1 .. n - 1 : i < n /\ i \in 0 .. n - 1 /\ i - 1 \in 0 .. n - 1 /\ i # n
      /\ n \in 1 .. n /\ n - 1 \in 0 .. n - 1
  BY <1>1
<1>3. ASSUME NEW i \in 0 .. n - 1
      PROVE  Around(L, blocks', i) = Around(L, blocks, i)
  <2>1. i # 0 => i \in 1 .. n - 1
    BY <1>1
  <2> QED
    BY <2>1, <1>2 DEF Around
<1>4. LabelInv'
  <2>1. ASSUME NEW l \in Labels(bc)
        PROVE  bc'.labels[l] = Unmarked <=> \E i \in 1 .. n - 1 : Waits(blocks'[i], l)
    <3>1. ASSUME NEW i \in 1 .. n - 1, Waits(blocks[i], l), Waits(blocks[n], l)
          PROVE  FALSE
      <4>1. i \in DOMAIN blocks /\ n \in DOMAIN blocks /\ i < n
        BY <1>1, <1>d
      <4>2. Before(blocks[i], blocks[n]) /\ blocks[i] \in Block /\ blocks[n] \in Block
        BY <4>1, <1>1 DEF BlockInv
      <4> QED
        BY <3>1, <4>2 DEF Before, Waits, Block
    <3>2. bc.labels[l] = Unmarked <=> \E i \in 1 .. n : Waits(blocks[i], l)
      BY <1>1 DEF LabelInv
    <3>3. bc'.labels[l] = Unmarked <=> bc.labels[l] = Unmarked /\ ~Waits(blocks[n], l)
      BY <1>1 DEF Pops
    <3>4. (\E i \in 1 .. n - 1 : Waits(blocks'[i], l)) <=> \E i \in 1 .. n - 1 : Waits(blocks[i], l)
      BY <1>2
    <3> QED
      BY <3>1, <3>2, <3>3, <3>4, <1>d
  <2>2. Labels(bc') = Labels(bc)
    BY DEF Pops
  <2> QED
    BY <2>1, <2>2, <1>2 DEF LabelInv
<1>5. ASSUME NEW i \in 1 .. n - 1
      PROVE  /\ blocks'[i].first \in Labels(bc') /\ blocks'[i].last \in Labels(bc')
             /\ blocks'[i].first # blocks'[i].last
             /\ L[blocks'[i].last] = Around(L, blocks', i - 1)
             /\ blocks'[i].kind \notin {"else", "catch"} => L[blocks'[i].first] = Inner(L, blocks'[i])
  <2>1. i - 1 \in 0 .. n - 1 /\ i \in DOMAIN blocks
    BY <1>1, <1>d
  <2>2. blocks'[i] = blocks[i] /\ Around(L, blocks', i - 1) = Around(L, blocks, i - 1)
    BY <2>1, <1>2, <1>3
  <2>3. Labels(bc') = Labels(bc)
    BY DEF Pops
  <2>4. /\ blocks[i].first \in Labels(bc) /\ blocks[i].last \in Labels(bc)
        /\ blocks[i].first # blocks[i].last
        /\ L[blocks[i].last] = Around(L, blocks, i - 1)
        /\ blocks[i].kind \notin {"else", "catch"} => L[blocks[i].first] = Inner(L, blocks[i])
    BY <2>1 DEF BlockInv
  <2> QED
    BY <2>2, <2>3, <2>4
<1>6. ASSUME NEW i \in 1 .. n - 1, NEW j \in 1 .. n - 1
      PROVE  /\ i < j => Before(blocks'[i], blocks'[j])
             /\ i <= j => IsPrefixOf(L[blocks'[i].last], L[blocks'[j].last])
  <2>1. i \in DOMAIN blocks /\ j \in DOMAIN blocks
    BY <1>1, <1>d
  <2>2. /\ i < j => Before(blocks[i], blocks[j])
        /\ i <= j => IsPrefixOf(L[blocks[i].last], L[blocks[j].last])
    BY <2>1 DEF BlockInv
  <2> QED
    BY <2>2, <1>2
<1>8. handlers' = Around(L, blocks', n - 1)
  <2>1. Around(L, blocks', n - 1) = Around(L, blocks, n - 1)
    BY <1>d, <1>3
  <2> QED
    BY <2>1, <1>0, <1>1 DEF Inner
<1>9. BlockInv(L)'
  <2>1. L \in [Nat -> Seq(Nat)] /\ handlers' \in Seq(Nat)
    BY <1>0 DEF BlockInv
  <2> QED
    BY <2>1, <1>2, <1>5, <1>6, <1>8 DEF BlockInv
<1> QED
  BY <1>4, <1>9

(* The second part of a statement, which starts with its first label.      *)
Switches(L, kind) ==
  /\ blocks # <<>> /\ Innermost.kind \in {"if", "try"} /\ kind \in {"else", "catch"}
  /\ Labels(bc') = Labels(bc)
  /\ \A l \in Labels(bc) :
       bc'.labels[l] = Unmarked <=> bc.labels[l] = Unmarked /\ l # Innermost.first
  /\ blocks' = [blocks EXCEPT ![Len(blocks)].kind = kind]
  /\ handlers' = L[Innermost.last]

LEMMA SwitchBlock ==
  ASSUME NEW L, NEW kind, LabelInv, BlockInv(L), Switches(L, kind)
  PROVE  LabelInv' /\ BlockInv(L)'
<1> DEFINE n == Len(blocks)
           k == [Innermost EXCEPT !.kind = kind]
<1>0. /\ blocks # <<>> /\ handlers' = L[Innermost.last]
      /\ Innermost.kind \in {"if", "try"} /\ kind \in {"else", "catch"}
  BY DEF Switches
<1>1. blocks \in Seq(Block) /\ n \in Nat /\ DOMAIN blocks = 1 .. n
      /\ n > 0 /\ Innermost = blocks[n] /\ L[Innermost.last] = Around(L, blocks, n - 1)
      /\ Innermost \in Block /\ Innermost.first # Innermost.last
      /\ L[Innermost.last] \in Seq(Nat)
  <2>1. blocks \in Seq(Block)
    BY DEF BlockInv
  <2> QED
    BY <1>0, <2>1, BlockFacts
<1>2. k \in Block /\ k.kind = kind /\ k.first = Innermost.first /\ k.last = Innermost.last
  <2>1. Innermost \in Block
    BY <1>1
  <2> QED
    BY <2>1, <1>0 DEF Block
<1>3. blocks' = [blocks EXCEPT ![n] = k]
  BY <1>1 DEF Switches
<1> HIDE DEF k
<1>4. /\ blocks' \in Seq(Block) /\ Len(blocks') = n /\ DOMAIN blocks' = 1 .. n
      /\ \A i \in 1 .. n : blocks'[i] = IF i = n THEN k ELSE blocks[i]
  BY <1>1, <1>2, <1>3, ExceptSeq
<1> HIDE DEF n
<1>d. /\ \A i : i \in 1 .. n <=> i \in 1 .. n - 1 \/ i = n
      /\ \A i \in 1 .. n - 1 : i < n /\ i \in 0 .. n - 1 /\ i - 1 \in 0 .. n - 1 /\ i # n
      /\ n \in 1 .. n /\ n - 1 \in 0 .. n - 1
      /\ \A i \in 1 .. n : i - 1 \in 0 .. n - 1
  BY <1>1
<1>6. ASSUME NEW i \in 0 .. n - 1
      PROVE  Around(L, blocks', i) = Around(L, blocks, i)
  <2>1. i # 0 => i \in 1 .. n - 1
    BY <1>1
  <2>2. i # 0 => blocks'[i] = blocks[i]
    BY <2>1, <1>4, <1>d
  <2> QED
    BY <2>2 DEF Around
<1>7. ASSUME NEW i \in 1 .. n
      PROVE  blocks'[i].first = blocks[i].first /\ blocks'[i].last = blocks[i].last
  BY <1>1, <1>2, <1>4
<1>8. LabelInv'
  <2>1. ASSUME NEW l \in Labels(bc)
        PROVE  bc'.labels[l] = Unmarked <=> \E i \in 1 .. n : Waits(blocks'[i], l)
    <3>1. ASSUME NEW i \in 1 .. n - 1, Waits(blocks[i], l), l = Innermost.first
          PROVE  FALSE
      <4>1. i \in DOMAIN blocks /\ n \in DOMAIN blocks /\ i < n
        BY <1>1, <1>d
      <4>2. Before(blocks[i], blocks[n]) /\ blocks[i] \in Block /\ blocks[n] \in Block
        BY <4>1, <1>1 DEF BlockInv
      <4> QED
        BY <3>1, <4>2, <1>1 DEF Before, Waits, Block
    <3>2. bc.labels[l] = Unmarked <=> \E i \in 1 .. n : Waits(blocks[i], l)
      BY <1>1 DEF LabelInv
    <3>3. bc'.labels[l] = Unmarked <=> bc.labels[l] = Unmarked /\ l # Innermost.first
      BY DEF Switches
    <3>4. Waits(blocks'[n], l) <=> Waits(blocks[n], l) /\ l # Innermost.first
      <4>1. blocks'[n] = k
        BY <1>4, <1>d
      <4> QED
        BY <4>1, <1>0, <1>1, <1>2 DEF Waits
    <3>5. \A i \in 1 .. n - 1 : blocks'[i] = blocks[i]
      BY <1>4, <1>d
    <3> QED
      BY <3>1, <3>2, <3>3, <3>4, <3>5, <1>d
  <2>2. Labels(bc') = Labels(bc)
    BY DEF Switches
  <2> QED
    BY <2>1, <2>2, <1>4 DEF LabelInv
<1>9. ASSUME NEW i \in 1 .. n
      PROVE  /\ blocks'[i].first \in Labels(bc') /\ blocks'[i].last \in Labels(bc')
             /\ blocks'[i].first # blocks'[i].last
             /\ L[blocks'[i].last] = Around(L, blocks', i - 1)
             /\ blocks'[i].kind \notin {"else", "catch"} => L[blocks'[i].first] = Inner(L, blocks'[i])
  <2>1. i - 1 \in 0 .. n - 1 /\ i \in DOMAIN blocks
    BY <1>1, <1>d
  <2>2. Around(L, blocks', i - 1) = Around(L, blocks, i - 1)
    BY <2>1, <1>6
  <2>3. /\ blocks[i].first \in Labels(bc) /\ blocks[i].last \in Labels(bc)
        /\ blocks[i].first # blocks[i].last
        /\ L[blocks[i].last] = Around(L, blocks, i - 1)
        /\ blocks[i].kind \notin {"else", "catch"} => L[blocks[i].first] = Inner(L, blocks[i])
    BY <2>1 DEF BlockInv
  <2>4. blocks'[i].kind \in {"else", "catch"} \/ blocks'[i] = blocks[i]
    BY <1>0, <1>2, <1>4
  <2>5. Labels(bc') = Labels(bc)
    BY DEF Switches
  <2> QED
    BY <2>2, <2>3, <2>4, <2>5, <1>7
<1>10. ASSUME NEW i \in 1 .. n, NEW j \in 1 .. n
       PROVE  /\ i < j => Before(blocks'[i], blocks'[j])
              /\ i <= j => IsPrefixOf(L[blocks'[i].last], L[blocks'[j].last])
  <2>1. i \in DOMAIN blocks /\ j \in DOMAIN blocks
    BY <1>1
  <2>2. /\ i < j => Before(blocks[i], blocks[j])
        /\ i <= j => IsPrefixOf(L[blocks[i].last], L[blocks[j].last])
    BY <2>1 DEF BlockInv
  <2> QED
    BY <2>2, <1>7 DEF Before
<1>12. handlers' = Around(L, blocks', n)
  <2>1. n # 0 /\ blocks'[n] = k
    BY <1>1, <1>4, <1>d
  <2> QED
    BY <2>1, <1>0, <1>2 DEF Around, Inner
<1>13. BlockInv(L)'
  <2>1. L \in [Nat -> Seq(Nat)] /\ handlers' \in Seq(Nat)
    BY <1>0, <1>1 DEF BlockInv
  <2> QED
    BY <2>1, <1>4, <1>9, <1>10, <1>12 DEF BlockInv
<1> QED
  BY <1>8, <1>13

(* The loops among the blocks, as blocks come and go.                      *)
LEMMA LoopBlocksChange ==
  ASSUME NEW L, BlockInv(L)
  PROVE  /\ \A k : blocks' = Append(blocks, k) =>
              LoopBlocks' = LoopBlocks \cup {x \in {k} : IsLoop(x)}
         /\ Pops => LoopBlocks' = LoopBlocks \ {Innermost}
         /\ \A kind : Switches(L, kind) => LoopBlocks' = LoopBlocks
<1> DEFINE n == Len(blocks)
<1>1. blocks \in Seq(Block) /\ n \in Nat /\ DOMAIN blocks = 1 .. n
  BY DEF BlockInv
<1>2. ASSUME NEW k, blocks' = Append(blocks, k)
      PROVE  LoopBlocks' = LoopBlocks \cup {x \in {k} : IsLoop(x)}
  <2>1. /\ DOMAIN blocks' = 1 .. n + 1 /\ blocks'[n + 1] = k
        /\ \A i \in 1 .. n : blocks'[i] = blocks[i]
    BY <1>1, <1>2
  <2> HIDE DEF n
  <2>2. \A i : i \in 1 .. n + 1 <=> i \in 1 .. n \/ i = n + 1
    BY <1>1
  <2>3. ASSUME NEW x
        PROVE  x \in LoopBlocks' <=> x \in LoopBlocks \/ (x = k /\ IsLoop(x))
    <3>1. x \in LoopBlocks' <=> \E i \in 1 .. n + 1 : x = blocks'[i] /\ IsLoop(blocks'[i])
      BY <2>1 DEF LoopBlocks
    <3>2. x \in LoopBlocks <=> \E i \in 1 .. n : x = blocks[i] /\ IsLoop(blocks[i])
      BY <1>1 DEF LoopBlocks
    <3> QED
      BY <2>1, <2>2, <3>1, <3>2
  <2> QED
    BY <2>3
<1>3. ASSUME Pops
      PROVE  LoopBlocks' = LoopBlocks \ {Innermost}
  <2>1. n > 0 /\ Innermost = blocks[n] /\ blocks' = Pop(blocks)
    BY <1>3, BlockFacts DEF Pops
  <2>2. DOMAIN blocks' = 1 .. n - 1 /\ \A i \in 1 .. n - 1 : blocks'[i] = blocks[i]
    BY <1>1, <2>1 DEF Pop
  <2> HIDE DEF n
  <2>3. /\ \A i : i \in 1 .. n <=> i \in 1 .. n - 1 \/ i = n
        /\ \A i \in 1 .. n - 1 : i < n
    BY <1>1, <2>1
  <2>4. ASSUME NEW i \in 1 .. n - 1 PROVE blocks[i] # blocks[n]
    <3>1. i \in DOMAIN blocks /\ n \in DOMAIN blocks /\ i < n
      BY <1>1, <2>1, <2>3
    <3>2. Before(blocks[i], blocks[n]) /\ blocks[i] \in Block
      BY <3>1, <1>1 DEF BlockInv
    <3> QED
      BY <3>2 DEF Before, Block
  <2>5. ASSUME NEW x
        PROVE  x \in LoopBlocks' <=> x \in LoopBlocks /\ x # blocks[n]
    <3>1. x \in LoopBlocks' <=> \E i \in 1 .. n - 1 : x = blocks'[i] /\ IsLoop(blocks'[i])
      BY <2>2 DEF LoopBlocks
    <3>2. x \in LoopBlocks <=> \E i \in 1 .. n : x = blocks[i] /\ IsLoop(blocks[i])
      BY <1>1 DEF LoopBlocks
    <3> QED
      BY <2>2, <2>3, <2>4, <3>1, <3>2
  <2> QED
    BY <2>1, <2>5
<1>4. ASSUME NEW kind, Switches(L, kind)
      PROVE  LoopBlocks' = LoopBlocks
  <2>1. n > 0 /\ Innermost = blocks[n] /\ Innermost \in Block /\ n \in DOMAIN blocks
        /\ Innermost.kind \in {"if", "try"} /\ kind \in {"else", "catch"}
        /\ blocks' = [blocks EXCEPT ![n].kind = kind]
    BY <1>4, BlockFacts DEF Switches
  <2>2. /\ blocks'[n] = [Innermost EXCEPT !.kind = kind] /\ DOMAIN blocks' = 1 .. n
        /\ \A i \in 1 .. n : i # n => blocks'[i] = blocks[i]
    BY <1>1, <2>1
  <2>3. blocks'[n].kind = kind
    BY <2>1, <2>2 DEF Block
  <2> HIDE DEF n
  <2>4. ~IsLoop(blocks'[n]) /\ ~IsLoop(blocks[n])
    BY <2>1, <2>3 DEF IsLoop
  <2>5. ASSUME NEW x
        PROVE  x \in LoopBlocks' <=> x \in LoopBlocks
    <3>1. x \in LoopBlocks' <=> \E i \in 1 .. n : x = blocks'[i] /\ IsLoop(blocks'[i])
      BY <2>2 DEF LoopBlocks
    <3>2. x \in LoopBlocks <=> \E i \in 1 .. n : x = blocks[i] /\ IsLoop(blocks[i])
      BY <1>1 DEF LoopBlocks
    <3> QED
      BY <2>2, <2>4, <3>1, <3>2
  <2> QED
    BY <2>5
<1> QED
  BY <1>2, <1>3, <1>4

(* What a loop state says of its block: break and continue go to the same  *)
(* handlers, which are the outermost of those in force.                    *)
LEMMA LoopFacts ==
  ASSUME NEW L, BlockInv(L), LoopInv(L), NEW k \in DOMAIN loops
  PROVE  /\ loops[k] \in LoopState
         /\ loops[k].break_label \in Labels(bc) /\ loops[k].continue_label \in Labels(bc)
         /\ L[loops[k].continue_label] = L[loops[k].break_label]
         /\ L[loops[k].break_label] \in Seq(Nat)
         /\ IsPrefixOf(L[loops[k].break_label], handlers)
         /\ IsPrefixOf(L[loops[k].break_label], Within(L, k))
<1>1. loops \in Seq(LoopState) /\ loops[k] \in LoopState
  BY DEF LoopInv
<1>2. PICK x \in LoopBlocks : x.last = loops[k].break_label /\ x.first = loops[k].continue_label
  BY DEF LoopInv
<1>3. PICK i \in DOMAIN blocks : x = blocks[i] /\ IsLoop(blocks[i])
  BY DEF LoopBlocks
<1> DEFINE n == Len(blocks)
<1>4. blocks \in Seq(Block) /\ n \in Nat /\ DOMAIN blocks = 1 .. n /\ n > 0 /\ blocks # <<>>
      /\ handlers \in Seq(Nat)
  <2>1. blocks \in Seq(Block) /\ handlers \in Seq(Nat)
    BY DEF BlockInv
  <2>2. n \in Nat /\ DOMAIN blocks = 1 .. n
    BY <2>1
  <2>3. n > 0
    BY <1>3, <2>2
  <2> QED
    BY <2>1, <2>2, <2>3
<1>5. \A j \in DOMAIN blocks : L[blocks[j].last] \in Seq(Nat)
  <2> SUFFICES ASSUME NEW j \in DOMAIN blocks PROVE L[blocks[j].last] \in Seq(Nat)
    OBVIOUS
  <2>1. blocks[j] \in Block
    BY <1>4
  <2>2. blocks[j].last \in Nat
    BY <2>1 DEF Block
  <2> QED
    BY <2>2 DEF BlockInv
<1>6. /\ x.first \in Labels(bc) /\ x.last \in Labels(bc) /\ L[x.first] = L[x.last]
  BY <1>3 DEF BlockInv, IsLoop, Inner
<1>7. IsPrefixOf(L[x.last], handlers)
  <2>1. IsPrefixOf(L[blocks[i].last], L[blocks[n].last])
    <3>1. n \in DOMAIN blocks /\ i <= n
      BY <1>3, <1>4
    <3> QED
      BY <3>1 DEF BlockInv
  <2>2. IsPrefixOf(L[blocks[n].last], handlers) /\ n \in DOMAIN blocks
    BY <1>4, BlockFacts
  <2> QED
    BY <2>1, <2>2, <1>3, <1>4, <1>5, PrefixFacts
<1>8. IsPrefixOf(L[loops[k].break_label], Within(L, k))
  <2>1. CASE k = Len(loops)
    BY <2>1, <1>2, <1>7 DEF Within
  <2>2. CASE k # Len(loops)
    <3>1. k + 1 \in DOMAIN loops /\ k < k + 1
      BY <2>2, <1>1
    <3>2. PICK y \in LoopBlocks : y.last = loops[k + 1].break_label
      BY <3>1 DEF LoopInv
    <3>3. PICK j \in DOMAIN blocks : y = blocks[j]
      BY DEF LoopBlocks
    <3>4. x.last < y.last
      BY <1>2, <3>1, <3>2 DEF LoopInv
    <3>5. i <= j
      <4>1. j < i => Before(blocks[j], blocks[i])
        BY <1>3 DEF BlockInv
      <4>2. x \in Block /\ y \in Block
        BY <1>3, <1>4, <3>3
      <4>3. x.last \in Nat /\ y.last \in Nat
        BY <4>2 DEF Block
      <4> QED
        BY <4>1, <4>3, <1>3, <1>4, <3>3, <3>4 DEF Before
    <3>6. IsPrefixOf(L[x.last], L[y.last])
      BY <1>3, <3>3, <3>5 DEF BlockInv
    <3> QED
      BY <2>2, <3>2, <3>6, <1>2 DEF Within
  <2> QED
    BY <2>1, <2>2
<1> QED
  BY <1>1, <1>2, <1>3, <1>5, <1>6, <1>7, <1>8

(* A step that starts or ends no loop; it may start or end a try statement, *)
(* which counts for the innermost loop.                                    *)
KeepsLoops(L, L2, n) ==
  /\ n \in Int
  /\ LoopBlocks' = LoopBlocks
  /\ loops' = IF loops = <<>> THEN loops ELSE [loops EXCEPT ![Len(loops)].try_depth = @ + n]
  /\ Len(handlers') = Len(handlers) + n
  /\ \A l \in Labels(bc) : L2[l] = L[l]

LEMMA KeepLoops ==
  ASSUME NEW L, NEW L2, NEW n, BlockInv(L), LoopInv(L), KeepsLoops(L, L2, n)
  PROVE  LoopInv(L2)'
<1> DEFINE m == Len(loops)
<1>0. n \in Int /\ LoopBlocks' = LoopBlocks /\ Len(handlers') = Len(handlers) + n
  BY DEF KeepsLoops
<1>1. loops \in Seq(LoopState) /\ m \in Nat /\ DOMAIN loops = 1 .. m
  BY DEF LoopInv
<1>i. ASSUME NEW k \in 1 .. m
      PROVE  loops[k].try_depth \in Int
  <2>1. loops[k] \in LoopState
    BY <1>1
  <2> QED
    BY <2>1 DEF LoopState
<1>2. /\ loops' \in Seq(LoopState) /\ Len(loops') = m /\ DOMAIN loops' = 1 .. m
      /\ \A k \in 1 .. m : /\ loops'[k].break_label = loops[k].break_label
                           /\ loops'[k].continue_label = loops[k].continue_label
                           /\ loops'[k].try_depth = loops[k].try_depth + IF k = m THEN n ELSE 0
  <2>1. CASE loops = <<>>
    BY <2>1, <1>1 DEF KeepsLoops
  <2>2. CASE loops # <<>>
    <3> DEFINE x == [loops[m] EXCEPT !.try_depth = @ + n]
    <3>1. m \in 1 .. m /\ loops[m] \in LoopState
      BY <2>2, <1>1
    <3>2. /\ x \in LoopState /\ x.break_label = loops[m].break_label
          /\ x.continue_label = loops[m].continue_label
          /\ x.try_depth = loops[m].try_depth + n
      BY <3>1, <1>0 DEF LoopState
    <3>3. loops' = [loops EXCEPT ![m] = x]
      BY <2>2, <3>1, <1>1 DEF KeepsLoops
    <3> HIDE DEF x, m
    <3>4. /\ loops' \in Seq(LoopState) /\ Len(loops') = m
          /\ \A k \in 1 .. m : loops'[k] = IF k = m THEN x ELSE loops[k]
      BY <3>1, <3>2, <3>3, <1>1, ExceptSeq DEF m
    <3>5. \A k \in 1 .. m : loops[k].try_depth \in Int
      BY <1>i
    <3>6. DOMAIN loops' = 1 .. m
      BY <3>4
    <3>7. ASSUME NEW k \in 1 .. m
          PROVE  /\ loops'[k].break_label = loops[k].break_label
                 /\ loops'[k].continue_label = loops[k].continue_label
                 /\ loops'[k].try_depth = loops[k].try_depth + IF k = m THEN n ELSE 0
      <4>1. CASE k = m
        BY <4>1, <3>2, <3>4
      <4>2. CASE k # m
        BY <4>2, <3>4, <3>5
      <4> QED
        BY <4>1, <4>2
    <3> QED
      BY <3>4, <3>6, <3>7 DEF m
  <2> QED
    BY <2>1, <2>2
<1> HIDE DEF m
<1>3. \A k \in 1 .. m : L2[loops[k].break_label] = L[loops[k].break_label]
  <2> SUFFICES ASSUME NEW k \in 1 .. m
               PROVE  L2[loops[k].break_label] = L[loops[k].break_label]
    OBVIOUS
  <2>1. loops[k].break_label \in Labels(bc)
    BY <1>1, LoopFacts
  <2> QED
    BY <2>1 DEF KeepsLoops
<1>4. ASSUME NEW k \in 1 .. m
      PROVE  \E x \in LoopBlocks :
               x.last = loops'[k].break_label /\ x.first = loops'[k].continue_label
  <2>1. \E x \in LoopBlocks :
          x.last = loops[k].break_label /\ x.first = loops[k].continue_label
    BY <1>1 DEF LoopInv
  <2> QED
    BY <2>1, <1>2
<1>5. \A x \in LoopBlocks : \E k \in 1 .. m : x.last = loops'[k].break_label
  BY <1>1, <1>2 DEF LoopInv
<1>6. \A j, k \in 1 .. m : j < k => loops'[j].break_label < loops'[k].break_label
  BY <1>1, <1>2 DEF LoopInv
<1>7. ASSUME NEW k \in 1 .. m
      PROVE  loops'[k].try_depth = Len(Within(L2, k)') - Len(L2[loops'[k].break_label])
  <2>1. /\ loops[k].try_depth = Len(Within(L, k)) - Len(L[loops[k].break_label])
        /\ L[loops[k].break_label] \in Seq(Nat)
    BY <1>1, LoopFacts DEF LoopInv
  <2>2. handlers \in Seq(Nat)
    BY DEF BlockInv
  <2>3. CASE k = m
    <3>1. Within(L, k) = handlers /\ Within(L2, k)' = handlers'
      BY <2>3, <1>2 DEF Within, m
    <3>2. loops'[k].try_depth = loops[k].try_depth + n
          /\ L2[loops'[k].break_label] = L[loops[k].break_label]
      BY <2>3, <1>2, <1>3
    <3> QED
      BY <2>1, <2>2, <3>1, <3>2, <1>0
  <2>4. CASE k # m
    <3>1. k + 1 \in 1 .. m
      BY <2>4, <1>1
    <3>2. Within(L, k) = L[loops[k + 1].break_label]
      BY <2>4 DEF Within, m
    <3>3. Within(L2, k)' = L2[loops'[k + 1].break_label]
      BY <2>4, <1>2 DEF Within
    <3>4. Within(L2, k)' = Within(L, k)
      <4>1. loops'[k + 1].break_label = loops[k + 1].break_label
            /\ L2[loops[k + 1].break_label] = L[loops[k + 1].break_label]
        BY <3>1, <1>2, <1>3
      <4> QED
        BY <4>1, <3>2, <3>3
    <3>5. loops[k].try_depth \in Int
      BY <1>i
    <3>6. loops'[k].try_depth = loops[k].try_depth
          /\ L2[loops'[k].break_label] = L[loops[k].break_label]
      BY <2>4, <3>5, <1>2, <1>3
    <3> QED
      BY <2>1, <3>4, <3>6
  <2> QED
    BY <2>3, <2>4
<1>8. /\ \A k \in DOMAIN loops' : \E x \in LoopBlocks' :
           x.last = loops'[k].break_label /\ x.first = loops'[k].continue_label
      /\ \A x \in LoopBlocks' : \E k \in DOMAIN loops' : x.last = loops'[k].break_label
  <2>1. DOMAIN loops' = 1 .. m
    BY <1>2
  <2> QED
    BY <2>1, <1>0, <1>4, <1>5
<1> QED
  BY <1>2, <1>6, <1>7, <1>8 DEF LoopInv

(* EnterLoop                                                               *)
EntersLoop(L, L2, x) ==
  /\ x \in Block /\ IsLoop(x) /\ L2[x.last] = handlers
  /\ \A l \in Labels(bc) : L2[l] = L[l] /\ l < x.last
  /\ LoopBlocks' = LoopBlocks \cup {x} /\ handlers' = handlers
  /\ loops' = Append(loops, [continue_label |-> x.first, break_label |-> x.last,
                             try_depth |-> 0])

LEMMA PushLoop ==
  ASSUME NEW L, NEW L2, NEW x, BlockInv(L), LoopInv(L), EntersLoop(L, L2, x)
  PROVE  LoopInv(L2)'
<1> DEFINE m == Len(loops)
           y == [continue_label |-> x.first, break_label |-> x.last, try_depth |-> 0]
<1>0. /\ x \in Block /\ L2[x.last] = handlers /\ handlers' = handlers
      /\ LoopBlocks' = LoopBlocks \cup {x} /\ loops' = Append(loops, y)
  BY DEF EntersLoop
<1>1. loops \in Seq(LoopState) /\ m \in Nat /\ DOMAIN loops = 1 .. m
  BY DEF LoopInv
<1>2. y \in LoopState /\ y.break_label = x.last /\ y.continue_label = x.first /\ y.try_depth = 0
  BY <1>0 DEF LoopState, Block
<1> HIDE DEF y
<1>3. /\ loops' \in Seq(LoopState) /\ Len(loops') = m + 1 /\ DOMAIN loops' = 1 .. m + 1
      /\ \A k \in 1 .. m : loops'[k] = loops[k]
      /\ loops'[m + 1] = y
  BY <1>0, <1>1, <1>2
<1> HIDE DEF m
<1>d. /\ \A k : k \in 1 .. m + 1 <=> k \in 1 .. m \/ k = m + 1
      /\ \A k \in 1 .. m : k < m + 1 /\ k # m + 1
      /\ m + 1 \in 1 .. m + 1
  BY <1>1
<1>4. ASSUME NEW k \in 1 .. m
      PROVE  L2[loops[k].break_label] = L[loops[k].break_label]
             /\ loops[k].break_label < x.last
  <2>1. loops[k].break_label \in Labels(bc)
    BY <1>1, LoopFacts
  <2> QED
    BY <2>1 DEF EntersLoop
<1>5. ASSUME NEW k \in 1 .. m + 1
      PROVE  \E z \in LoopBlocks' :
               z.last = loops'[k].break_label /\ z.first = loops'[k].continue_label
  <2>1. CASE k \in 1 .. m
    <3>1. \E z \in LoopBlocks :
            z.last = loops[k].break_label /\ z.first = loops[k].continue_label
      BY <2>1, <1>1 DEF LoopInv
    <3> QED
      BY <2>1, <3>1, <1>0, <1>3
  <2>2. CASE k = m + 1
    BY <2>2, <1>0, <1>2, <1>3
  <2> QED
    BY <2>1, <2>2, <1>d
<1>6. ASSUME NEW z \in LoopBlocks'
      PROVE  \E k \in 1 .. m + 1 : z.last = loops'[k].break_label
  <2>1. CASE z \in LoopBlocks
    <3>1. PICK k \in 1 .. m : z.last = loops[k].break_label
      BY <2>1, <1>1 DEF LoopInv
    <3> QED
      BY <3>1, <1>3, <1>d
  <2>2. CASE z = x
    BY <2>2, <1>2, <1>3, <1>d
  <2> QED
    BY <2>1, <2>2, <1>0
<1>7. ASSUME NEW j \in 1 .. m + 1, NEW k \in 1 .. m + 1, j < k
      PROVE  loops'[j].break_label < loops'[k].break_label
  <2>1. j \in 1 .. m
    BY <1>1, <1>7
  <2>2. CASE k \in 1 .. m
    BY <2>1, <2>2, <1>1, <1>3, <1>7 DEF LoopInv
  <2>3. CASE k = m + 1
    BY <2>1, <2>3, <1>2, <1>3, <1>4
  <2> QED
    BY <2>2, <2>3, <1>d
<1>8. ASSUME NEW k \in 1 .. m + 1
      PROVE  loops'[k].try_depth = Len(Within(L2, k)') - Len(L2[loops'[k].break_label])
  <2>0. handlers \in Seq(Nat)
    BY DEF BlockInv
  <2>1. CASE k = m + 1
    <3>1. Within(L2, k)' = handlers
      BY <2>1, <1>0, <1>3 DEF Within
    <3>2. L2[loops'[k].break_label] = handlers /\ loops'[k].try_depth = 0
      BY <2>1, <1>0, <1>2, <1>3
    <3> QED
      BY <2>0, <3>1, <3>2
  <2>2. CASE k \in 1 .. m
    <3>1. loops[k].try_depth = Len(Within(L, k)) - Len(L[loops[k].break_label])
      BY <2>2, <1>1 DEF LoopInv
    <3>2. Within(L2, k)' = L2[loops'[k + 1].break_label]
      BY <2>2, <1>3, <1>d DEF Within
    <3>3. Within(L2, k)' = Within(L, k)
      <4>1. CASE k = m
        <5>1. Within(L, k) = handlers
          BY <4>1 DEF Within, m
        <5> QED
          BY <4>1, <5>1, <3>2, <1>0, <1>2, <1>3
      <4>2. CASE k # m
        <5>1. k + 1 \in 1 .. m
          BY <2>2, <4>2, <1>1
        <5>2. Within(L, k) = L[loops[k + 1].break_label]
          BY <4>2 DEF Within, m
        <5> QED
          BY <5>1, <5>2, <3>2, <1>3, <1>4
      <4> QED
        BY <4>1, <4>2
    <3> QED
      BY <2>2, <3>1, <3>3, <1>3, <1>4
  <2> QED
    BY <2>1, <2>2, <1>d
<1> QED
  BY <1>3, <1>5, <1>6, <1>7, <1>8 DEF LoopInv

(* The end of a loop pops its own state.                                   *)
LEMMA PopLoop ==
  ASSUME NEW L, BlockInv(L), LoopInv(L), Pops, IsLoop(Innermost), loops' = Pop(loops)
  PROVE  LoopInv(L)'
<1> DEFINE m == Len(loops)
           n == Len(blocks)
           x == Innermost
<1>1. loops \in Seq(LoopState) /\ m \in Nat /\ DOMAIN loops = 1 .. m
  BY DEF LoopInv
<1>2. /\ blocks \in Seq(Block) /\ n \in Nat /\ DOMAIN blocks = 1 .. n /\ n \in DOMAIN blocks
      /\ x = blocks[n] /\ handlers = Inner(L, x) /\ handlers \in Seq(Nat)
      /\ handlers' = handlers
  <2>1. blocks # <<>> /\ handlers' = handlers
    BY DEF Pops
  <2>2. blocks \in Seq(Block) /\ handlers \in Seq(Nat)
    BY DEF BlockInv
  <2> QED
    BY <2>1, <2>2, BlockFacts
<1>3. L[x.last] = handlers
  BY <1>2 DEF Inner, IsLoop
<1>4. LoopBlocks' = LoopBlocks \ {x}
  BY LoopBlocksChange
<1>5. x \in LoopBlocks
  BY <1>2 DEF LoopBlocks
<1> HIDE DEF n, m
<1>6. ASSUME NEW z \in LoopBlocks, z # x
      PROVE  z.last < x.last
  <2>1. PICK i \in DOMAIN blocks : z = blocks[i]
    BY DEF LoopBlocks
  <2>2. i < n
    BY <2>1, <1>2, <1>6
  <2> QED
    BY <2>1, <2>2, <1>2 DEF BlockInv, Before
<1>7. m \in 1 .. m /\ loops[m].break_label = x.last
  <2>1. PICK k \in 1 .. m : x.last = loops[k].break_label
    BY <1>1, <1>5 DEF LoopInv
  <2>2. m \in 1 .. m
    BY <1>1, <2>1
  <2>3. PICK z \in LoopBlocks : z.last = loops[m].break_label
    BY <1>1, <2>2 DEF LoopInv
  <2>4. k < m => x.last < z.last
    BY <1>1, <2>1, <2>2, <2>3 DEF LoopInv
  <2>5. x.last \in Nat /\ z.last \in Nat
    <3>1. loops[k] \in LoopState /\ loops[m] \in LoopState
      BY <1>1, <2>2
    <3> QED
      BY <2>1, <2>3, <3>1 DEF LoopState
  <2>6. ~(x.last < z.last)
    BY <2>5, <1>6
  <2> QED
    BY <2>1, <2>2, <2>4, <2>6, <1>1
<1>8. /\ loops' \in Seq(LoopState) /\ Len(loops') = m - 1 /\ DOMAIN loops' = 1 .. m - 1
      /\ \A k \in 1 .. m - 1 : loops'[k] = loops[k]
  BY <1>1, <1>7 DEF Pop, m
<1>d. /\ \A k : k \in 1 .. m <=> k \in 1 .. m - 1 \/ k = m
      /\ \A k \in 1 .. m - 1 : k < m
  BY <1>1, <1>7
<1>9. ASSUME NEW k \in 1 .. m - 1
      PROVE  loops[k].break_label # x.last
  <2>1. loops[k].break_label < loops[m].break_label
    BY <1>1, <1>7, <1>d DEF LoopInv
  <2>2. loops[k] \in LoopState
    BY <1>1, <1>d
  <2> QED
    BY <2>1, <2>2, <1>7 DEF LoopState
<1>10. ASSUME NEW k \in 1 .. m - 1
       PROVE  \E z \in LoopBlocks' :
                z.last = loops'[k].break_label /\ z.first = loops'[k].continue_label
  <2>1. PICK z \in LoopBlocks :
          z.last = loops[k].break_label /\ z.first = loops[k].continue_label
    BY <1>1, <1>d DEF LoopInv
  <2>2. z # x
    BY <2>1, <1>9
  <2> QED
    BY <2>1, <2>2, <1>4, <1>8
<1>11. ASSUME NEW z \in LoopBlocks'
       PROVE  \E k \in 1 .. m - 1 : z.last = loops'[k].break_label
  <2>1. z \in LoopBlocks /\ z # x
    BY <1>4
  <2>2. PICK k \in 1 .. m : z.last = loops[k].break_label
    BY <2>1, <1>1 DEF LoopInv
  <2>3. k # m
    <3>1. z.last < x.last /\ z.last \in Nat
      <4>1. loops[k] \in LoopState
        BY <1>1
      <4> QED
        BY <2>1, <2>2, <4>1, <1>6 DEF LoopState
    <3> QED
      BY <3>1, <2>2, <1>7
  <2> QED
    BY <2>2, <2>3, <1>d, <1>8
<1>12. \A j, k \in 1 .. m - 1 : j < k => loops'[j].break_label < loops'[k].break_label
  BY <1>1, <1>8, <1>d DEF LoopInv
<1>13. ASSUME NEW k \in 1 .. m - 1
       PROVE  loops'[k].try_depth = Len(Within(L, k)') - Len(L[loops'[k].break_label])
  <2>1. loops[k].try_depth = Len(Within(L, k)) - Len(L[loops[k].break_label])
    <3>1. k \in DOMAIN loops
      BY <1>1, <1>d
    <3> QED
      BY <3>1 DEF LoopInv
  <2>2. Within(L, k) = L[loops[k + 1].break_label]
    <3>1. k < m
      BY <1>d
    <3>2. k # m
      BY <3>1, <1>1
    <3> QED
      BY <3>2 DEF Within, m
  <2>3. Within(L, k)' = Within(L, k)
    <3>1. CASE k = m - 1
      <4>1. Within(L, k)' = handlers
        BY <3>1, <1>2, <1>8 DEF Within
      <4>2. k + 1 = m
        BY <3>1, <1>1
      <4> QED
        BY <4>1, <4>2, <2>2, <1>3, <1>7
    <3>2. CASE k # m - 1
      <4>1. k + 1 \in 1 .. m - 1
        BY <3>2, <1>1
      <4>2. Within(L, k)' = L[loops'[k + 1].break_label]
        BY <3>2, <1>8 DEF Within
      <4> QED
        BY <4>1, <4>2, <2>2, <1>8
    <3> QED
      BY <3>1, <3>2
  <2> QED
    BY <2>1, <2>3, <1>8
<1> QED
  BY <1>8, <1>10, <1>11, <1>12, <1>13 DEF LoopInv
-----------------------------------------------------------------------------
(* The compiler's part of the inductive invariant, and one lemma for each  *)
(* statement.                                                              *)
CompileInv(L) ==
  /\ Sound(bc, L, max_try_depth, handlers, 0, starts)
  /\ LabelInv /\ BlockInv(L) /\ LoopInv(L)
  /\ try_depth = Len(handlers) /\ max_try_depth \in Nat /\ try_depth <= max_try_depth
  /\ steps \in 0 .. MaxSteps

LEMMA HandlersKept ==
  ASSUME NEW b, NEW b2, NEW L, NEW mx, NEW h, Handlers(b, L, mx, h), b2.labels = b.labels
  PROVE  Handlers(b2, L, mx, h)
BY DEF Handlers, Labels

(* What most lemmas need of the state before the step.                     *)
LEMMA CompileFacts ==
  ASSUME NEW L, CompileInv(L)
  PROVE  /\ Sound(bc, L, max_try_depth, handlers, 0, starts)
         /\ bc \in Bytecodes /\ Len(bc.code) \in Nat /\ Handlers(bc, L, max_try_depth, handlers)
         /\ handlers \in Seq(Nat) /\ Len(handlers) \in Nat /\ max_try_depth \in Nat
         /\ L \in [Nat -> Seq(Nat)]
         /\ StatementHere => Sound(bc, L, max_try_depth, handlers, 0, starts')
<1>1. Sound(bc, L, max_try_depth, handlers, 0, starts) /\ max_try_depth \in Nat /\ BlockInv(L)
  BY DEF CompileInv
<1>2. bc \in Bytecodes /\ Len(bc.code) \in Nat /\ Handlers(bc, L, max_try_depth, handlers)
  BY <1>1, SoundHere
<1>3. handlers \in Seq(Nat) /\ L \in [Nat -> Seq(Nat)]
  BY <1>1 DEF BlockInv
<1>4. Len(handlers) \in Nat
  BY <1>3
<1>5. StatementHere => Sound(bc, L, max_try_depth, handlers, 0, starts')
  BY <1>1, StartSound DEF StatementHere
<1> QED
  BY <1>1, <1>2, <1>3, <1>4, <1>5

(* A statement without a body, and the end of the function.                *)
Plain(L) ==
  /\ Sound(bc', L, max_try_depth, handlers, 0, starts')
  /\ bc'.labels = bc.labels
  /\ (Parsing /\ steps' = steps + 1) \/ steps' = steps
  /\ UNCHANGED <<blocks, loops, try_depth, max_try_depth, handlers>>

LEMMA PlainStep ==
  ASSUME NEW L, CompileInv(L), Plain(L)
  PROVE  CompileInv(L)'
<1>1. /\ blocks' = blocks /\ loops' = loops /\ handlers' = handlers
      /\ try_depth' = try_depth /\ max_try_depth' = max_try_depth
      /\ bc'.labels = bc.labels /\ Sound(bc', L, max_try_depth, handlers, 0, starts')
  BY DEF Plain
<1>2. steps' \in 0 .. MaxSteps
  BY StepsAssumption DEF Plain, Parsing, CompileInv
<1>3. Labels(bc') = Labels(bc)
  BY <1>1 DEF Labels
<1>4. LabelInv'
  BY <1>1, <1>3 DEF LabelInv, CompileInv
<1>5. BlockInv(L)'
  <2>1. BlockInv(L)
    BY DEF CompileInv
  <2> QED
    BY <2>1, <1>1, <1>3 DEF BlockInv
<1>6. LoopInv(L)'
  <2>1. LoopInv(L) /\ LoopBlocks' = LoopBlocks
    BY <1>1 DEF CompileInv, LoopBlocks
  <2> QED
    BY <2>1, <1>1 DEF LoopInv, Within
<1> QED
  BY <1>1, <1>2, <1>4, <1>5, <1>6 DEF CompileInv

LEMMA ExpressionStatementStep ==
  ASSUME NEW L, CompileInv(L), ExpressionStatement
  PROVE  CompileInv(L)'
<1> DEFINE e == Expression(bc)
<1>1. Sound(bc, L, max_try_depth, handlers, 0, starts')
  BY CompileFacts DEF ExpressionStatement
<1>2. Sound(e, L, max_try_depth, handlers, 0 + 1, starts') /\ e.labels = bc.labels
  BY <1>1, ExpressionSound
<1>3. 0 + 1 = 1
  OBVIOUS
<1> HIDE DEF e
<1>4. Sound(Emit(e, "POP"), L, max_try_depth, handlers, 0, starts')
      /\ Emit(e, "POP").labels = e.labels
  BY <1>2, <1>3, PopSound
<1>5. Plain(L)
  BY <1>2, <1>4 DEF ExpressionStatement, Plain, e
<1> QED
  BY <1>5, PlainStep

LEMMA ThrowStatementStep ==
  ASSUME NEW L, CompileInv(L), ThrowStatement
  PROVE  CompileInv(L)'
<1> DEFINE e == Expression(bc)
<1>1. Sound(bc, L, max_try_depth, handlers, 0, starts')
  BY CompileFacts DEF ThrowStatement
<1>2. Sound(e, L, max_try_depth, handlers, 0 + 1, starts') /\ e.labels = bc.labels
  BY <1>1, ExpressionSound
<1>3. 0 + 1 = 1
  OBVIOUS
<1> HIDE DEF e
<1>4. Sound(Emit(e, "THROW"), L, max_try_depth, handlers, 0, starts')
      /\ Emit(e, "THROW").labels = e.labels
  BY <1>2, <1>3, LeaveSound
<1>5. Plain(L)
  BY <1>2, <1>4 DEF ThrowStatement, Plain, e
<1> QED
  BY <1>5, PlainStep

(* PUSH, RETURN: a return statement, and the end of every function.        *)
LEMMA ReturnSound ==
  ASSUME NEW b, NEW L, NEW mx, NEW H, NEW st, Sound(b, L, mx, H, 0, st)
  PROVE  Sound(Emit(Emit(b, "PUSH"), "RETURN"), L, mx, H, 0, st)
         /\ Emit(Emit(b, "PUSH"), "RETURN").labels = b.labels
<1> DEFINE e == Emit(b, "PUSH")
<1>1. Sound(e, L, mx, H, 0 + 1, st) /\ e.labels = b.labels
  BY PushSound
<1>2. 0 + 1 = 1
  OBVIOUS
<1> HIDE DEF e
<1>3. Sound(Emit(e, "RETURN"), L, mx, H, 0, st) /\ Emit(e, "RETURN").labels = e.labels
  BY <1>1, <1>2, LeaveSound
<1> QED
  BY <1>1, <1>3 DEF e

LEMMA ReturnStatementStep ==
  ASSUME NEW L, CompileInv(L), ReturnStatement
  PROVE  CompileInv(L)'
<1>1. Sound(bc, L, max_try_depth, handlers, 0, starts')
  BY CompileFacts DEF ReturnStatement
<1>2. Plain(L)
  BY <1>1, ReturnSound DEF ReturnStatement, Plain
<1> QED
  BY <1>2, PlainStep

(* break and continue: the try statements inside the loop are left, then a *)
(* jump to one of the loop's labels.                                       *)
LEMMA LeaveLoop ==
  ASSUME NEW L, CompileInv(L), loops # <<>>, StatementHere,
         NEW l \in {Loop.break_label, Loop.continue_label}
  PROVE  LET b == EmitJump(PopTries(bc, Loop.try_depth), "JUMP", l) IN
         Sound(b, L, max_try_depth, handlers, 0, starts') /\ b.labels = bc.labels
<1> DEFINE k == Len(loops)
           g == L[Loop.break_label]
           n == Loop.try_depth
           e == PopTries(bc, n)
<1>1. BlockInv(L) /\ LoopInv(L)
  BY DEF CompileInv
<1>2. k \in DOMAIN loops /\ Loop = loops[k]
  BY <1>1 DEF LoopInv, Loop
<1>3. /\ Loop.break_label \in Labels(bc) /\ Loop.continue_label \in Labels(bc)
      /\ L[Loop.continue_label] = g /\ g \in Seq(Nat) /\ IsPrefixOf(g, handlers)
  BY <1>1, <1>2, LoopFacts
<1>4. n = Len(handlers) - Len(g)
  BY <1>1, <1>2 DEF LoopInv, Within
<1>5. Sound(bc, L, max_try_depth, handlers, 0, starts') /\ max_try_depth \in Nat
      /\ Len(handlers) \in Nat /\ Handlers(bc, L, max_try_depth, handlers)
  BY CompileFacts
<1>6. n \in 0 .. Len(handlers) /\ Len(handlers) - n = Len(g) /\ g = Prefix(handlers, Len(g))
  <2>1. Len(g) \in Nat /\ Len(g) <= Len(handlers) /\ g = Prefix(handlers, Len(g))
    BY <1>3 DEF IsPrefixOf
  <2> HIDE DEF g, n
  <2> QED
    BY <2>1, <1>4, <1>5
<1>7. L[l] = g /\ l \in Labels(bc)
  BY <1>3
<1> HIDE DEF n, g, e
<1>8. Sound(e, L, max_try_depth, Prefix(handlers, Len(handlers) - n), 0, starts')
      /\ e.labels = bc.labels
  <2>1. Sound(bc, L, max_try_depth, handlers, 0, starts') /\ max_try_depth \in Nat
    BY <1>5
  <2>2. n \in 0 .. Len(handlers)
    BY <1>6
  <2> QED
    BY <2>1, <2>2, PopTriesSound DEF e
<1>9. Sound(e, L, max_try_depth, g, 0, starts') /\ l \in Labels(e)
      /\ Handlers(e, L, max_try_depth, handlers)
  BY <1>5, <1>6, <1>7, <1>8, HandlersKept DEF Labels
<1>10. Sound(EmitJump(e, "JUMP", l), L, max_try_depth, handlers, 0, starts')
       /\ EmitJump(e, "JUMP", l).labels = e.labels
  BY <1>7, <1>9, JumpSound
<1> QED
  BY <1>8, <1>10 DEF e, n

LEMMA BreakStatementStep ==
  ASSUME NEW L, CompileInv(L), BreakStatement
  PROVE  CompileInv(L)'
<1>1. Plain(L)
  BY LeaveLoop DEF BreakStatement, Plain
<1> QED
  BY <1>1, PlainStep

LEMMA ContinueStatementStep ==
  ASSUME NEW L, CompileInv(L), ContinueStatement
  PROVE  CompileInv(L)'
<1>1. Plain(L)
  BY LeaveLoop DEF ContinueStatement, Plain
<1> QED
  BY <1>1, PlainStep
-----------------------------------------------------------------------------
(* Statements with a body.  The handlers of a new label are chosen as it   *)
(* is made.                                                                *)
Fresh(b, e, L, L2) ==
  /\ L2 \in [Nat -> Seq(Nat)]
  /\ Len(b.labels) \in Nat /\ Labels(b) = 1 .. Len(b.labels)
  /\ Labels(e) = 1 .. Len(e.labels)
  /\ \A l \in Labels(b) : l \in Labels(e) /\ e.labels[l] = b.labels[l] /\ L2[l] = L[l]
  /\ \A l \in Labels(e) \ Labels(b) : e.labels[l] = Unmarked

LEMMA OneLabel ==
  ASSUME NEW b, NEW L \in [Nat -> Seq(Nat)], NEW mx \in Nat, NEW H, NEW st,
         Sound(b, L, mx, H, 0, st), NEW h \in Seq(Nat)
  PROVE  \E L2 : /\ Sound(NewLabel(b), L2, mx, H, 0, st)
                 /\ Fresh(b, NewLabel(b), L, L2)
                 /\ L2[Len(b.labels) + 1] = h
                 /\ Len(NewLabel(b).labels) = Len(b.labels) + 1
<1> DEFINE N == Len(b.labels)
           e == NewLabel(b)
           L2 == [L EXCEPT ![N + 1] = h]
<1>0. Resolved(b)
  BY DEF Sound
<1>1. b.labels \in Seq(Nat \cup {Unmarked}) /\ N \in Nat /\ Labels(b) = 1 .. N
  <2>1. b.labels \in Seq(Nat \cup {Unmarked})
    BY <1>0 DEF Resolved, Bytecodes
  <2> QED
    BY <2>1, LenProperties DEF Labels
<1>2. e.labels = Append(b.labels, Unmarked)
  BY <1>0, NewLabelResolved
<1>3. /\ Len(e.labels) = N + 1 /\ Labels(e) = 1 .. N + 1
      /\ \A l \in 1 .. N : e.labels[l] = b.labels[l]
      /\ e.labels[N + 1] = Unmarked
  <2> DEFINE s == b.labels
  <2>1. s \in Seq(Nat \cup {Unmarked}) /\ Unmarked \in Nat \cup {Unmarked} /\ N = Len(s)
    BY <1>1
  <2> HIDE DEF s, N, e
  <2>2. /\ Append(s, Unmarked) \in Seq(Nat \cup {Unmarked})
        /\ Len(Append(s, Unmarked)) = N + 1
        /\ \A l \in 1 .. N : Append(s, Unmarked)[l] = s[l]
        /\ Append(s, Unmarked)[N + 1] = Unmarked
    BY <2>1, AppendProperties
  <2>3. e.labels = Append(s, Unmarked)
    BY <1>2 DEF s
  <2>4. DOMAIN e.labels = 1 .. N + 1
    BY <2>2, <2>3, LenProperties
  <2> QED
    BY <2>2, <2>3, <2>4 DEF s, Labels
<1> HIDE DEF N, e
<1>n. N \in Nat
  BY <1>1
<1>4. /\ L2 \in [Nat -> Seq(Nat)] /\ L2[N + 1] = h
      /\ \A l \in 1 .. N : L2[l] = L[l]
  <2>1. N + 1 \in Nat /\ \A l \in 1 .. N : l \in Nat /\ l # N + 1
    BY <1>1
  <2> QED
    BY <2>1
<1> HIDE DEF L2
<1>5. Sound(b, L2, mx, H, 0, st)
  <2>1. \A l \in Labels(b) : L2[l] = L[l]
    BY <1>1, <1>4
  <2>2. mx <= mx
    OBVIOUS
  <2> QED
    BY <2>1, <2>2, AgreeSound
<1>6. Sound(e, L2, mx, H, 0, st)
  <2>1. Sound(NewLabel(b), L2, mx, H, 0, st)
    BY <1>5, NewLabelSound
  <2> QED
    BY <2>1 DEF e
<1>7. \A l : l \in 1 .. N + 1 <=> l \in 1 .. N \/ l = N + 1
  BY <1>n, OneMore
<1>8. Fresh(b, e, L, L2)
  BY <1>1, <1>3, <1>4, <1>7 DEF Fresh, N
<1> QED
  BY <1>3, <1>4, <1>6, <1>8 DEF N, e

LEMMA TwoLabels ==
  ASSUME NEW b, NEW L \in [Nat -> Seq(Nat)], NEW mx \in Nat, NEW H, NEW st,
         Sound(b, L, mx, H, 0, st), NEW h1 \in Seq(Nat), NEW h2 \in Seq(Nat)
  PROVE  LET e == NewLabel(NewLabel(b))
             N == Len(b.labels)
         IN \E L2 : /\ Sound(e, L2, mx, H, 0, st) /\ Fresh(b, e, L, L2)
                    /\ L2[N + 1] = h1 /\ L2[N + 2] = h2 /\ Len(e.labels) = N + 2
<1> DEFINE N == Len(b.labels)
           d == NewLabel(b)
           e == NewLabel(d)
<1>1. PICK K : Sound(d, K, mx, H, 0, st) /\ Fresh(b, d, L, K)
               /\ K[N + 1] = h1 /\ Len(d.labels) = N + 1
  BY OneLabel
<1> HIDE DEF d
<1>2. K \in [Nat -> Seq(Nat)]
  BY <1>1 DEF Fresh
<1>3. PICK L2 : Sound(e, L2, mx, H, 0, st) /\ Fresh(d, e, K, L2)
                /\ L2[Len(d.labels) + 1] = h2 /\ Len(e.labels) = Len(d.labels) + 1
  BY <1>1, <1>2, OneLabel
<1> HIDE DEF e, N
<1>4. N \in Nat /\ Labels(b) = 1 .. N /\ Labels(d) = 1 .. N + 1 /\ Labels(e) = 1 .. N + 2
      /\ Len(e.labels) = N + 2 /\ L2[N + 2] = h2
  <2>1. N \in Nat /\ Labels(b) = 1 .. N /\ Labels(d) = 1 .. N + 1
    BY <1>1 DEF Fresh, N
  <2>2. (N + 1) + 1 = N + 2
    BY <2>1
  <2> QED
    BY <2>1, <2>2, <1>1, <1>3 DEF Fresh
<1>5. \A l \in Labels(d) : l \in Labels(e) /\ e.labels[l] = d.labels[l] /\ L2[l] = K[l]
  BY <1>3 DEF Fresh
<1>6. L2[N + 1] = h1
  <2>1. N + 1 \in Labels(d)
    BY <1>4
  <2> QED
    BY <2>1, <1>1, <1>5
<1>7. Fresh(b, e, L, L2)
  <2>1. L2 \in [Nat -> Seq(Nat)]
    BY <1>3 DEF Fresh
  <2>2. ASSUME NEW l \in Labels(b)
        PROVE  l \in Labels(e) /\ e.labels[l] = b.labels[l] /\ L2[l] = L[l]
    BY <1>1, <1>5 DEF Fresh
  <2>3. ASSUME NEW l \in Labels(e) \ Labels(b)
        PROVE  e.labels[l] = Unmarked
    <3>1. CASE l \in Labels(d)
      BY <3>1, <1>1, <1>5 DEF Fresh
    <3>2. CASE l \notin Labels(d)
      BY <3>2, <1>3 DEF Fresh
    <3> QED
      BY <3>1, <3>2
  <2> QED
    BY <2>1, <2>2, <2>3, <1>4 DEF Fresh, N
<1> QED
  BY <1>3, <1>4, <1>6, <1>7 DEF N, d, e

(* A loop is entered.                                                      *)
LEMMA EnterLoopStep ==
  ASSUME NEW L, CompileInv(L), Parsing, NEW L2, NEW k, IsLoop(k), Pushes(L, L2, k),
         \A l \in Labels(bc) : l < k.last,
         Sound(bc', L2, max_try_depth, handlers, 0, starts'),
         EnterLoop(k.kind, k.first, k.last)
  PROVE  CompileInv(L2)'
<1>1. BlockInv(L) /\ LoopInv(L) /\ LabelInv
  BY DEF CompileInv
<1>2. /\ handlers' = handlers /\ try_depth' = try_depth /\ max_try_depth' = max_try_depth
      /\ steps' = steps + 1
      /\ loops' = Append(loops, [continue_label |-> k.first, break_label |-> k.last,
                                 try_depth |-> 0])
  BY DEF EnterLoop
<1>3. steps' \in 0 .. MaxSteps
  BY <1>2, StepsAssumption DEF Parsing, CompileInv
<1>4. LabelInv' /\ BlockInv(L2)'
  BY <1>1, PushBlock
<1>5. LoopBlocks' = LoopBlocks \cup {k}
  <2>1. blocks' = Append(blocks, k)
    BY DEF Pushes
  <2>2. LoopBlocks' = LoopBlocks \cup {x \in {k} : IsLoop(x)}
    BY <2>1, <1>1, LoopBlocksChange
  <2> QED
    BY <2>2
<1>6. EntersLoop(L, L2, k)
  BY <1>2, <1>5 DEF EntersLoop, Pushes
<1>7. LoopInv(L2)'
  BY <1>1, <1>6, PushLoop
<1> QED
  BY <1>2, <1>3, <1>4, <1>7 DEF CompileInv

LEMMA WhileStatementStep ==
  ASSUME NEW L, CompileInv(L), WhileStatement
  PROVE  \E L2 : CompileInv(L2)'
<1> DEFINE N == Len(bc.labels)
           start == N + 1
           end == N + 2
           mx == max_try_depth
           b1 == NewLabel(NewLabel(bc))
           b2 == Mark(b1, start)
           b3 == Expression(b2)
           b4 == EmitJump(b3, "JUMP_IF_FALSE", end)
           k == [kind |-> "while", first |-> start, last |-> end]
<1>1. /\ Sound(bc, L, mx, handlers, 0, starts') /\ mx \in Nat /\ L \in [Nat -> Seq(Nat)]
      /\ handlers \in Seq(Nat) /\ bc \in Bytecodes
  BY CompileFacts DEF WhileStatement
<1>2. PICK L2 : /\ Sound(b1, L2, mx, handlers, 0, starts') /\ Fresh(bc, b1, L, L2)
                /\ L2[start] = handlers /\ L2[end] = handlers /\ Len(b1.labels) = N + 2
  BY <1>1, TwoLabels
<1>0. /\ Parsing /\ bc' = b4 /\ EnterLoop(k.kind, k.first, k.last)
      /\ k.kind = "while" /\ k.first = start /\ k.last = end
  BY DEF WhileStatement, LastLabel
<1>k. k = [kind |-> "while", first |-> start, last |-> end]
  OBVIOUS
<1> HIDE DEF b1, b2, b3, b4, k
<1>3. N \in Nat /\ Labels(bc) = 1 .. N /\ Labels(b1) = 1 .. N + 2
  BY <1>2 DEF Fresh
<1> HIDE DEF N
<1>4. /\ start \in Labels(b1) \ Labels(bc) /\ end \in Labels(b1) \ Labels(bc)
      /\ start # end /\ start \in Nat /\ end \in Nat
      /\ \A l \in Labels(b1) \ Labels(bc) : l = start \/ l = end
      /\ \A l \in Labels(bc) : l < end
  BY <1>3
<1> HIDE DEF start, end
<1>5. /\ Labels(bc) \subseteq Labels(b1)
      /\ \A l \in Labels(bc) : b1.labels[l] = bc.labels[l] /\ L2[l] = L[l]
      /\ b1.labels[start] = Unmarked /\ b1.labels[end] = Unmarked
  BY <1>2, <1>4 DEF Fresh
<1>6. Sound(b2, L2, mx, handlers, 0, starts')
      /\ b2.labels = [b1.labels EXCEPT ![start] = Len(b1.code)]
  <2>1. Sound(b1, L2, mx, handlers, 0, starts')
    BY <1>2
  <2>2. start \in Labels(b1) /\ b1.labels[start] = Unmarked /\ L2[start] = handlers
    BY <1>2, <1>4, <1>5
  <2> QED
    BY <2>1, <2>2, MarkSound DEF b2
<1>7. Sound(b3, L2, mx, handlers, 1, starts') /\ b3.labels = b2.labels
  <2>1. 0 + 1 = 1
    OBVIOUS
  <2> QED
    BY <2>1, <1>6, ExpressionSound DEF b3
<1>8. Labels(b3) = Labels(b1)
  BY <1>6, <1>7 DEF Labels
<1>9. Sound(b4, L2, mx, handlers, 0, starts') /\ b4.labels = b3.labels
  <2>1. end \in Labels(b3) /\ L2[end] = handlers
    BY <1>2, <1>4, <1>8
  <2> QED
    BY <2>1, <1>7, JumpIfFalseSound DEF b4
<1>10. /\ Labels(b4) = Labels(b1) /\ b4 \in Bytecodes
       /\ \A l \in Labels(b1) : b4.labels[l] = IF l = start THEN Len(b1.code) ELSE b1.labels[l]
  <2>1. b4 \in Bytecodes
    BY <1>9, SoundHere
  <2> QED
    BY <2>1, <1>4, <1>6, <1>7, <1>8, <1>9 DEF Labels
<1>11. Len(b1.code) # Unmarked
  <2>1. Len(b1.code) \in Nat
    BY <1>2, SoundHere
  <2> QED
    BY <2>1 DEF Unmarked
<1>12. k \in Block /\ k.kind = "while" /\ k.first = start /\ k.last = end
  BY <1>4, <1>k DEF Block
<1>13. Pushes(L, L2, k)
  <2>1. Inner(L2, k) = handlers /\ L2[k.last] = handlers /\ L2[k.first] = handlers
    BY <1>2, <1>12 DEF Inner
  <2>2. handlers' = handlers /\ blocks' = Append(blocks, k)
    BY <1>0, <1>k DEF EnterLoop, Open
  <2>3. \A l \in Labels(b4) \ Labels(bc) : b4.labels[l] = Unmarked <=> Waits(k, l)
    BY <1>4, <1>5, <1>10, <1>11, <1>12 DEF Waits
  <2>4. \A l \in Labels(bc) : b4.labels[l] = bc.labels[l] /\ L2[l] = L[l]
    BY <1>4, <1>5, <1>10
  <2>5. L2 \in [Nat -> Seq(Nat)]
    BY <1>2 DEF Fresh
  <2> QED
    BY <2>1, <2>2, <2>3, <2>4, <2>5, <1>0, <1>1, <1>4, <1>5, <1>10, <1>12 DEF Pushes
<1>14. IsLoop(k) /\ \A l \in Labels(bc) : l < k.last
  BY <1>4, <1>12 DEF IsLoop
<1>15. Sound(bc', L2, max_try_depth, handlers, 0, starts')
  BY <1>0, <1>9
<1> QED
  BY <1>0, <1>13, <1>14, <1>15, EnterLoopStep

(* A step that leaves the loops alone, but for the try statement it starts *)
(* or ends.                                                                *)
LEMMA NestStep ==
  ASSUME NEW L, CompileInv(L), Parsing, NEW L2, NEW n \in Int,
         LabelInv', BlockInv(L2)', LoopBlocks' = LoopBlocks,
         (n = 0 /\ UNCHANGED loops) \/ AddToLoop(n),
         \A l \in Labels(bc) : L2[l] = L[l],
         Len(handlers') = Len(handlers) + n, try_depth' = try_depth + n,
         max_try_depth' \in Nat, try_depth' <= max_try_depth', steps' = steps + 1,
         Sound(bc', L2, max_try_depth', handlers', 0, starts')
  PROVE  CompileInv(L2)'
<1>1. BlockInv(L) /\ LoopInv(L) /\ try_depth = Len(handlers) /\ handlers \in Seq(Nat)
  BY DEF CompileInv, BlockInv
<1>2. steps' \in 0 .. MaxSteps
  BY StepsAssumption DEF Parsing, CompileInv
<1>3. AddToLoop(n)
  <2>1. ASSUME n = 0, loops' = loops, loops # <<>>
        PROVE  loops' = [loops EXCEPT ![Len(loops)].try_depth = @ + n]
    <3> DEFINE m == Len(loops)
               x == loops[m]
    <3>1. loops \in Seq(LoopState)
      BY <1>1 DEF LoopInv
    <3>2. m \in 1 .. Len(loops) /\ x \in LoopState
      BY <2>1, <3>1
    <3>3. x.try_depth + n = x.try_depth
      BY <2>1, <3>2 DEF LoopState
    <3>4. [x EXCEPT !.try_depth = @ + n] = x
      BY <3>2, <3>3 DEF LoopState
    <3>5. [loops EXCEPT ![m] = x] = loops
      BY <3>1, <3>2
    <3> QED
      BY <2>1, <3>4, <3>5
  <2> QED
    BY <2>1 DEF AddToLoop
<1>4. KeepsLoops(L, L2, n)
  BY <1>3 DEF KeepsLoops, AddToLoop
<1>5. LoopInv(L2)'
  BY <1>1, <1>4, KeepLoops
<1> QED
  BY <1>1, <1>2, <1>5 DEF CompileInv

LEMMA IfStatementStep ==
  ASSUME NEW L, CompileInv(L), IfStatement
  PROVE  \E L2 : CompileInv(L2)'
<1> DEFINE N == Len(bc.labels)
           else == N + 1
           end == N + 2
           mx == max_try_depth
           b1 == NewLabel(NewLabel(bc))
           b2 == Expression(b1)
           b3 == EmitJump(b2, "JUMP_IF_FALSE", else)
           k == [kind |-> "if", first |-> else, last |-> end]
<1>1. /\ Sound(bc, L, mx, handlers, 0, starts') /\ mx \in Nat /\ L \in [Nat -> Seq(Nat)]
      /\ handlers \in Seq(Nat) /\ bc \in Bytecodes
  BY CompileFacts DEF IfStatement
<1>2. PICK L2 : /\ Sound(b1, L2, mx, handlers, 0, starts') /\ Fresh(bc, b1, L, L2)
                /\ L2[else] = handlers /\ L2[end] = handlers /\ Len(b1.labels) = N + 2
  BY <1>1, TwoLabels
<1>0. /\ Parsing /\ bc' = b3 /\ Open(k) /\ steps' = steps + 1
      /\ UNCHANGED <<loops, try_depth, max_try_depth, handlers>>
  BY DEF IfStatement, LastLabel
<1>k. k = [kind |-> "if", first |-> else, last |-> end]
  OBVIOUS
<1> HIDE DEF b1, b2, b3, k
<1>3. N \in Nat /\ Labels(bc) = 1 .. N /\ Labels(b1) = 1 .. N + 2
  BY <1>2 DEF Fresh
<1> HIDE DEF N
<1>4. /\ else \in Labels(b1) \ Labels(bc) /\ end \in Labels(b1) \ Labels(bc)
      /\ else # end /\ else \in Nat /\ end \in Nat
      /\ \A l \in Labels(b1) \ Labels(bc) : l = else \/ l = end
  BY <1>3
<1> HIDE DEF else, end
<1>5. /\ Labels(bc) \subseteq Labels(b1)
      /\ \A l \in Labels(bc) : b1.labels[l] = bc.labels[l] /\ L2[l] = L[l]
      /\ b1.labels[else] = Unmarked /\ b1.labels[end] = Unmarked
  BY <1>2, <1>4 DEF Fresh
<1>6. Sound(b2, L2, mx, handlers, 1, starts') /\ b2.labels = b1.labels
  <2>1. 0 + 1 = 1
    OBVIOUS
  <2> QED
    BY <2>1, <1>2, ExpressionSound DEF b2
<1>7. Sound(b3, L2, mx, handlers, 0, starts') /\ b3.labels = b2.labels
  <2>1. else \in Labels(b2) /\ L2[else] = handlers
    BY <1>2, <1>4, <1>6 DEF Labels
  <2> QED
    BY <2>1, <1>6, JumpIfFalseSound DEF b3
<1>8. Labels(b3) = Labels(b1) /\ b3.labels = b1.labels /\ b3 \in Bytecodes
  <2>1. b3 \in Bytecodes
    BY <1>7, SoundHere
  <2> QED
    BY <2>1, <1>6, <1>7 DEF Labels
<1>9. k \in Block /\ k.kind = "if" /\ k.first = else /\ k.last = end
  BY <1>4, <1>k DEF Block
<1>10. Pushes(L, L2, k)
  <2>1. Inner(L2, k) = handlers /\ L2[k.last] = handlers /\ L2[k.first] = handlers
    BY <1>2, <1>9 DEF Inner
  <2>2. handlers' = handlers /\ blocks' = Append(blocks, k)
    BY <1>0 DEF Open
  <2>3. \A l \in Labels(b3) \ Labels(bc) : b3.labels[l] = Unmarked <=> Waits(k, l)
    BY <1>4, <1>5, <1>8, <1>9 DEF Waits
  <2>4. \A l \in Labels(bc) : b3.labels[l] = bc.labels[l] /\ L2[l] = L[l]
    BY <1>5, <1>8
  <2>5. L2 \in [Nat -> Seq(Nat)]
    BY <1>2 DEF Fresh
  <2> QED
    BY <2>1, <2>2, <2>3, <2>4, <2>5, <1>0, <1>1, <1>4, <1>5, <1>8, <1>9 DEF Pushes
<1>11. BlockInv(L) /\ LabelInv /\ try_depth = Len(handlers) /\ try_depth <= mx
  BY DEF CompileInv
<1>12. LabelInv' /\ BlockInv(L2)'
  BY <1>10, <1>11, PushBlock
<1>13. LoopBlocks' = LoopBlocks
  <2>1. blocks' = Append(blocks, k)
    BY <1>0 DEF Open
  <2>2. LoopBlocks' = LoopBlocks \cup {x \in {k} : IsLoop(x)}
    BY <2>1, <1>11, LoopBlocksChange
  <2> QED
    BY <2>2, <1>9 DEF IsLoop
<1>14. /\ Len(handlers') = Len(handlers) + 0 /\ try_depth' = try_depth + 0
       /\ max_try_depth' \in Nat /\ try_depth' <= max_try_depth'
  BY <1>0, <1>1, <1>11
<1>15. Sound(bc', L2, max_try_depth', handlers', 0, starts')
  BY <1>0, <1>7
<1>16. /\ 0 \in Int /\ ((0 = 0 /\ UNCHANGED loops) \/ AddToLoop(0))
       /\ \A l \in Labels(bc) : L2[l] = L[l]
       /\ Parsing /\ steps' = steps + 1
  BY <1>0, <1>5
<1> QED
  BY <1>12, <1>13, <1>14, <1>15, <1>16, NestStep

LEMMA TryStatementStep ==
  ASSUME NEW L, CompileInv(L), TryStatement
  PROVE  \E L2 : CompileInv(L2)'
<1> DEFINE N == Len(bc.labels)
           catch == N + 1
           end == N + 2
           inside == Append(handlers, catch)
           b1 == NewLabel(NewLabel(bc))
           b2 == EmitJump(b1, "PUSH_TRY", catch)
           k == [kind |-> "try", first |-> catch, last |-> end]
<1>0. /\ Parsing /\ bc' = b2 /\ Open(k) /\ steps' = steps + 1
      /\ try_depth' = try_depth + 1
      /\ max_try_depth' = IF try_depth' > max_try_depth THEN try_depth' ELSE max_try_depth
      /\ AddToLoop(1) /\ handlers' = inside
  BY DEF TryStatement, LastLabel
<1>1. /\ Sound(bc, L, max_try_depth, handlers, 0, starts') /\ max_try_depth \in Nat
      /\ L \in [Nat -> Seq(Nat)] /\ handlers \in Seq(Nat) /\ bc \in Bytecodes
  BY CompileFacts DEF TryStatement
<1>2. BlockInv(L) /\ LabelInv /\ try_depth = Len(handlers) /\ try_depth <= max_try_depth
  BY DEF CompileInv
<1>3. PICK mx \in Nat : mx = max_try_depth' /\ max_try_depth <= mx /\ Len(handlers) + 1 <= mx
  <2> DEFINE d == Len(handlers)
  <2>1. d \in Nat /\ try_depth = d /\ max_try_depth \in Nat /\ d <= max_try_depth
    BY <1>1, <1>2
  <2>2. max_try_depth' = IF d + 1 > max_try_depth THEN d + 1 ELSE max_try_depth
    BY <1>0, <2>1
  <2> HIDE DEF d
  <2>3. max_try_depth' \in Nat /\ max_try_depth <= max_try_depth' /\ d + 1 <= max_try_depth'
    BY <2>1, <2>2
  <2> QED
    BY <2>3 DEF d
<1>4. Sound(bc, L, mx, handlers, 0, starts')
  BY <1>1, <1>3, AgreeSound
<1>N. N \in Nat /\ catch \in Nat /\ inside \in Seq(Nat) /\ Len(inside) = Len(handlers) + 1
  <2>1. bc.labels \in Seq(Nat \cup {Unmarked})
    BY <1>1 DEF Bytecodes
  <2>2. N \in Nat
    BY <2>1, LenProperties
  <2> HIDE DEF N
  <2>3. catch \in Nat
    BY <2>2
  <2> HIDE DEF catch
  <2>4. inside \in Seq(Nat) /\ Len(inside) = Len(handlers) + 1
    BY <2>3, <1>1
  <2> QED
    BY <2>2, <2>3, <2>4
<1>5. PICK L2 : /\ Sound(b1, L2, mx, handlers, 0, starts') /\ Fresh(bc, b1, L, L2)
                /\ L2[catch] = inside /\ L2[end] = handlers /\ Len(b1.labels) = N + 2
  <2>1. inside \in Seq(Nat) /\ handlers \in Seq(Nat) /\ L \in [Nat -> Seq(Nat)]
    BY <1>1, <1>N
  <2> HIDE DEF inside
  <2> QED
    BY <2>1, <1>4, TwoLabels
<1>k. k = [kind |-> "try", first |-> catch, last |-> end]
  OBVIOUS
<1> HIDE DEF b1, b2, k
<1>6. N \in Nat /\ Labels(bc) = 1 .. N /\ Labels(b1) = 1 .. N + 2
  BY <1>5 DEF Fresh
<1> HIDE DEF N
<1>7. /\ catch \in Labels(b1) \ Labels(bc) /\ end \in Labels(b1) \ Labels(bc)
      /\ catch # end /\ catch \in Nat /\ end \in Nat
      /\ \A l \in Labels(b1) \ Labels(bc) : l = catch \/ l = end
  BY <1>6
<1> HIDE DEF catch, end
<1>8. /\ Labels(bc) \subseteq Labels(b1)
      /\ \A l \in Labels(bc) : b1.labels[l] = bc.labels[l] /\ L2[l] = L[l]
      /\ b1.labels[catch] = Unmarked /\ b1.labels[end] = Unmarked
  BY <1>5, <1>7 DEF Fresh
<1>9. Sound(b2, L2, mx, inside, 0, starts') /\ b2.labels = b1.labels
  <2>1. Sound(b1, L2, mx, handlers, 0, starts')
    BY <1>5
  <2>2. catch \in Labels(b1) /\ L2[catch] = Append(handlers, catch) /\ Len(handlers) + 1 <= mx
    BY <1>3, <1>5, <1>7
  <2> QED
    BY <2>1, <2>2, PushTrySound DEF b2
<1>10. Labels(b2) = Labels(b1) /\ b2 \in Bytecodes
  BY <1>9, SoundHere DEF Labels
<1>11. k \in Block /\ k.kind = "try" /\ k.first = catch /\ k.last = end
  BY <1>7, <1>k DEF Block
<1>12. Pushes(L, L2, k)
  <2>1. Inner(L2, k) = inside /\ L2[k.last] = handlers /\ L2[k.first] = inside
    BY <1>5, <1>11 DEF Inner
  <2>2. handlers' = inside /\ blocks' = Append(blocks, k)
    BY <1>0 DEF Open
  <2>3. \A l \in Labels(b2) \ Labels(bc) : b2.labels[l] = Unmarked <=> Waits(k, l)
    BY <1>7, <1>8, <1>9, <1>10, <1>11 DEF Waits
  <2>4. \A l \in Labels(bc) : b2.labels[l] = bc.labels[l] /\ L2[l] = L[l]
    BY <1>8, <1>9
  <2>5. L2 \in [Nat -> Seq(Nat)]
    BY <1>5 DEF Fresh
  <2> QED
    BY <2>1, <2>2, <2>3, <2>4, <2>5, <1>0, <1>1, <1>7, <1>8, <1>10, <1>11 DEF Pushes
<1>13. LabelInv' /\ BlockInv(L2)'
  BY <1>2, <1>12, PushBlock
<1>14. LoopBlocks' = LoopBlocks
  <2>1. blocks' = Append(blocks, k)
    BY <1>0 DEF Open
  <2>2. LoopBlocks' = LoopBlocks \cup {x \in {k} : IsLoop(x)}
    BY <2>1, <1>2, LoopBlocksChange
  <2> QED
    BY <2>2, <1>11 DEF IsLoop
<1>15. /\ Len(handlers') = Len(handlers) + 1 /\ try_depth' = try_depth + 1
       /\ max_try_depth' \in Nat /\ try_depth' <= max_try_depth'
  BY <1>0, <1>2, <1>3, <1>N
<1>16. Sound(bc', L2, max_try_depth', handlers', 0, starts')
  BY <1>0, <1>3, <1>9
<1>17. /\ 1 \in Int /\ ((1 = 0 /\ UNCHANGED loops) \/ AddToLoop(1))
       /\ \A l \in Labels(bc) : L2[l] = L[l]
       /\ Parsing /\ steps' = steps + 1
  BY <1>0, <1>8
<1> QED
  BY <1>13, <1>14, <1>15, <1>16, <1>17, NestStep

(* The parts of a for statement's head that may be left out.               *)
LEMMA HeadSound ==
  ASSUME NEW b, NEW L, NEW mx, NEW H, NEW st, Sound(b, L, mx, H, 0, st),
         NEW bare \in BOOLEAN
  PROVE  /\ LET e == IF bare THEN b ELSE Emit(Expression(b), "POP")
            IN  Sound(e, L, mx, H, 0, st) /\ e.labels = b.labels
         /\ \A l \in Labels(b) : L[l] = H =>
              LET e == IF bare THEN b ELSE EmitJump(Expression(b), "JUMP_IF_FALSE", l)
              IN  Sound(e, L, mx, H, 0, st) /\ e.labels = b.labels
<1> DEFINE x == Expression(b)
<1>1. Sound(x, L, mx, H, 1, st) /\ x.labels = b.labels
  <2>1. 0 + 1 = 1
    OBVIOUS
  <2> QED
    BY <2>1, ExpressionSound
<1> HIDE DEF x
<1>2. Sound(Emit(x, "POP"), L, mx, H, 0, st) /\ Emit(x, "POP").labels = b.labels
  BY <1>1, PopSound
<1>3. ASSUME NEW l \in Labels(b), L[l] = H
      PROVE  Sound(EmitJump(x, "JUMP_IF_FALSE", l), L, mx, H, 0, st)
             /\ EmitJump(x, "JUMP_IF_FALSE", l).labels = b.labels
  <2>1. l \in Labels(x)
    BY <1>1 DEF Labels
  <2> QED
    BY <2>1, <1>1, <1>3, JumpIfFalseSound
<1> QED
  BY <1>2, <1>3 DEF x

LEMMA ForStatementStep ==
  ASSUME NEW L, CompileInv(L), ForStatement
  PROVE  \E L2 : CompileInv(L2)'
<1> DEFINE N == Len(bc.labels)
           start == N + 1
           end == N + 2
           increment == N + 3
           body == N + 4
           mx == max_try_depth
           Evaluated(b, bare) == IF bare THEN b ELSE Emit(Expression(b), "POP")
           Tested(b, bare) == IF bare THEN b ELSE EmitJump(Expression(b), "JUMP_IF_FALSE", end)
           c2 == NewLabel(NewLabel(bc))
           b1 == NewLabel(NewLabel(c2))
           k == [kind |-> "for", first |-> increment, last |-> end]
<1>0. PICK bare \in BOOLEAN :
        bc' = Mark(EmitJump(Evaluated(Mark(EmitJump(Tested(Mark(Evaluated(b1, bare), start), bare),
                                                    "JUMP", body),
                                           increment), bare), "JUMP", start), body)
        /\ EnterLoop("for", increment, end) /\ Parsing /\ StatementHere
  BY DEF ForStatement, LastLabel
<1> DEFINE b2 == Evaluated(b1, bare)
           b3 == Mark(b2, start)
           b4 == Tested(b3, bare)
           b5 == EmitJump(b4, "JUMP", body)
           b6 == Mark(b5, increment)
           b7 == Evaluated(b6, bare)
           b8 == EmitJump(b7, "JUMP", start)
           b9 == Mark(b8, body)
<1>b. bc' = b9
  BY <1>0
<1>c. b2 = IF bare THEN b1 ELSE Emit(Expression(b1), "POP")
  OBVIOUS
<1>e. b4 = IF bare THEN b3 ELSE EmitJump(Expression(b3), "JUMP_IF_FALSE", end)
  OBVIOUS
<1>f. b7 = IF bare THEN b6 ELSE Emit(Expression(b6), "POP")
  OBVIOUS
<1>1. /\ Sound(bc, L, mx, handlers, 0, starts') /\ mx \in Nat /\ L \in [Nat -> Seq(Nat)]
      /\ handlers \in Seq(Nat) /\ bc \in Bytecodes
  BY <1>0, CompileFacts
<1>2. PICK K : /\ Sound(c2, K, mx, handlers, 0, starts') /\ Fresh(bc, c2, L, K)
               /\ K[start] = handlers /\ K[end] = handlers /\ Len(c2.labels) = N + 2
  BY <1>1, TwoLabels
<1>3. K \in [Nat -> Seq(Nat)]
  BY <1>2 DEF Fresh
<1> HIDE DEF c2, b2, b4, b7
<1>4. PICK L2 : /\ Sound(b1, L2, mx, handlers, 0, starts') /\ Fresh(c2, b1, K, L2)
                /\ L2[Len(c2.labels) + 1] = handlers /\ L2[Len(c2.labels) + 2] = handlers
                /\ Len(b1.labels) = Len(c2.labels) + 2
  <2>1. Sound(c2, K, mx, handlers, 0, starts')
    BY <1>2
  <2> QED
    BY <2>1, <1>1, <1>3, TwoLabels
<1>k. k = [kind |-> "for", first |-> increment, last |-> end]
  OBVIOUS
<1> HIDE DEF b1, b3, b5, b6, b8, b9, k
<1>5. /\ N \in Nat /\ Labels(bc) = 1 .. N /\ Labels(c2) = 1 .. N + 2 /\ Labels(b1) = 1 .. N + 4
      /\ L2[increment] = handlers /\ L2[body] = handlers
  <2>1. N \in Nat /\ Labels(bc) = 1 .. N /\ Labels(c2) = 1 .. N + 2
    BY <1>2 DEF Fresh
  <2>2. Labels(b1) = 1 .. Len(b1.labels)
    BY <1>4 DEF Fresh
  <2> HIDE DEF N
  <2>3. (N + 2) + 1 = N + 3 /\ (N + 2) + 2 = N + 4
    BY <2>1
  <2> QED
    BY <2>1, <2>2, <2>3, <1>2, <1>4
<1> HIDE DEF N
<1>6. /\ start \in Labels(c2) \ Labels(bc) /\ end \in Labels(c2) \ Labels(bc)
      /\ increment \in Labels(b1) \ Labels(c2) /\ body \in Labels(b1) \ Labels(c2)
      /\ start # end /\ increment # body
      /\ end \in Nat /\ increment \in Nat
      /\ \A l \in Labels(b1) \ Labels(bc) : l \in {start, end, increment, body}
      /\ \A l \in Labels(bc) : l < end
  BY <1>5
<1> HIDE DEF start, end, increment, body
<1>7. /\ Labels(bc) \subseteq Labels(b1)
      /\ \A l \in Labels(bc) : b1.labels[l] = bc.labels[l] /\ L2[l] = L[l]
      /\ \A l \in {start, end, increment, body} :
           l \in Labels(b1) \ Labels(bc) /\ b1.labels[l] = Unmarked /\ L2[l] = handlers
      /\ start # increment /\ start # body /\ end # increment /\ end # body
  <2>1. /\ \A l \in Labels(bc) : l \in Labels(c2) /\ c2.labels[l] = bc.labels[l] /\ K[l] = L[l]
        /\ \A l \in Labels(c2) \ Labels(bc) : c2.labels[l] = Unmarked
    BY <1>2 DEF Fresh
  <2>2. /\ \A l \in Labels(c2) : l \in Labels(b1) /\ b1.labels[l] = c2.labels[l] /\ L2[l] = K[l]
        /\ \A l \in Labels(b1) \ Labels(c2) : b1.labels[l] = Unmarked
    BY <1>4 DEF Fresh
  <2>3. K[start] = handlers /\ K[end] = handlers
    BY <1>2
  <2>4. \A l \in {start, end} :
          l \in Labels(b1) \ Labels(bc) /\ b1.labels[l] = Unmarked /\ L2[l] = handlers
    BY <2>1, <2>2, <2>3, <1>6
  <2>5. \A l \in {increment, body} :
          l \in Labels(b1) \ Labels(bc) /\ b1.labels[l] = Unmarked /\ L2[l] = handlers
    BY <2>1, <2>2, <1>5, <1>6
  <2> QED
    BY <2>1, <2>2, <2>4, <2>5, <1>6
<1>8. Sound(b1, L2, mx, handlers, 0, starts')
  BY <1>4
<1>9. Sound(b2, L2, mx, handlers, 0, starts') /\ b2.labels = b1.labels
  BY <1>8, <1>c, HeadSound
<1>10. /\ Sound(b3, L2, mx, handlers, 0, starts')
       /\ \E a \in Nat : b3.labels = [b2.labels EXCEPT ![start] = a]
  <2>1. start \in Labels(b2) /\ b2.labels[start] = Unmarked /\ L2[start] = handlers
    BY <1>7, <1>9 DEF Labels
  <2> QED
    BY <2>1, <1>9, MarkedSound DEF b3
<1>11. /\ Labels(b3) = Labels(b1) /\ b3.labels[increment] = Unmarked /\ b3.labels[body] = Unmarked
       /\ b3.labels[start] # Unmarked
       /\ \A l \in Labels(b1) : l # start => b3.labels[l] = b1.labels[l]
  BY <1>7, <1>9, <1>10 DEF Labels, Unmarked
<1>12. Sound(b4, L2, mx, handlers, 0, starts') /\ b4.labels = b3.labels
  <2>1. end \in Labels(b3) /\ L2[end] = handlers
    BY <1>7, <1>11
  <2> QED
    BY <2>1, <1>10, <1>e, HeadSound
<1>h. \A b : b.labels = b3.labels => Labels(b) = Labels(b1)
  BY <1>11 DEF Labels
<1>13. Sound(b5, L2, mx, handlers, 0, starts') /\ b5.labels = b3.labels
  <2>1. body \in Labels(b4) /\ L2[body] = handlers
    BY <1>7, <1>12, <1>h
  <2>2. Handlers(b4, L2, mx, handlers)
    BY <1>12, SoundHere
  <2>3. Sound(b5, L2, mx, handlers, 0, starts') /\ b5.labels = b4.labels
    BY <2>1, <2>2, <1>12, JumpSound DEF b5
  <2> QED
    BY <2>3, <1>12
<1>14. /\ Sound(b6, L2, mx, handlers, 0, starts')
       /\ \E a \in Nat : b6.labels = [b5.labels EXCEPT ![increment] = a]
  <2>1. increment \in Labels(b5) /\ b5.labels[increment] = Unmarked /\ L2[increment] = handlers
    BY <1>7, <1>11, <1>13, <1>h
  <2> QED
    BY <2>1, <1>13, MarkedSound DEF b6
<1>15. /\ Labels(b6) = Labels(b1) /\ b6.labels[body] = Unmarked
       /\ b6.labels[start] # Unmarked /\ b6.labels[increment] # Unmarked
       /\ \A l \in Labels(b1) : l \notin {start, increment} => b6.labels[l] = b1.labels[l]
  <2>1. Labels(b5) = Labels(b1)
    BY <1>13, <1>h
  <2> QED
    BY <2>1, <1>6, <1>7, <1>11, <1>13, <1>14 DEF Labels, Unmarked
<1>16. Sound(b7, L2, mx, handlers, 0, starts') /\ b7.labels = b6.labels
  BY <1>14, <1>f, HeadSound
<1>17. Sound(b8, L2, mx, handlers, 0, starts') /\ b8.labels = b6.labels
  <2>1. start \in Labels(b7) /\ L2[start] = handlers
    BY <1>7, <1>15, <1>16 DEF Labels
  <2>2. Handlers(b7, L2, mx, handlers)
    BY <1>16, SoundHere
  <2>3. Sound(b8, L2, mx, handlers, 0, starts') /\ b8.labels = b7.labels
    BY <2>1, <2>2, <1>16, JumpSound DEF b8
  <2> QED
    BY <2>3, <1>16
<1>18. /\ Sound(b9, L2, mx, handlers, 0, starts')
       /\ \E a \in Nat : b9.labels = [b8.labels EXCEPT ![body] = a]
  <2>1. body \in Labels(b8) /\ b8.labels[body] = Unmarked /\ L2[body] = handlers
    BY <1>7, <1>15, <1>17 DEF Labels
  <2> QED
    BY <2>1, <1>17, MarkedSound DEF b9
<1>19. /\ Labels(b9) = Labels(b1) /\ b9 \in Bytecodes
       /\ \A l \in {start, increment, body} : b9.labels[l] # Unmarked
       /\ \A l \in Labels(b1) : l \notin {start, increment, body} => b9.labels[l] = b1.labels[l]
  <2>1. Labels(b8) = Labels(b1)
    BY <1>15, <1>17 DEF Labels
  <2>2. b9 \in Bytecodes
    BY <1>18, SoundHere
  <2> QED
    BY <2>1, <2>2, <1>6, <1>7, <1>15, <1>17, <1>18 DEF Labels, Unmarked
<1>20. k \in Block /\ k.kind = "for" /\ k.first = increment /\ k.last = end
  BY <1>6, <1>k DEF Block
<1>21. Pushes(L, L2, k)
  <2>1. Inner(L2, k) = handlers /\ L2[k.last] = handlers /\ L2[k.first] = handlers
    BY <1>7, <1>20 DEF Inner
  <2>2. handlers' = handlers /\ blocks' = Append(blocks, k)
    BY <1>0, <1>k DEF EnterLoop, Open
  <2>3. ASSUME NEW l \in Labels(b9) \ Labels(bc)
        PROVE  b9.labels[l] = Unmarked <=> Waits(k, l)
    <3>1. l \in {start, end, increment, body}
      BY <1>6, <1>19
    <3>2. Waits(k, l) <=> l = end
      BY <1>20 DEF Waits
    <3> QED
      BY <3>1, <3>2, <1>6, <1>7, <1>19
  <2>4. \A l \in Labels(bc) : b9.labels[l] = bc.labels[l] /\ L2[l] = L[l]
    BY <1>7, <1>19
  <2>5. L2 \in [Nat -> Seq(Nat)]
    BY <1>4 DEF Fresh
  <2>6. k.first \in Labels(b9) \ Labels(bc) /\ k.last \in Labels(b9) \ Labels(bc)
        /\ k.first # k.last /\ Labels(bc) \subseteq Labels(b9)
    BY <1>7, <1>19, <1>20
  <2> QED
    BY <2>1, <2>2, <2>3, <2>4, <2>5, <2>6, <1>b, <1>1, <1>19, <1>20 DEF Pushes
<1>22. IsLoop(k) /\ \A l \in Labels(bc) : l < k.last
  BY <1>6, <1>20 DEF IsLoop
<1>23. Sound(bc', L2, max_try_depth, handlers, 0, starts')
  BY <1>b, <1>18
<1>24. EnterLoop(k.kind, k.first, k.last) /\ Parsing
  BY <1>0, <1>20
<1> QED
  BY <1>21, <1>22, <1>23, <1>24, EnterLoopStep

(* The end of a statement, or of its first part.                           *)
LEMMA InnermostFacts ==
  ASSUME NEW L, CompileInv(L), blocks # <<>>
  PROVE  /\ Innermost \in Block
         /\ Innermost.first \in Labels(bc) /\ Innermost.last \in Labels(bc)
         /\ Innermost.first # Innermost.last
         /\ handlers = Inner(L, Innermost)
         /\ L[Innermost.last] \in Seq(Nat)
         /\ Innermost.kind \notin {"else", "catch"} => L[Innermost.first] = handlers
         /\ Innermost.kind # "try" => L[Innermost.last] = handlers
         /\ \A l \in Labels(bc) : Waits(Innermost, l) => bc.labels[l] = Unmarked
<1>1. BlockInv(L) /\ LabelInv
  BY DEF CompileInv
<1>2. /\ Len(blocks) \in DOMAIN blocks /\ Innermost \in Block /\ Innermost = blocks[Len(blocks)]
      /\ Innermost.first \in Labels(bc) /\ Innermost.last \in Labels(bc)
      /\ Innermost.first # Innermost.last
      /\ handlers = Inner(L, Innermost)
      /\ L[Innermost.last] \in Seq(Nat)
  BY <1>1, BlockFacts
<1>3. Innermost.kind \notin {"else", "catch"} => L[Innermost.first] = handlers
  BY <1>1, <1>2 DEF BlockInv
<1>4. \A l \in Labels(bc) : Waits(Innermost, l) => bc.labels[l] = Unmarked
  BY <1>1, <1>2 DEF LabelInv
<1> QED
  BY <1>2, <1>3, <1>4 DEF Inner

LEMMA PopStep ==
  ASSUME NEW L, CompileInv(L), Parsing, Pops,
         \/ IsLoop(Innermost) /\ loops' = Pop(loops)
         \/ ~IsLoop(Innermost) /\ UNCHANGED loops,
         UNCHANGED <<try_depth, max_try_depth>>, steps' = steps + 1,
         Sound(bc', L, max_try_depth, handlers, 0, starts')
  PROVE  CompileInv(L)'
<1>1. BlockInv(L) /\ LabelInv /\ LoopInv(L) /\ try_depth = Len(handlers)
      /\ max_try_depth \in Nat /\ try_depth <= max_try_depth
  BY DEF CompileInv
<1>2. LabelInv' /\ BlockInv(L)' /\ handlers' = handlers /\ blocks # <<>>
  BY <1>1, PopBlock DEF Pops
<1>3. CASE IsLoop(Innermost) /\ loops' = Pop(loops)
  <2>1. LoopInv(L)'
    BY <1>1, <1>3, PopLoop
  <2>2. steps' \in 0 .. MaxSteps
    BY StepsAssumption DEF Parsing, CompileInv
  <2> QED
    BY <1>1, <1>2, <2>1, <2>2 DEF CompileInv
<1>4. CASE ~IsLoop(Innermost) /\ UNCHANGED loops
  <2>1. LoopBlocks' = LoopBlocks
    <3>1. LoopBlocks' = LoopBlocks \ {Innermost}
      BY <1>1, LoopBlocksChange
    <3>2. Innermost \notin LoopBlocks
      BY <1>4 DEF LoopBlocks
    <3> QED
      BY <3>1, <3>2
  <2>2. /\ 0 \in Int /\ ((0 = 0 /\ UNCHANGED loops) \/ AddToLoop(0))
        /\ \A l \in Labels(bc) : L[l] = L[l]
    BY <1>4
  <2>3. Len(handlers') = Len(handlers) + 0 /\ try_depth' = try_depth + 0
        /\ max_try_depth' \in Nat /\ try_depth' <= max_try_depth'
    <3>1. Len(handlers) \in Nat
      BY CompileFacts
    <3> QED
      BY <3>1, <1>1, <1>2
  <2>4. Sound(bc', L, max_try_depth', handlers', 0, starts')
    BY <1>2
  <2> QED
    BY <1>2, <2>1, <2>2, <2>3, <2>4, NestStep
<1> QED
  BY <1>3, <1>4

LEMMA EndLoopStep ==
  ASSUME NEW L, CompileInv(L), EndLoop
  PROVE  CompileInv(L)'
<1> DEFINE mx == max_try_depth
           k == Innermost
           b1 == EmitJump(bc, "JUMP", k.first)
           b2 == Mark(b1, k.last)
<1>1. /\ Parsing /\ blocks # <<>> /\ k.kind \in {"while", "for"} /\ bc' = b2
      /\ blocks' = Pop(blocks) /\ loops' = Pop(loops) /\ steps' = steps + 1
      /\ UNCHANGED <<try_depth, max_try_depth, handlers, starts>>
  BY DEF EndLoop, Inside
<1>2. /\ Sound(bc, L, mx, handlers, 0, starts) /\ Handlers(bc, L, mx, handlers)
  BY CompileFacts
<1>3. /\ k.first \in Labels(bc) /\ k.last \in Labels(bc) /\ k.first # k.last
      /\ L[k.first] = handlers /\ L[k.last] = handlers
      /\ \A l \in Labels(bc) : Waits(k, l) => bc.labels[l] = Unmarked
  BY <1>1, InnermostFacts
<1>w. \A l : Waits(k, l) <=> l = k.last
  BY <1>1 DEF Waits
<1> HIDE DEF k, b1, b2
<1>4. Sound(b1, L, mx, handlers, 0, starts) /\ b1.labels = bc.labels
  BY <1>2, <1>3, JumpSound DEF b1
<1>5. Labels(b1) = Labels(bc)
  BY <1>4 DEF Labels
<1>6. /\ Sound(b2, L, mx, handlers, 0, starts) /\ Labels(b2) = Labels(b1)
      /\ \A j \in Labels(b1) : b2.labels[j] = Unmarked <=> b1.labels[j] = Unmarked /\ j # k.last
  <2>1. k.last \in Labels(b1) /\ b1.labels[k.last] = Unmarked /\ L[k.last] = handlers
    BY <1>3, <1>4, <1>5, <1>w
  <2> QED
    BY <2>1, <1>4, MarkedSound DEF b2
<1>7. Pops
  BY <1>1, <1>4, <1>5, <1>6, <1>w DEF Pops, k
<1>8. IsLoop(Innermost) /\ Sound(bc', L, max_try_depth, handlers, 0, starts')
  BY <1>1, <1>6 DEF IsLoop, k
<1> QED
  BY <1>1, <1>7, <1>8, PopStep

(* The end of an else branch, and of a catch block.                        *)
LEMMA LastPartStep ==
  ASSUME NEW L, CompileInv(L), EndElse \/ EndCatch
  PROVE  CompileInv(L)'
<1> DEFINE mx == max_try_depth
           k == Innermost
           b1 == Mark(bc, k.last)
<1>1. /\ Parsing /\ blocks # <<>> /\ k.kind \in {"else", "catch"} /\ bc' = b1
      /\ blocks' = Pop(blocks) /\ steps' = steps + 1
      /\ UNCHANGED <<loops, try_depth, max_try_depth, handlers, starts>>
  BY DEF EndElse, EndCatch, Inside
<1>2. Sound(bc, L, mx, handlers, 0, starts)
  BY CompileFacts
<1>3. /\ k.last \in Labels(bc) /\ L[k.last] = handlers
      /\ \A l \in Labels(bc) : Waits(k, l) => bc.labels[l] = Unmarked
  BY <1>1, InnermostFacts
<1>w. \A l : Waits(k, l) <=> l = k.last
  BY <1>1 DEF Waits
<1> HIDE DEF k, b1
<1>4. /\ Sound(b1, L, mx, handlers, 0, starts) /\ Labels(b1) = Labels(bc)
      /\ \A j \in Labels(bc) : b1.labels[j] = Unmarked <=> bc.labels[j] = Unmarked /\ j # k.last
  <2>1. k.last \in Labels(bc) /\ bc.labels[k.last] = Unmarked /\ L[k.last] = handlers
    BY <1>3, <1>w
  <2> QED
    BY <2>1, <1>2, MarkedSound DEF b1
<1>5. Pops
  BY <1>1, <1>4, <1>w DEF Pops, k
<1>6. ~IsLoop(Innermost) /\ Sound(bc', L, max_try_depth, handlers, 0, starts')
  BY <1>1, <1>4 DEF IsLoop, k
<1> QED
  BY <1>1, <1>5, <1>6, PopStep

LEMMA EndIfStep ==
  ASSUME NEW L, CompileInv(L), EndIf
  PROVE  CompileInv(L)'
<1> DEFINE mx == max_try_depth
           k == Innermost
           b1 == EmitJump(bc, "JUMP", k.last)
           b2 == Mark(b1, k.first)
           b3 == Mark(b2, k.last)
<1>1. /\ Parsing /\ blocks # <<>> /\ k.kind = "if"
      /\ \/ bc' = b3 /\ blocks' = Pop(blocks)
         \/ bc' = b2 /\ blocks' = [blocks EXCEPT ![Len(blocks)].kind = "else"]
      /\ steps' = steps + 1
      /\ UNCHANGED <<loops, try_depth, max_try_depth, handlers, starts>>
  BY DEF EndIf, Inside
<1>2. /\ Sound(bc, L, mx, handlers, 0, starts) /\ Handlers(bc, L, mx, handlers)
  BY CompileFacts
<1>3. /\ k.first \in Labels(bc) /\ k.last \in Labels(bc) /\ k.first # k.last
      /\ L[k.first] = handlers /\ L[k.last] = handlers
      /\ \A l \in Labels(bc) : Waits(k, l) => bc.labels[l] = Unmarked
  BY <1>1, InnermostFacts
<1>w. \A l : Waits(k, l) <=> l = k.last \/ l = k.first
  BY <1>1 DEF Waits
<1> HIDE DEF k, b1, b2, b3
<1>4. Sound(b1, L, mx, handlers, 0, starts) /\ b1.labels = bc.labels
  BY <1>2, <1>3, JumpSound DEF b1
<1>5. Labels(b1) = Labels(bc)
  BY <1>4 DEF Labels
<1>6. /\ Sound(b2, L, mx, handlers, 0, starts) /\ Labels(b2) = Labels(b1)
      /\ \A j \in Labels(b1) : b2.labels[j] = Unmarked <=> b1.labels[j] = Unmarked /\ j # k.first
  <2>1. k.first \in Labels(b1) /\ b1.labels[k.first] = Unmarked /\ L[k.first] = handlers
    BY <1>3, <1>4, <1>5, <1>w
  <2> QED
    BY <2>1, <1>4, MarkedSound DEF b2
<1>7. /\ Sound(b3, L, mx, handlers, 0, starts) /\ Labels(b3) = Labels(b2)
      /\ \A j \in Labels(b2) : b3.labels[j] = Unmarked <=> b2.labels[j] = Unmarked /\ j # k.last
  <2>1. k.last \in Labels(b2) /\ b2.labels[k.last] = Unmarked /\ L[k.last] = handlers
    BY <1>3, <1>4, <1>5, <1>6, <1>w
  <2> QED
    BY <2>1, <1>6, MarkedSound DEF b3
<1>8. CASE bc' = b3 /\ blocks' = Pop(blocks)
  <2>1. Pops
    BY <1>1, <1>4, <1>5, <1>6, <1>7, <1>8, <1>w DEF Pops, k
  <2>2. ~IsLoop(Innermost) /\ Sound(bc', L, max_try_depth, handlers, 0, starts')
    BY <1>1, <1>7, <1>8 DEF IsLoop, k
  <2> QED
    BY <2>1, <2>2, <1>1, PopStep
<1>9. CASE bc' = b2 /\ blocks' = [blocks EXCEPT ![Len(blocks)].kind = "else"]
  <2>1. Switches(L, "else")
    BY <1>1, <1>3, <1>4, <1>5, <1>6, <1>9 DEF Switches, k
  <2>2. BlockInv(L) /\ LabelInv /\ try_depth = Len(handlers) /\ try_depth <= max_try_depth
        /\ max_try_depth \in Nat /\ handlers \in Seq(Nat)
    BY DEF CompileInv, BlockInv
  <2>3. LabelInv' /\ BlockInv(L)' /\ LoopBlocks' = LoopBlocks
    BY <2>1, <2>2, SwitchBlock, LoopBlocksChange
  <2>4. Len(handlers') = Len(handlers) + 0 /\ try_depth' = try_depth + 0
        /\ max_try_depth' \in Nat /\ try_depth' <= max_try_depth'
    BY <2>2, <1>1
  <2>5. Sound(bc', L, max_try_depth', handlers', 0, starts')
    BY <1>1, <1>6, <1>9
  <2>6. /\ 0 \in Int /\ ((0 = 0 /\ UNCHANGED loops) \/ AddToLoop(0))
        /\ \A l \in Labels(bc) : L[l] = L[l]
        /\ Parsing /\ steps' = steps + 1
    BY <1>1
  <2> QED
    BY <2>3, <2>4, <2>5, <2>6, NestStep
<1> QED
  BY <1>1, <1>8, <1>9

LEMMA EndTryStep ==
  ASSUME NEW L, CompileInv(L), EndTry
  PROVE  CompileInv(L)'
<1> DEFINE mx == max_try_depth
           k == Innermost
           H == handlers
           O == Outer(handlers)
           b1 == Emit(bc, "POP_TRY")
           b2 == EmitJump(b1, "JUMP", k.last)
           b3 == Mark(b2, k.first)
           b4 == Emit(b3, "CATCH")
           b5 == Emit(b4, "POP")
<1>1. /\ Parsing /\ blocks # <<>> /\ k.kind = "try" /\ bc' = b5
      /\ blocks' = [blocks EXCEPT ![Len(blocks)].kind = "catch"]
      /\ try_depth' = try_depth - 1 /\ AddToLoop(-1) /\ handlers' = Pop(handlers)
      /\ steps' = steps + 1
      /\ UNCHANGED <<max_try_depth, starts>>
  BY DEF EndTry, Inside
<1>2. /\ Sound(bc, L, mx, handlers, 0, starts) /\ Handlers(bc, L, mx, handlers)
      /\ mx \in Nat /\ handlers \in Seq(Nat) /\ Len(handlers) \in Nat
  BY CompileFacts
<1>3. /\ k \in Block /\ k.first \in Labels(bc) /\ k.last \in Labels(bc) /\ k.first # k.last
      /\ L[k.first] = handlers /\ handlers = Inner(L, k) /\ L[k.last] \in Seq(Nat)
      /\ \A l \in Labels(bc) : Waits(k, l) => bc.labels[l] = Unmarked
  BY <1>1, InnermostFacts
<1>w. \A l : Waits(k, l) <=> l = k.last \/ l = k.first
  BY <1>1 DEF Waits
<1>o. /\ handlers = Append(L[k.last], k.first) /\ O = L[k.last] /\ handlers # <<>>
      /\ Pop(handlers) = O /\ Len(handlers) = Len(O) + 1 /\ Len(O) \in Nat
  <2> HIDE DEF k
  <2>1. k.first \in Nat
    BY <1>3 DEF Block
  <2>2. handlers = Append(L[k.last], k.first)
    BY <1>1, <1>3 DEF Inner
  <2>3. Outer(Append(L[k.last], k.first)) = L[k.last]
    BY <2>1, <1>3, PrefixFacts
  <2>4. Append(L[k.last], k.first) # <<>> /\ Len(Append(L[k.last], k.first)) = Len(L[k.last]) + 1
        /\ Len(L[k.last]) \in Nat
    <3> DEFINE g == L[k.last]
               x == k.first
    <3>1. g \in Seq(Nat) /\ x \in Nat
      BY <2>1, <1>3
    <3> HIDE DEF g, x
    <3>2. Append(g, x) # <<>> /\ Len(Append(g, x)) = Len(g) + 1 /\ Len(g) \in Nat
      BY <3>1
    <3> QED
      BY <3>2 DEF g, x
  <2>5. Pop(handlers) = O
    BY DEF Pop, Outer, Prefix
  <2> QED
    BY <2>2, <2>3, <2>4, <2>5
<1> HIDE DEF k, b1, b2, b3, b4, b5, O
<1>4. Sound(b1, L, mx, O, 0, starts) /\ b1.labels = bc.labels
  BY <1>2, <1>o, PopTrySound DEF b1, O
<1>5. Labels(b1) = Labels(bc) /\ Handlers(b1, L, mx, handlers)
  BY <1>2, <1>4, HandlersKept DEF Labels
<1>6. Sound(b2, L, mx, handlers, 0, starts) /\ b2.labels = bc.labels /\ Labels(b2) = Labels(bc)
  <2>1. k.last \in Labels(b1) /\ L[k.last] = O
    BY <1>3, <1>5, <1>o
  <2>2. Sound(b2, L, mx, handlers, 0, starts) /\ b2.labels = b1.labels
    BY <2>1, <1>4, <1>5, JumpSound DEF b2
  <2> QED
    BY <2>2, <1>4 DEF Labels
<1>7. /\ Sound(b3, L, mx, handlers, 0, starts) /\ Labels(b3) = Labels(b2)
      /\ \A j \in Labels(b2) : b3.labels[j] = Unmarked <=> b2.labels[j] = Unmarked /\ j # k.first
  <2>1. k.first \in Labels(b2) /\ b2.labels[k.first] = Unmarked /\ L[k.first] = handlers
    BY <1>3, <1>6, <1>w
  <2> QED
    BY <2>1, <1>6, MarkedSound DEF b3
<1>8. Sound(b4, L, mx, O, 1, starts) /\ b4.labels = b3.labels
  BY <1>2, <1>7, <1>o, PopTrySound DEF b4, O
<1>9. Sound(b5, L, mx, O, 0, starts) /\ b5.labels = b3.labels
  <2>1. Sound(b5, L, mx, O, 0, starts) /\ b5.labels = b4.labels
    BY <1>8, PopSound DEF b5
  <2> QED
    BY <2>1, <1>8
<1>10. /\ Labels(b5) = Labels(bc)
       /\ \A j \in Labels(bc) : b5.labels[j] = Unmarked <=> bc.labels[j] = Unmarked /\ j # k.first
  <2>1. Labels(b5) = Labels(b3)
    BY <1>9 DEF Labels
  <2> QED
    BY <2>1, <1>6, <1>7, <1>9
<1>11. Switches(L, "catch")
  BY <1>1, <1>10, <1>o DEF Switches, k
<1>12. BlockInv(L) /\ LabelInv /\ try_depth = Len(handlers) /\ try_depth <= max_try_depth
  BY DEF CompileInv
<1>13. LabelInv' /\ BlockInv(L)' /\ LoopBlocks' = LoopBlocks
  BY <1>11, <1>12, SwitchBlock, LoopBlocksChange
<1>14. Len(handlers') = Len(handlers) + (-1) /\ try_depth' = try_depth + (-1)
       /\ max_try_depth' \in Nat /\ try_depth' <= max_try_depth'
  <2>1. handlers' = O /\ max_try_depth' = max_try_depth /\ try_depth' = try_depth - 1
    BY <1>1, <1>o
  <2>2. Len(handlers') = Len(handlers) + (-1)
    BY <2>1, <1>o
  <2>3. try_depth \in Nat
    BY <1>2, <1>12
  <2> QED
    BY <2>1, <2>2, <2>3, <1>2, <1>12
<1>15. Sound(bc', L, max_try_depth', handlers', 0, starts')
  BY <1>1, <1>9, <1>o
<1>16. /\ -1 \in Int /\ ((-1 = 0 /\ UNCHANGED loops) \/ AddToLoop(-1))
       /\ \A l \in Labels(bc) : L[l] = L[l]
       /\ Parsing /\ steps' = steps + 1
  BY <1>1
<1> QED
  BY <1>13, <1>14, <1>15, <1>16, NestStep

LEMMA EndFunctionStep ==
  ASSUME NEW L, CompileInv(L), EndFunction
  PROVE  CompileInv(L)'
<1>1. Sound(bc, L, max_try_depth, handlers, 0, starts')
  BY CompileFacts DEF EndFunction
<1>2. Plain(L)
  BY <1>1, ReturnSound DEF EndFunction, Plain
<1> QED
  BY <1>2, PlainStep
-----------------------------------------------------------------------------
(* create_code's stack_size is a bound of every type's operands.           *)
LEMMA LeastNat ==
  ASSUME NEW S \in SUBSET Nat, S # {}
  PROVE  \E i \in S : \A j \in S : i <= j
<1> DEFINE Less == {ss \in Nat \X Nat : ss[1] < ss[2]}
<1>1. IsWellFoundedOn(Less, Nat)
  BY NatLessThanWellFounded DEF OpToRel
<1>2. \A a, b \in Nat : <<b, a>> \in Less <=> b < a
  OBVIOUS
<1> HIDE DEF Less
<1>3. \E a \in S : \A b \in S : ~(<<b, a>> \in Less)
  BY <1>1, WFMin, Zenon
<1>4. PICK a \in S : \A b \in S : ~(b < a)
  BY <1>2, <1>3
<1>5. \A b \in S : a <= b
  BY <1>4
<1> QED
  BY <1>5


LEMMA RunningEffectDef ==
  ASSUME NEW n \in Nat, n = Len(bc.code),
         \A a \in 1 .. n : StackEffect(bc.code[a].op) \in Int
  PROVE  /\ RunningEffect \in [0 .. n -> Int]
         /\ RunningEffect[0] = 0
         /\ \A a \in 1 .. n : RunningEffect[a] = RunningEffect[a - 1] + StackEffect(bc.code[a].op)
<1> DEFINE Step(f, a) == IF a = 0 THEN 0 ELSE f[a - 1] + StackEffect(bc.code[a].op)
           Upto(m) == \E f : f = [a \in 0 .. m |-> Step(f, a)] /\ f \in [0 .. m -> Int]
           Bad == {m \in 0 .. n : ~Upto(m)}
<1>1. Upto(0)
  <2> DEFINE f == [a \in 0 .. 0 |-> 0]
  <2>1. f = [a \in 0 .. 0 |-> Step(f, a)] /\ f \in [0 .. 0 -> Int]
    OBVIOUS
  <2> QED
    BY <2>1
<1>2. ASSUME NEW m \in 1 .. n, Upto(m - 1)
      PROVE  Upto(m)
  <2>1. PICK f : f = [a \in 0 .. m - 1 |-> Step(f, a)] /\ f \in [0 .. m - 1 -> Int]
    BY <1>2
  <2> DEFINE g == [a \in 0 .. m |-> IF a < m THEN f[a] ELSE f[m - 1] + StackEffect(bc.code[m].op)]
  <2>2. \A a \in 0 .. m - 1 : f[a] = Step(f, a) /\ f[a] \in Int
    BY <2>1
  <2>3. ASSUME NEW a \in 0 .. m
        PROVE  g[a] = Step(g, a) /\ g[a] \in Int
    <3>1. CASE a < m
      <4>1. a \in 0 .. m - 1 /\ g[a] = f[a] /\ (a # 0 => a - 1 \in 0 .. m /\ g[a - 1] = f[a - 1])
        BY <3>1
      <4> HIDE DEF g
      <4> QED
        BY <4>1, <2>2
    <3>2. CASE a = m
      <4>1. m - 1 \in 0 .. m - 1 /\ m - 1 \in 0 .. m /\ g[m - 1] = f[m - 1] /\ m # 0
        OBVIOUS
      <4>2. g[m] = f[m - 1] + StackEffect(bc.code[m].op)
        OBVIOUS
      <4>3. f[m - 1] \in Int /\ StackEffect(bc.code[m].op) \in Int
        BY <4>1, <2>2
      <4> HIDE DEF g
      <4> QED
        BY <3>2, <4>1, <4>2, <4>3
    <3> QED
      BY <3>1, <3>2
  <2>4. g = [a \in 0 .. m |-> g[a]]
    OBVIOUS
  <2> HIDE DEF g
  <2>5. g = [a \in 0 .. m |-> Step(g, a)]
    BY <2>3, <2>4
  <2>6. g \in [0 .. m -> Int]
    BY <2>3, <2>4
  <2> QED
    BY <2>5, <2>6
<1> HIDE DEF Upto
<1>3. Bad = {}
  <2> SUFFICES ASSUME Bad # {} PROVE FALSE
    OBVIOUS
  <2>0. Bad \in SUBSET Nat
    OBVIOUS
  <2>1. PICK m \in Bad : \A j \in Bad : m <= j
    <3> HIDE DEF Bad
    <3> QED
      BY <2>0, LeastNat
  <2>2. m # 0 /\ m \in 0 .. n /\ ~Upto(m)
    BY <1>1
  <2>3. m \in 1 .. n /\ m - 1 \in 0 .. n /\ ~(m <= m - 1)
    BY <2>2
  <2>4. Upto(m - 1)
    BY <2>1, <2>3
  <2> QED
    BY <1>2, <2>2, <2>3, <2>4
<1>4. Upto(n)
  BY <1>3
<1>5. PICK g : g = [a \in 0 .. n |-> Step(g, a)] /\ g \in [0 .. n -> Int]
  BY <1>4 DEF Upto
<1>6. RunningEffect = CHOOSE f : f = [a \in 0 .. n |-> Step(f, a)]
  BY DEF RunningEffect
<1>7. RunningEffect = [a \in 0 .. n |-> Step(RunningEffect, a)]
  BY <1>5, <1>6
<1> DEFINE r == RunningEffect
           Odd == {a \in 0 .. n : r[a] \notin Int}
<1>8. r = [a \in 0 .. n |-> Step(r, a)]
  BY <1>7
<1> HIDE DEF r
<1>9. /\ r[0] = 0
      /\ \A a \in 1 .. n : r[a] = r[a - 1] + StackEffect(bc.code[a].op)
  <2>1. \A a \in 0 .. n : r[a] = Step(r, a)
    BY <1>8
  <2> QED
    BY <2>1
<1>10. Odd = {}
  <2> SUFFICES ASSUME Odd # {} PROVE FALSE
    OBVIOUS
  <2>0. Odd \in SUBSET Nat
    OBVIOUS
  <2>1. PICK a \in Odd : \A j \in Odd : a <= j
    <3> HIDE DEF Odd
    <3> QED
      BY <2>0, LeastNat
  <2>2. a \in 1 .. n /\ a - 1 \in 0 .. n /\ ~(a <= a - 1)
    BY <1>9
  <2>3. r[a - 1] \in Int
    BY <2>1, <2>2
  <2>4. StackEffect(bc.code[a].op) \in Int /\ r[a] = r[a - 1] + StackEffect(bc.code[a].op)
    BY <2>2, <1>9
  <2> QED
    BY <2>3, <2>4
<1>11. r \in [0 .. n -> Int]
  BY <1>8, <1>10
<1> QED
  BY <1>9, <1>11 DEF r

LEMMA EffectFacts ==
  /\ \A op \in Ops : StackEffect(op) \in Int /\ StackEffect(op) <= 1
  /\ \A b \in Bytecodes : \A a \in 1 .. Len(b.code) :
       b.code[a].op \in Ops
<1>1. \A op \in Ops : StackEffect(op) \in Int /\ StackEffect(op) <= 1
  BY DEF StackEffect, Ops, Jumps
<1>2. ASSUME NEW b \in Bytecodes, NEW a \in 1 .. Len(b.code)
      PROVE  b.code[a].op \in Ops
  <2>1. b.code[a] \in Instruction
    BY <1>2 DEF Bytecodes
  <2> QED
    BY <2>1 DEF Instruction
<1> QED
  BY <1>1, <1>2

LEMMA StackSizeBounds ==
  ASSUME bc \in Bytecodes
  PROVE  /\ stack_size \in Nat
         /\ \A a \in 0 .. Len(bc.code) : RunningEffect[a] \in Int /\ RunningEffect[a] <= stack_size
<1> DEFINE n == Len(bc.code)
           r == RunningEffect
           Gap == {n - r[a] : a \in 0 .. n}
           Low == {a \in 0 .. n : ~(r[a] <= a)}
<1>1. n \in Nat
  BY DEF Bytecodes
<1>2. \A a \in 1 .. n : StackEffect(bc.code[a].op) \in Int /\ StackEffect(bc.code[a].op) <= 1
  BY EffectFacts
<1>3. /\ r \in [0 .. n -> Int] /\ r[0] = 0
      /\ \A a \in 1 .. n : r[a] = r[a - 1] + StackEffect(bc.code[a].op)
  <2> DEFINE k == n
  <2>1. k \in Nat /\ k = Len(bc.code) /\ \A a \in 1 .. k : StackEffect(bc.code[a].op) \in Int
    BY <1>1, <1>2
  <2> HIDE DEF k
  <2>2. /\ r \in [0 .. k -> Int] /\ r[0] = 0
        /\ \A a \in 1 .. k : r[a] = r[a - 1] + StackEffect(bc.code[a].op)
    BY <2>1, RunningEffectDef
  <2> QED
    BY <2>2 DEF k
<1> HIDE DEF n, r
<1>4. Low = {}
  <2> SUFFICES ASSUME Low # {} PROVE FALSE
    OBVIOUS
  <2>0. Low \in SUBSET Nat
    BY <1>1
  <2>1. PICK a \in Low : \A j \in Low : a <= j
    <3> HIDE DEF Low
    <3> QED
      BY <2>0, LeastNat
  <2>2. a \in 1 .. n /\ a - 1 \in 0 .. n /\ ~(a <= a - 1)
    BY <1>1, <1>3
  <2>3. r[a - 1] <= a - 1 /\ r[a - 1] \in Int
    BY <2>1, <2>2, <1>3
  <2>4. StackEffect(bc.code[a].op) \in Int /\ StackEffect(bc.code[a].op) <= 1
        /\ r[a] = r[a - 1] + StackEffect(bc.code[a].op)
    BY <2>2, <1>2, <1>3
  <2>5. ~(r[a] <= a)
    OBVIOUS
  <2> HIDE DEF Low
  <2> QED
    BY <2>2, <2>3, <2>4, <2>5
<1>5. \A a \in 0 .. n : r[a] \in Int /\ r[a] <= n
  <2> SUFFICES ASSUME NEW a \in 0 .. n PROVE r[a] \in Int /\ r[a] <= n
    OBVIOUS
  <2>1. r[a] <= a /\ r[a] \in Int
    BY <1>3, <1>4
  <2> HIDE DEF Low
  <2> QED
    BY <2>1, <1>1
<1>6. Gap \in SUBSET Nat /\ n \in Gap
  <2>1. \A a \in 0 .. n : n - r[a] \in Nat
    BY <1>1, <1>5
  <2>2. 0 \in 0 .. n /\ n - r[0] = n
    BY <1>1, <1>3
  <2> QED
    BY <2>1, <2>2
<1>7. PICK d \in Gap : \A e \in Gap : d <= e
  <2> HIDE DEF Gap
  <2> QED
    BY <1>6, LeastNat
<1>8. PICK a \in 0 .. n : d = n - r[a]
  BY DEF Gap
<1>9. \A c \in 0 .. n : r[c] <= r[a]
  <2> SUFFICES ASSUME NEW c \in 0 .. n PROVE r[c] <= r[a]
    OBVIOUS
  <2>1. d <= n - r[c]
    BY <1>7
  <2>2. r[c] \in Int /\ r[a] \in Int
    BY <1>5
  <2> HIDE DEF Gap, Low
  <2> QED
    BY <2>1, <2>2, <1>1, <1>8
<1>10. r[a] \in 0 .. n
  <2>1. 0 \in 0 .. n
    BY <1>1
  <2>2. 0 <= r[a]
    BY <2>1, <1>3, <1>9
  <2> QED
    BY <2>2, <1>5
<1>11. stack_size \in 0 .. n /\ \A c \in 0 .. n : r[c] <= stack_size
  <2>1. stack_size = CHOOSE m \in 0 .. n : /\ \E c \in 0 .. n : r[c] = m
                                           /\ \A c \in 0 .. n : r[c] <= m
    BY DEF stack_size, n, r
  <2>2. \E m \in 0 .. n : /\ \E c \in 0 .. n : r[c] = m
                          /\ \A c \in 0 .. n : r[c] <= m
    BY <1>9, <1>10
  <2> HIDE DEF Gap, Low
  <2> QED
    BY <2>1, <2>2
<1> QED
  BY <1>1, <1>5, <1>11 DEF n, r

LEMMA OperandsWithin ==
  ASSUME bc \in Bytecodes, NEW ns \in [0 .. Len(bc.code) -> Nat], ns[0] = 0,
         \A a \in Addresses(bc) : ns[a + 1] <= ns[a] + StackEffect(bc.code[a + 1].op),
         NEW k \in 0 .. Len(bc.code)
  PROVE  ns[k] <= stack_size
<1> DEFINE n == Len(bc.code)
           r == RunningEffect
           High == {a \in 0 .. n : ~(ns[a] <= r[a])}
<1>1. n \in Nat
  BY DEF Bytecodes
<1>2. \A a \in 1 .. n : StackEffect(bc.code[a].op) \in Int
  BY EffectFacts
<1>3. /\ r[0] = 0
      /\ \A a \in 1 .. n : r[a] = r[a - 1] + StackEffect(bc.code[a].op)
  <2> DEFINE m == n
  <2>1. m \in Nat /\ m = Len(bc.code) /\ \A a \in 1 .. m : StackEffect(bc.code[a].op) \in Int
    BY <1>1, <1>2
  <2> HIDE DEF m
  <2>2. /\ r[0] = 0
        /\ \A a \in 1 .. m : r[a] = r[a - 1] + StackEffect(bc.code[a].op)
    BY <2>1, RunningEffectDef
  <2> QED
    BY <2>2 DEF m
<1>4. /\ stack_size \in Nat
      /\ \A a \in 0 .. n : r[a] \in Int /\ r[a] <= stack_size
  BY StackSizeBounds
<1>5. \A a \in 0 .. n : ns[a] \in Nat
  OBVIOUS
<1>6. \A a \in 1 .. n : ns[a] <= ns[a - 1] + StackEffect(bc.code[a].op)
  <2> SUFFICES ASSUME NEW a \in 1 .. n
               PROVE  ns[a] <= ns[a - 1] + StackEffect(bc.code[a].op)
    OBVIOUS
  <2>1. a - 1 \in Addresses(bc) /\ (a - 1) + 1 = a
    BY <1>1 DEF Addresses
  <2>2. ns[(a - 1) + 1] <= ns[a - 1] + StackEffect(bc.code[(a - 1) + 1].op)
    BY <2>1
  <2> QED
    BY <2>1, <2>2
<1> HIDE DEF n, r
<1>7. High = {}
  <2> SUFFICES ASSUME High # {} PROVE FALSE
    OBVIOUS
  <2>0. High \in SUBSET Nat
    BY <1>1
  <2>1. PICK a \in High : \A j \in High : a <= j
    <3> HIDE DEF High
    <3> QED
      BY <2>0, LeastNat
  <2>2. a \in 1 .. n /\ a - 1 \in 0 .. n /\ ~(a <= a - 1)
    BY <1>1, <1>3
  <2>3. ns[a - 1] <= r[a - 1]
    BY <2>1, <2>2
  <2>4. ns[a - 1] \in Nat /\ ns[a] \in Nat /\ r[a - 1] \in Int /\ StackEffect(bc.code[a].op) \in Int
    BY <2>2, <1>2, <1>4, <1>5
  <2>5. r[a] = r[a - 1] + StackEffect(bc.code[a].op)
        /\ ns[a] <= ns[a - 1] + StackEffect(bc.code[a].op)
    BY <2>2, <1>3, <1>6
  <2>6. ~(ns[a] <= r[a])
    OBVIOUS
  <2> HIDE DEF High
  <2> QED
    BY <2>3, <2>4, <2>5, <2>6
<1>8. k \in 0 .. n
  BY DEF n
<1>9. ns[k] <= r[k] /\ r[k] <= stack_size /\ r[k] \in Int /\ ns[k] \in Nat
  BY <1>4, <1>5, <1>7, <1>8
<1> HIDE DEF High
<1> QED
  BY <1>4, <1>9
-----------------------------------------------------------------------------
(* The machine's part of the inductive invariant.  The code is finished:   *)
(* it ends with a RETURN, and every label is at one of its addresses.      *)
Finished ==
  /\ Len(bc.code) > 0 /\ bc.code[Len(bc.code)].op = "RETURN"
  /\ \A l \in Labels(bc) : bc.labels[l] \in Addresses(bc)

Addressed(h) == [i \in DOMAIN h |-> bc.labels[h[i]]]

(* The state has the type of the address it is at.                         *)
Runs(L) ==
  \E hs \in [0 .. Len(bc.code) -> Seq(Nat)], ns \in [0 .. Len(bc.code) -> Nat] :
    /\ Typed(bc, L, max_try_depth, hs, ns, handlers, 0, starts)
    /\ try_stack = Addressed(hs[ip]) /\ sp = leaked + ns[ip]

NotStarted == ip = 0 /\ sp = 0 /\ try_stack = <<>> /\ leaked = 0
RunInv(L) ==
  /\ blocks = <<>> /\ Finished
  /\ ip \in Addresses(bc) /\ sp \in Nat /\ leaked \in Nat
  /\ try_stack \in Seq(Nat) /\ Len(try_stack) <= max_try_depth
  /\ status \in {"running", "returned", "failed"}
  /\ status = "running" => Runs(L)

(* What the instruction about to run says of the addresses it may go to.   *)
LEMMA InstrFacts ==
  ASSUME NEW L, Resolved(bc), Finished, ip \in Addresses(bc),
         NEW hs \in [0 .. Len(bc.code) -> Seq(Nat)], NEW ns \in [0 .. Len(bc.code) -> Nat],
         Typed(bc, L, max_try_depth, hs, ns, handlers, 0, starts)
  PROVE  /\ Fits(Instr.op, Instr.label, L, hs[ip], ns[ip], hs[ip + 1], ns[ip + 1])
         /\ Instr.op # "RETURN" => ip + 1 \in Addresses(bc)
         /\ Instr.op \in Jumps =>
              /\ Instr.label \in Labels(bc) /\ Instr.arg = bc.labels[Instr.label]
              /\ Instr.arg \in Addresses(bc)
              /\ hs[Instr.arg] = L[Instr.label] /\ ns[Instr.arg] = 0
         /\ \A a \in Addresses(bc) : a \in 0 .. Len(bc.code)
         /\ ip \in 0 .. Len(bc.code) /\ ip + 1 \in 0 .. Len(bc.code)
         /\ hs[ip] \in Seq(Nat) /\ ns[ip] \in Nat /\ hs[ip + 1] \in Seq(Nat)
<1>1. bc \in Bytecodes
  BY DEF Resolved
<1>2. Len(bc.code) \in Nat
  BY <1>1 DEF Bytecodes
<1>3. /\ Fits(Instr.op, Instr.label, L, hs[ip], ns[ip], hs[ip + 1], ns[ip + 1])
  BY DEF Typed, Instr
<1>4. /\ ip \in 0 .. Len(bc.code) /\ ip + 1 \in 0 .. Len(bc.code)
      /\ \A a \in Addresses(bc) : a \in 0 .. Len(bc.code)
  BY <1>2 DEF Addresses
<1>5. Instr.op # "RETURN" => ip + 1 \in Addresses(bc)
  <2>1. ip + 1 = Len(bc.code) => Instr.op = "RETURN"
    BY DEF Finished, Instr
  <2>2. ip + 1 # Len(bc.code) => ip + 1 \in Addresses(bc)
    BY <1>2 DEF Addresses
  <2> QED
    BY <2>1, <2>2
<1>6. ASSUME Instr.op \in Jumps
      PROVE  /\ Instr.label \in Labels(bc) /\ Instr.arg = bc.labels[Instr.label]
             /\ Instr.arg \in Addresses(bc)
             /\ hs[Instr.arg] = L[Instr.label] /\ ns[Instr.arg] = 0
  <2>1. Instr.label # NoLabel
    BY <1>3, <1>6 DEF Fits
  <2>2. Instr.label \in Labels(bc)
        /\ (bc.labels[Instr.label] # Unmarked => Instr.arg = bc.labels[Instr.label])
    BY <2>1 DEF Resolved, JumpsResolve, Instr
  <2>3. bc.labels[Instr.label] \in Addresses(bc)
    BY <2>2 DEF Finished
  <2>4. bc.labels[Instr.label] # Unmarked
    BY <2>3 DEF Addresses, Unmarked
  <2> QED
    BY <2>2, <2>3, <2>4 DEF Typed
<1> QED
  BY <1>3, <1>4, <1>5, <1>6

(* A step to an address whose type the new state has.                      *)
LEMMA StepTo ==
  ASSUME NEW L, CompileInv(L), RunInv(L), UNCHANGED compiler, status' = "running",
         NEW hs \in [0 .. Len(bc.code) -> Seq(Nat)], NEW ns \in [0 .. Len(bc.code) -> Nat],
         Typed(bc, L, max_try_depth, hs, ns, handlers, 0, starts),
         NEW a \in Addresses(bc), ip' = a,
         try_stack' = Addressed(hs[a]), leaked' \in Nat, sp' = leaked' + ns[a]
  PROVE  RunInv(L)'
<1>1. bc \in Bytecodes /\ Len(bc.code) \in Nat /\ Finished /\ blocks = <<>>
  BY CompileFacts DEF RunInv
<1>2. /\ bc' = bc /\ blocks' = blocks /\ max_try_depth' = max_try_depth
      /\ handlers' = handlers /\ starts' = starts
  BY DEF compiler
<1>3. a \in 0 .. Len(bc.code)
  BY <1>1 DEF Addresses
<1>4. ns[a] \in Nat /\ hs[a] \in Seq(Nat) /\ Handlers(bc, L, max_try_depth, hs[a])
  BY <1>3 DEF Typed
<1>5. sp' \in Nat
  BY <1>4
<1>6. try_stack' \in Seq(Nat) /\ Len(try_stack') = Len(hs[a])
  <2> DEFINE h == hs[a]
             n == Len(h)
  <2>1. h \in Seq(Nat) /\ n \in Nat /\ DOMAIN h = 1 .. n
    BY <1>4
  <2>2. \A i \in 1 .. n : bc.labels[h[i]] \in Nat
    <3> SUFFICES ASSUME NEW i \in 1 .. n PROVE bc.labels[h[i]] \in Nat
      OBVIOUS
    <3>1. h[i] \in Labels(bc)
      BY <1>4, <2>1 DEF Handlers
    <3> QED
      BY <3>1, <1>1 DEF Finished, Addresses
  <2>3. try_stack' = [i \in 1 .. n |-> bc.labels[h[i]]]
    BY <2>1 DEF Addressed
  <2> HIDE DEF h, n
  <2>4. try_stack' \in [1 .. n -> Nat]
    BY <2>2, <2>3
  <2>5. try_stack' \in Seq(Nat) /\ Len(try_stack') = n
    BY <2>1, <2>4, FunctionIsSeq
  <2> QED
    BY <2>5 DEF h, n
<1>7. Len(try_stack') <= max_try_depth
  BY <1>4, <1>6 DEF Handlers
<1>8. Runs(L)'
  <2>1. try_stack' = Addressed(hs[a])'
    BY <1>2 DEF Addressed
  <2> QED
    BY <2>1, <1>2 DEF Runs
<1>9. Finished'
  BY <1>1, <1>2 DEF Finished
<1>10. ip' \in Addresses(bc')
  BY <1>2
<1> QED
  BY <1>1, <1>2, <1>5, <1>6, <1>7, <1>8, <1>9, <1>10 DEF RunInv

(* A step that leaves the frame.                                           *)
LEMMA StopsWell ==
  ASSUME NEW L, RunInv(L), UNCHANGED <<compiler, try_stack, leaked, ip>>,
         status' \in {"returned", "failed"}, sp' \in Nat
  PROVE  RunInv(L)'
<1>1. /\ bc' = bc /\ blocks' = blocks /\ max_try_depth' = max_try_depth
      /\ try_stack' = try_stack /\ leaked' = leaked /\ ip' = ip
  BY DEF compiler
<1>2. Finished' /\ status' # "running"
  BY <1>1 DEF RunInv, Finished
<1> QED
  BY <1>1, <1>2 DEF RunInv

(* More and fewer handlers on the try stack.                               *)
LEMMA AddressedFacts ==
  ASSUME NEW h \in Seq(Nat)
  PROVE  /\ h # <<>> <=> Addressed(h) # <<>>
         /\ Len(Addressed(h)) = Len(h)
         /\ h # <<>> => Addressed(h)[Len(h)] = bc.labels[h[Len(h)]]
         /\ h # <<>> => Addressed(Outer(h)) = Pop(Addressed(h))
         /\ \A l \in Nat : Addressed(Append(h, l)) = Append(Addressed(h), bc.labels[l])
<1> DEFINE n == Len(h)
           S == {bc.labels[l] : l \in Nat}
           A == Addressed(h)
<1>1. n \in Nat /\ DOMAIN h = 1 .. n
  OBVIOUS
<1>2. \A i \in 1 .. n : h[i] \in Nat
  OBVIOUS
<1>3. A = [i \in 1 .. n |-> bc.labels[h[i]]]
  BY <1>1 DEF Addressed
<1>4. \A i \in 1 .. n : bc.labels[h[i]] \in S
  BY <1>2
<1> HIDE DEF n, S, A
<1>5. A \in [1 .. n -> S]
  BY <1>3, <1>4
<1>6. A \in Seq(S) /\ Len(A) = n
  BY <1>1, <1>5, FunctionIsSeq
<1>7. h # <<>> <=> n # 0
  BY DEF n
<1>8. A # <<>> <=> n # 0
  BY <1>6
<1>9. ASSUME h # <<>>
      PROVE  Addressed(Outer(h)) = Pop(A)
  <2>1. n - 1 \in Nat /\ n \in 1 .. n
    BY <1>1, <1>7, <1>9
  <2>2. Outer(h) = [i \in 1 .. n - 1 |-> h[i]]
    BY <2>1 DEF Outer, Prefix, n
  <2>3. Pop(A) = [i \in 1 .. n - 1 |-> A[i]]
    BY <2>1, <1>6 DEF Pop
  <2>4. \A i \in 1 .. n - 1 : i \in 1 .. n
    BY <1>1
  <2>5. Addressed(Outer(h)) = [i \in 1 .. n - 1 |-> bc.labels[h[i]]]
    BY <2>2 DEF Addressed
  <2>6. \A i \in 1 .. n - 1 : A[i] = bc.labels[h[i]]
    BY <2>4, <1>3
  <2> QED
    BY <2>3, <2>5, <2>6
<1>10. ASSUME NEW l \in Nat
       PROVE  Addressed(Append(h, l)) = Append(A, bc.labels[l])
  <2> DEFINE g == Append(h, l)
             x == bc.labels[l]
  <2>1. g \in Seq(Nat) /\ DOMAIN g = 1 .. n + 1 /\ g[n + 1] = l /\ \A i \in 1 .. n : g[i] = h[i]
    BY DEF n
  <2>2. x \in S
    BY DEF S
  <2> HIDE DEF g, x
  <2>3. /\ Append(A, x) \in Seq(S) /\ Len(Append(A, x)) = n + 1
        /\ \A i \in 1 .. n : Append(A, x)[i] = A[i]
        /\ Append(A, x)[n + 1] = x
    BY <2>2, <1>6, AppendProperties
  <2>4. Append(A, x) = [i \in 1 .. n + 1 |-> Append(A, x)[i]]
    <3> DEFINE B == Append(A, x)
    <3>1. B \in Seq(S) /\ Len(B) = n + 1
      BY <2>3
    <3> HIDE DEF B
    <3>2. B = [i \in 1 .. n + 1 |-> B[i]]
      BY <3>1, LenProperties
    <3> QED
      BY <3>2 DEF B
  <2>5. Addressed(g) = [i \in 1 .. n + 1 |-> bc.labels[g[i]]]
    BY <2>1 DEF Addressed
  <2>6. \A i \in 1 .. n + 1 : Append(A, x)[i] = bc.labels[g[i]]
    <3>1. \A i : i \in 1 .. n + 1 <=> i \in 1 .. n \/ i = n + 1
      BY <1>1, OneMore
    <3> QED
      BY <3>1, <2>1, <2>3, <1>3 DEF x
  <2> HIDE DEF A
  <2>7. Addressed(g) = Append(A, x)
    BY <2>4, <2>5, <2>6
  <2> QED
    BY <2>7 DEF g, x
<1>11. h # <<>> => A[n] = bc.labels[h[n]]
  <2>1. h # <<>> => n \in 1 .. n
    BY <1>1, <1>7
  <2> QED
    BY <2>1, <1>3
<1> QED
  BY <1>6, <1>7, <1>8, <1>9, <1>10, <1>11 DEF n, A

LEMMA ResolvedNow ==
  ASSUME NEW L, CompileInv(L)
  PROVE  Resolved(bc)
BY DEF CompileInv, Sound

(* RET_WITH_TRACE: the innermost handler runs, under the handlers outside. *)
LEMMA RaiseStep ==
  ASSUME NEW L, CompileInv(L), RunInv(L), status = "running",
         NEW hs \in [0 .. Len(bc.code) -> Seq(Nat)], NEW ns \in [0 .. Len(bc.code) -> Nat],
         Typed(bc, L, max_try_depth, hs, ns, handlers, 0, starts),
         try_stack = Addressed(hs[ip]), NEW height \in Nat, Raise(height)
  PROVE  RunInv(L)'
<1> DEFINE h == hs[ip]
           n == Len(h)
           l == h[n]
           a == bc.labels[l]
<1>1. Resolved(bc) /\ Finished /\ ip \in Addresses(bc) /\ compiler' = compiler
      /\ try_stack' = try_stack /\ sp' = height
  BY ResolvedNow DEF RunInv, Raise, compiler
<1>2. h \in Seq(Nat) /\ ip \in 0 .. Len(bc.code) /\ \A c \in Addresses(bc) : c \in 0 .. Len(bc.code)
  BY <1>1, InstrFacts
<1>3. (h # <<>> <=> try_stack # <<>>) /\ Len(try_stack) = n
      /\ (h # <<>> => try_stack[n] = a)
  BY <1>2, AddressedFacts
<1>4. CASE try_stack # <<>>
  <2>1. ip' = a /\ leaked' = height /\ status' = "running"
    BY <1>3, <1>4 DEF Raise
  <2>2. n \in DOMAIN h
    BY <1>2, <1>3, <1>4
  <2>3. l \in Labels(bc) /\ L[l] = Prefix(h, n)
    BY <1>2, <2>2 DEF Typed, Handlers
  <2>4. Prefix(h, n) = h
    BY <1>2 DEF Prefix
  <2>5. a \in Addresses(bc) /\ a # Unmarked
    <3>1. a \in Addresses(bc)
      BY <1>1, <2>3 DEF Finished
    <3> QED
      BY <3>1 DEF Addresses, Unmarked
  <2>6. hs[a] = h /\ ns[a] = 0
    BY <2>3, <2>4, <2>5 DEF Typed
  <2> HIDE DEF h, n, l, a
  <2>7. try_stack' = Addressed(hs[a])
    BY <1>1, <2>6 DEF h
  <2>8. leaked' \in Nat /\ sp' = leaked' + ns[a]
    BY <1>1, <2>1, <2>6
  <2> QED
    BY <1>1, <2>1, <2>5, <2>7, <2>8, StepTo
<1>5. CASE try_stack = <<>>
  BY <1>1, <1>5, StopsWell DEF Raise
<1> QED
  BY <1>4, <1>5

(* An instruction of typed code keeps the state's type.                    *)
LEMMA ExecuteStep ==
  ASSUME NEW L, CompileInv(L), RunInv(L), Execute
  PROVE  RunInv(L)'
<1>1. status = "running" /\ Resolved(bc) /\ Finished /\ ip \in Addresses(bc)
      /\ leaked \in Nat /\ sp \in Nat
  BY ResolvedNow DEF Execute, Push, PopOne, Jump, JumpIfFalse, Call, Throw, PushTry, PopTry,
       Catch, Return, Executes, RunInv
<1>2. PICK hs \in [0 .. Len(bc.code) -> Seq(Nat)], ns \in [0 .. Len(bc.code) -> Nat] :
        /\ Typed(bc, L, max_try_depth, hs, ns, handlers, 0, starts)
        /\ try_stack = Addressed(hs[ip]) /\ sp = leaked + ns[ip]
  BY <1>1 DEF RunInv, Runs
<1> DEFINE h == hs[ip]
           n == ns[ip]
           next == ip + 1
           arg == Instr.arg
           l == Instr.label
<1>3. /\ Fits(Instr.op, l, L, h, n, hs[next], ns[next])
      /\ Instr.op # "RETURN" => next \in Addresses(bc)
      /\ Instr.op \in Jumps =>
           /\ l \in Labels(bc) /\ arg = bc.labels[l] /\ arg \in Addresses(bc)
           /\ hs[arg] = L[l] /\ ns[arg] = 0
      /\ h \in Seq(Nat) /\ n \in Nat
  BY <1>1, <1>2, InstrFacts
<1>4. try_stack = Addressed(h) /\ sp = leaked + n
  BY <1>2
<1>l. \A x \in Labels(bc) : x \in Nat
  BY <1>1 DEF Resolved, Bytecodes, Labels
<1> HIDE DEF h, n, next, arg, l
<1>5. ASSUME NEW a \in Addresses(bc), compiler' = compiler, status' = status, ip' = a,
             try_stack' = Addressed(hs[a]), leaked' = leaked, sp' = leaked + ns[a]
      PROVE  RunInv(L)'
  <2>1. status' = "running" /\ leaked' \in Nat /\ sp' = leaked' + ns[a]
    BY <1>1, <1>5
  <2> QED
    BY <2>1, <1>2, <1>5, StepTo
<1>6. CASE Push
  <2>1. Instr.op = "PUSH" /\ sp' = sp + 1 /\ ip' = next
        /\ UNCHANGED <<compiler, try_stack, leaked, status>>
    BY <1>6 DEF Push, Executes, next
  <2>2. next \in Addresses(bc) /\ hs[next] = h /\ ns[next] = n + 1
    BY <2>1, <1>3 DEF Fits, StackEffect
  <2>3. sp' = leaked + ns[next] /\ try_stack' = Addressed(hs[next])
    BY <2>1, <2>2, <1>1, <1>3, <1>4
  <2> QED
    BY <2>1, <2>2, <2>3, <1>5
<1>7. CASE PopOne
  <2>1. Instr.op = "POP" /\ sp' = sp - 1 /\ ip' = next
        /\ UNCHANGED <<compiler, try_stack, leaked, status>>
    BY <1>7 DEF PopOne, Executes, next
  <2>2. next \in Addresses(bc) /\ hs[next] = h /\ ns[next] = n - 1
    BY <2>1, <1>3 DEF Fits, StackEffect
  <2>3. sp' = leaked + ns[next] /\ try_stack' = Addressed(hs[next])
    BY <2>1, <2>2, <1>1, <1>3, <1>4
  <2> QED
    BY <2>1, <2>2, <2>3, <1>5
<1>8. CASE Jump
  <2>1. Instr.op = "JUMP" /\ ip' = arg
        /\ UNCHANGED <<compiler, sp, try_stack, leaked, status>>
    BY <1>8 DEF Jump, Executes, arg
  <2>2. arg \in Addresses(bc) /\ hs[arg] = h /\ ns[arg] = 0 /\ n = 0
    BY <2>1, <1>3 DEF Fits, Jumps
  <2>3. sp' = leaked + ns[arg] /\ try_stack' = Addressed(hs[arg])
    BY <2>1, <2>2, <1>4
  <2> QED
    BY <2>1, <2>2, <2>3, <1>5
<1>9. CASE JumpIfFalse
  <2>1. Instr.op = "JUMP_IF_FALSE" /\ sp' = sp - 1 /\ ip' \in {next, arg}
        /\ UNCHANGED <<compiler, try_stack, leaked, status>>
    BY <1>9 DEF JumpIfFalse, Executes, arg, next
  <2>2. /\ arg \in Addresses(bc) /\ hs[arg] = h /\ ns[arg] = 0
        /\ next \in Addresses(bc) /\ hs[next] = h /\ ns[next] = 0
        /\ n = 1
    BY <2>1, <1>3 DEF Fits, Jumps
  <2>3. sp' = leaked + 0 /\ try_stack' = Addressed(h)
    BY <2>1, <2>2, <1>1, <1>4
  <2>4. CASE ip' = next
    BY <2>1, <2>2, <2>3, <2>4, <1>5
  <2>5. CASE ip' = arg
    BY <2>1, <2>2, <2>3, <2>5, <1>5
  <2> QED
    BY <2>1, <2>4, <2>5
<1>10. CASE Call
  <2>1. CASE ip' = next /\ UNCHANGED <<compiler, sp, try_stack, leaked, status>>
    <3>1. Instr.op = "CALL"
      BY <1>10 DEF Call, Executes
    <3>2. next \in Addresses(bc) /\ hs[next] = h /\ ns[next] = n
      BY <3>1, <1>3 DEF Fits, StackEffect
    <3>3. sp' = leaked + ns[next] /\ try_stack' = Addressed(hs[next])
      BY <2>1, <3>2, <1>4
    <3> QED
      BY <2>1, <3>2, <3>3, <1>5
  <2>2. CASE Raise(sp)
    BY <2>2, <1>1, <1>2, RaiseStep
  <2> QED
    BY <2>1, <2>2, <1>10 DEF Call, next
<1>11. CASE Throw
  <2>1. Instr.op = "THROW" /\ Raise(sp - 1)
    BY <1>11 DEF Throw, Executes
  <2>2. n = 1
    BY <2>1, <1>3 DEF Fits
  <2>3. sp - 1 \in Nat
    BY <2>2, <1>1, <1>4
  <2> QED
    BY <2>1, <2>3, <1>1, <1>2, RaiseStep
<1>12. CASE PushTry
  <2>1. Instr.op = "PUSH_TRY" /\ try_stack' = Append(try_stack, arg) /\ ip' = next
        /\ UNCHANGED <<compiler, sp, leaked, status>>
    BY <1>12 DEF PushTry, Executes, arg, next
  <2>2. next \in Addresses(bc) /\ hs[next] = Append(h, l) /\ ns[next] = n
        /\ arg = bc.labels[l] /\ l \in Nat
    BY <2>1, <1>3, <1>l DEF Fits, Jumps
  <2>3. Addressed(Append(h, l)) = Append(Addressed(h), bc.labels[l])
    BY <2>2, <1>3, AddressedFacts
  <2>4. sp' = leaked + ns[next] /\ try_stack' = Addressed(hs[next])
    BY <2>1, <2>2, <2>3, <1>4
  <2> QED
    BY <2>1, <2>2, <2>4, <1>5
<1>13. CASE PopTry
  <2>1. Instr.op = "POP_TRY" /\ try_stack' = Pop(try_stack) /\ ip' = next
        /\ UNCHANGED <<compiler, sp, leaked, status>>
    BY <1>13 DEF PopTry, Executes, next
  <2>2. next \in Addresses(bc) /\ h # <<>> /\ hs[next] = Outer(h) /\ ns[next] = n
    BY <2>1, <1>3 DEF Fits, StackEffect
  <2>3. Addressed(Outer(h)) = Pop(Addressed(h))
    BY <2>2, <1>3, AddressedFacts
  <2>4. sp' = leaked + ns[next] /\ try_stack' = Addressed(hs[next])
    BY <2>1, <2>2, <2>3, <1>4
  <2> QED
    BY <2>1, <2>2, <2>4, <1>5
<1>14. CASE Catch
  <2>1. Instr.op = "CATCH" /\ try_stack' = Pop(try_stack) /\ ip' = next /\ sp' = sp + 1
        /\ UNCHANGED <<compiler, leaked, status>>
    BY <1>14 DEF Catch, Executes, next
  <2>2. next \in Addresses(bc) /\ h # <<>> /\ hs[next] = Outer(h) /\ ns[next] = n + 1
    BY <2>1, <1>3 DEF Fits, StackEffect
  <2>3. Addressed(Outer(h)) = Pop(Addressed(h))
    BY <2>2, <1>3, AddressedFacts
  <2>4. sp' = leaked + ns[next] /\ try_stack' = Addressed(hs[next])
    BY <2>1, <2>2, <2>3, <1>1, <1>3, <1>4
  <2> QED
    BY <2>1, <2>2, <2>4, <1>5
<1>15. CASE Return
  <2>1. Instr.op = "RETURN" /\ status' = "returned" /\ sp' = sp - 1
        /\ UNCHANGED <<compiler, ip, try_stack, leaked>>
    BY <1>15 DEF Return, Executes
  <2>2. n = 1
    BY <2>1, <1>3 DEF Fits
  <2>3. sp' \in Nat
    BY <2>1, <2>2, <1>1, <1>4
  <2> QED
    BY <2>1, <2>3, StopsWell
<1> QED
  BY <1>6, <1>7, <1>8, <1>9, <1>10, <1>11, <1>12, <1>13, <1>14, <1>15 DEF Execute

(* create_code: the code starts to run, with nothing on its stacks.        *)
LEMMA StartStep ==
  ASSUME NEW L, CompileInv(L), NotStarted, EndFunction
  PROVE  RunInv(L)'
<1> DEFINE e == Emit(bc, "PUSH")
           f == Emit(e, "RETURN")
<1>1. /\ blocks = <<>> /\ bc' = f /\ status' = "running" /\ blocks' = blocks
      /\ ip' = 0 /\ sp' = 0 /\ try_stack' = <<>> /\ leaked' = 0
  BY DEF EndFunction, NotStarted
<1>2. Resolved(bc)
  BY ResolvedNow
<1>3. CompileInv(L)'
  BY EndFunctionStep
<1> HIDE DEF e, f
<1>4. /\ Resolved(e) /\ e.labels = bc.labels
      /\ e.code = Append(bc.code, [op |-> "PUSH", arg |-> 0, label |-> NoLabel])
  BY <1>2, EmitResolved DEF e, Ops, Jumps
<1>5. /\ Resolved(f) /\ f.labels = e.labels
      /\ f.code = Append(e.code, [op |-> "RETURN", arg |-> 0, label |-> NoLabel])
  BY <1>4, EmitResolved DEF f, Ops, Jumps
<1>6. /\ Len(bc.code) \in Nat /\ Len(f.code) = Len(bc.code) + 2
      /\ f.code[Len(f.code)].op = "RETURN"
  BY <1>2, <1>4, <1>5 DEF Resolved, Bytecodes
<1>7. ASSUME NEW l \in Labels(f)
      PROVE  f.labels[l] \in Addresses(f)
  <2>1. l \in Labels(bc) /\ f.labels[l] = bc.labels[l]
    BY <1>4, <1>5 DEF Labels
  <2>2. bc.labels[l] # Unmarked
    BY <2>1, <1>1 DEF CompileInv, LabelInv
  <2>3. bc.labels[l] \in 0 .. Len(bc.code)
    BY <2>1, <2>2, <1>2 DEF Resolved
  <2> QED
    BY <2>1, <2>3, <1>6 DEF Addresses
<1>8. Finished' /\ ip' \in Addresses(bc')
  BY <1>1, <1>6, <1>7 DEF Finished, Addresses
<1>9. Runs(L)'
  <2>1. PICK hs \in [0 .. Len(f.code) -> Seq(Nat)], ns \in [0 .. Len(f.code) -> Nat] :
          Typed(f, L, max_try_depth', hs, ns, handlers', 0, starts')
    BY <1>1, <1>3 DEF CompileInv, Sound
  <2>2. hs[0] = <<>> /\ ns[0] = 0
    BY <2>1 DEF Typed
  <2>3. Addressed(<<>>)' = <<>>
    BY DEF Addressed
  <2>4. try_stack' = Addressed(hs[0])' /\ sp' = leaked' + ns[0]
    BY <1>1, <2>2, <2>3
  <2> QED
    BY <1>1, <2>1, <2>4 DEF Runs
<1>10. try_stack' \in Seq(Nat) /\ Len(try_stack') <= max_try_depth'
  BY <1>1, <1>3 DEF CompileInv
<1> QED
  BY <1>1, <1>8, <1>9, <1>10 DEF RunInv
-----------------------------------------------------------------------------
(* The inductive invariant.                                                *)
IInv ==
  \E L : /\ CompileInv(L)
         /\ \/ status = "compiling" /\ NotStarted
            \/ RunInv(L)

LEMMA CompilerStays ==
  ASSUME NEW L, CompileInv(L), UNCHANGED compiler
  PROVE  CompileInv(L)'
<1>1. /\ bc' = bc /\ blocks' = blocks /\ loops' = loops /\ try_depth' = try_depth
      /\ max_try_depth' = max_try_depth /\ handlers' = handlers /\ starts' = starts
      /\ steps' = steps
  BY DEF compiler
<1>2. Plain(L)
  BY <1>1, CompileFacts DEF Plain
<1> QED
  BY <1>2, PlainStep

LEMMA InitIInv == Init => IInv
<1> SUFFICES ASSUME Init PROVE IInv
  OBVIOUS
<1> DEFINE L == [l \in Nat |-> <<>>]
           hs == [a \in 0 .. 0 |-> <<>>]
           ns == [a \in 0 .. 0 |-> 0]
<1>1. /\ bc = EmptyBytecode /\ blocks = <<>> /\ loops = <<>>
      /\ try_depth = 0 /\ max_try_depth = 0 /\ handlers = <<>> /\ starts = {} /\ steps = 0
      /\ NotStarted /\ status = "compiling"
  BY DEF Init, NotStarted
<1>2. Resolved(bc) /\ bc.code = <<>> /\ bc.labels = <<>>
  BY <1>1, EmptyResolved
<1>3. Labels(bc) = {} /\ Addresses(bc) = {} /\ Len(bc.code) = 0
  BY <1>2 DEF Labels, Addresses
<1>4. /\ hs \in [0 .. 0 -> Seq(Nat)] /\ ns \in [0 .. 0 -> Nat]
      /\ \A a \in 0 .. 0 : hs[a] = <<>> /\ ns[a] = 0
      /\ hs[0] = <<>> /\ ns[0] = 0
  OBVIOUS
<1>5. L \in [Nat -> Seq(Nat)]
  OBVIOUS
<1> HIDE DEF L, hs, ns
<1>6. Handlers(bc, L, 0, <<>>)
  BY DEF Handlers
<1>7. Typed(bc, L, 0, hs, ns, <<>>, 0, {})
  BY <1>3, <1>4, <1>6 DEF Typed
<1>8. Sound(bc, L, max_try_depth, handlers, 0, starts)
  BY <1>1, <1>2, <1>3, <1>4, <1>7 DEF Sound
<1>9. LabelInv /\ BlockInv(L) /\ LoopInv(L)
  <2>1. LabelInv
    BY <1>3 DEF LabelInv
  <2>2. DOMAIN blocks = {} /\ Len(blocks) = 0 /\ blocks \in Seq(Block)
    BY <1>1
  <2>3. BlockInv(L)
    BY <1>1, <1>5, <2>2 DEF BlockInv, Around
  <2>4. LoopBlocks = {}
    BY <2>2 DEF LoopBlocks
  <2>5. DOMAIN loops = {} /\ loops \in Seq(LoopState)
    BY <1>1
  <2> QED
    BY <2>1, <2>3, <2>4, <2>5 DEF LoopInv
<1>10. steps \in 0 .. MaxSteps
  BY <1>1, StepsAssumption
<1>11. try_depth = Len(handlers) /\ max_try_depth \in Nat /\ try_depth <= max_try_depth
  BY <1>1
<1> QED
  BY <1>1, <1>8, <1>9, <1>10, <1>11 DEF IInv, CompileInv

(* One step per action; the statements with a body choose the handlers of  *)
(* their labels.                                                           *)
LEMMA StepIInv == IInv /\ [Next]_vars => IInv'
<1> SUFFICES ASSUME IInv, [Next]_vars PROVE IInv'
  OBVIOUS
<1>1. PICK L : CompileInv(L) /\ ((status = "compiling" /\ NotStarted) \/ RunInv(L))
  BY DEF IInv
<1>2. status = "compiling" <=> ~RunInv(L)
  BY <1>1 DEF RunInv
<1>3. CASE Execute
  <2>1. status = "running" /\ compiler' = compiler
    BY <1>3 DEF Execute, Push, PopOne, Jump, JumpIfFalse, Call, Throw, PushTry, PopTry,
         Catch, Return, Executes, Raise, compiler
  <2>2. RunInv(L)'
    BY <2>1, <1>1, <1>3, ExecuteStep
  <2>3. CompileInv(L)'
    BY <2>1, <1>1, CompilerStays
  <2> QED
    BY <2>2, <2>3 DEF IInv
<1>4. CASE EndFunction
  <2>1. NotStarted
    BY <1>1, <1>2, <1>4 DEF EndFunction
  <2>2. RunInv(L)' /\ CompileInv(L)'
    BY <2>1, <1>1, <1>4, StartStep, EndFunctionStep
  <2> QED
    BY <2>2 DEF IInv
<1>5. ASSUME Compile, ~EndFunction
      PROVE  IInv'
  <2>1. status = "compiling" /\ NotStarted
    BY <1>1, <1>2, <1>5 DEF Compile, ExpressionStatement, ThrowStatement, ReturnStatement,
         BreakStatement, ContinueStatement, WhileStatement, ForStatement, EndLoop, IfStatement,
         EndIf, EndElse, TryStatement, EndTry, EndCatch, Inside, Parsing
  <2>2. machine' = machine
    BY <1>5 DEF Compile, ExpressionStatement, ThrowStatement, ReturnStatement,
         BreakStatement, ContinueStatement, WhileStatement, ForStatement, EndLoop, IfStatement,
         EndIf, EndElse, TryStatement, EndTry, EndCatch, EnterLoop
  <2>3. status' = "compiling" /\ NotStarted'
    BY <2>1, <2>2 DEF machine, NotStarted
  <2>4. \E L2 : CompileInv(L2)'
    <3>1. CASE ExpressionStatement \/ ThrowStatement \/ ReturnStatement
      BY <3>1, <1>1, ExpressionStatementStep, ThrowStatementStep, ReturnStatementStep
    <3>2. CASE BreakStatement \/ ContinueStatement
      BY <3>2, <1>1, BreakStatementStep, ContinueStatementStep
    <3>3. CASE WhileStatement \/ ForStatement
      BY <3>3, <1>1, WhileStatementStep, ForStatementStep
    <3>4. CASE IfStatement \/ TryStatement
      BY <3>4, <1>1, IfStatementStep, TryStatementStep
    <3>5. CASE EndLoop \/ EndIf \/ EndElse
      BY <3>5, <1>1, EndLoopStep, EndIfStep, LastPartStep
    <3>6. CASE EndTry \/ EndCatch
      BY <3>6, <1>1, EndTryStep, LastPartStep
    <3> QED
      BY <3>1, <3>2, <3>3, <3>4, <3>5, <3>6, <1>5 DEF Compile
  <2> QED
    BY <2>3, <2>4 DEF IInv
<1>6. CASE UNCHANGED vars
  <2>1. /\ bc' = bc /\ blocks' = blocks /\ loops' = loops /\ try_depth' = try_depth
        /\ max_try_depth' = max_try_depth /\ handlers' = handlers /\ starts' = starts
        /\ steps' = steps
        /\ ip' = ip /\ sp' = sp /\ try_stack' = try_stack /\ leaked' = leaked
        /\ status' = status
    BY <1>6 DEF vars, compiler, machine
  <2>2. CompileInv(L)'
    <3>1. compiler' = compiler
      BY <1>6 DEF vars
    <3> QED
      BY <3>1, <1>1, CompilerStays
  <2>3. CASE status = "compiling" /\ NotStarted
    BY <2>1, <2>2, <2>3 DEF IInv, NotStarted
  <2>4. CASE RunInv(L)
    <3>1. RunInv(L)'
      BY <2>1, <2>4 DEF RunInv, Finished, Runs, Addressed
    <3> QED
      BY <2>2, <3>1 DEF IInv
  <2> QED
    BY <1>1, <2>3, <2>4
<1> QED
  BY <1>3, <1>4, <1>5, <1>6 DEF Next

LEMMA Invariance == Spec => []IInv
BY InitIInv, StepIInv, PTL DEF Spec
-----------------------------------------------------------------------------
LEMMA RunningFacts ==
  ASSUME IInv, status = "running"
  PROVE  \E L : \E hs \in [0 .. Len(bc.code) -> Seq(Nat)], ns \in [0 .. Len(bc.code) -> Nat] :
           /\ CompileInv(L) /\ RunInv(L)
           /\ Typed(bc, L, max_try_depth, hs, ns, handlers, 0, starts)
           /\ try_stack = Addressed(hs[ip]) /\ sp = leaked + ns[ip]
<1>1. PICK L : CompileInv(L) /\ RunInv(L)
  BY DEF IInv
<1>2. Runs(L)
  BY <1>1 DEF RunInv
<1>3. PICK hs \in [0 .. Len(bc.code) -> Seq(Nat)], ns \in [0 .. Len(bc.code) -> Nat] :
        /\ Typed(bc, L, max_try_depth, hs, ns, handlers, 0, starts)
        /\ try_stack = Addressed(hs[ip]) /\ sp = leaked + ns[ip]
  BY <1>2 DEF Runs
<1> QED
  BY <1>1, <1>3

LEMMA IInvTypes == IInv => TypeOK
<1> SUFFICES ASSUME IInv PROVE TypeOK
  OBVIOUS
<1>1. PICK L : CompileInv(L) /\ ((status = "compiling" /\ NotStarted) \/ RunInv(L))
  BY DEF IInv
<1>2. BlockInv(L) /\ LoopInv(L) /\ max_try_depth \in Nat /\ steps \in 0 .. MaxSteps
      /\ blocks \in Seq(Block) /\ handlers \in Seq(Nat) /\ try_depth = Len(handlers)
  BY <1>1 DEF CompileInv, BlockInv
<1>3. ASSUME NEW i \in DOMAIN loops
      PROVE  loops[i].try_depth \in Nat
  <2> DEFINE g == L[loops[i].break_label]
             w == Within(L, i)
  <2>1. g \in Seq(Nat) /\ IsPrefixOf(g, w) /\ loops[i].try_depth = Len(w) - Len(g)
        /\ loops[i] \in LoopState
    BY <1>2, LoopFacts DEF LoopInv
  <2> HIDE DEF g, w
  <2>2. Len(g) \in Nat /\ Len(g) <= Len(w)
    BY <2>1 DEF IsPrefixOf
  <2>3. loops[i].try_depth \in Int
    BY <2>1 DEF LoopState
  <2>4. Len(w) \in Nat
    <3>1. CASE i = Len(loops)
      BY <3>1, <1>2 DEF w, Within
    <3>2. CASE i # Len(loops)
      <4>1. i + 1 \in DOMAIN loops
        BY <3>2, <1>2 DEF LoopInv
      <4>2. L[loops[i + 1].break_label] \in Seq(Nat)
        BY <4>1, <1>2, LoopFacts
      <4> QED
        BY <3>2, <4>2 DEF w, Within
    <3> QED
      BY <3>1, <3>2
  <2> QED
    BY <2>1, <2>2, <2>3, <2>4
<1>4. /\ ip \in Nat /\ sp \in Nat /\ leaked \in Nat
      /\ status # "compiling" => ip \in Addresses(bc)
      /\ status \in {"compiling", "running", "returned", "failed"}
      /\ Len(try_stack) <= max_try_depth
  <2>1. CASE status = "compiling" /\ NotStarted
    BY <2>1, <1>2 DEF NotStarted
  <2>2. CASE RunInv(L)
    <3>1. Len(bc.code) \in Nat
      BY <1>1, CompileFacts
    <3> QED
      BY <2>2, <3>1 DEF RunInv, Addresses
  <2> QED
    BY <1>1, <2>1, <2>2
<1>5. ASSUME status = "running"
      PROVE  /\ Instr.op \in {"POP_TRY", "CATCH"} => try_stack # <<>>
             /\ sp <= leaked + stack_size
  <2>0. PICK K : \E hs \in [0 .. Len(bc.code) -> Seq(Nat)], ns \in [0 .. Len(bc.code) -> Nat] :
          /\ CompileInv(K) /\ RunInv(K)
          /\ Typed(bc, K, max_try_depth, hs, ns, handlers, 0, starts)
          /\ try_stack = Addressed(hs[ip]) /\ sp = leaked + ns[ip]
    BY <1>5, RunningFacts
  <2>1. PICK hs \in [0 .. Len(bc.code) -> Seq(Nat)], ns \in [0 .. Len(bc.code) -> Nat] :
          /\ CompileInv(K) /\ RunInv(K)
          /\ Typed(bc, K, max_try_depth, hs, ns, handlers, 0, starts)
          /\ try_stack = Addressed(hs[ip]) /\ sp = leaked + ns[ip]
    BY <2>0
  <2>2. Resolved(bc) /\ Finished /\ ip \in Addresses(bc) /\ bc \in Bytecodes
    BY <2>1, ResolvedNow, CompileFacts DEF RunInv
  <2>3. /\ Fits(Instr.op, Instr.label, K, hs[ip], ns[ip], hs[ip + 1], ns[ip + 1])
        /\ hs[ip] \in Seq(Nat) /\ ns[ip] \in Nat /\ ip \in 0 .. Len(bc.code)
    BY <2>1, <2>2, InstrFacts
  <2>4. Instr.op \in {"POP_TRY", "CATCH"} => try_stack # <<>>
    BY <2>1, <2>3, AddressedFacts DEF Fits
  <2>5. ns[ip] <= stack_size /\ stack_size \in Nat
    <3>1. ns[0] = 0
      BY <2>1 DEF Typed
    <3>2. \A a \in Addresses(bc) : ns[a + 1] <= ns[a] + StackEffect(bc.code[a + 1].op)
      BY <2>1 DEF Typed, Fits
    <3> QED
      BY <2>2, <2>3, <3>1, <3>2, OperandsWithin, StackSizeBounds
  <2> QED
    BY <2>1, <2>3, <2>4, <2>5, <1>4
<1>6. Len(handlers) \in Nat
  BY <1>2
<1> QED
  BY <1>2, <1>3, <1>4, <1>5, <1>6 DEF TypeOK, TryStackInBounds, OperandsFit

(* The try stack is never pushed beyond its entries nor popped when empty, *)
(* and the operands fit in the room create_code computes, whatever the     *)
(* program and wherever its calls fail.                                    *)
THEOREM TypeCorrect == Spec => []TypeOK
BY Invariance, IInvTypes, PTL

LEMMA IInvJumps == IInv => JumpsLand
<1> SUFFICES ASSUME IInv PROVE JumpsLand
  OBVIOUS
<1>1. PICK L : CompileInv(L) /\ ((status = "compiling" /\ NotStarted) \/ RunInv(L))
  BY DEF IInv
<1>2. JumpsResolve(bc)
  BY <1>1, ResolvedNow DEF Resolved
<1>3. ASSUME status # "compiling"
      PROVE  bc.pending = {}
  <2>1. \A l \in Labels(bc) : bc.labels[l] # Unmarked
    BY <1>1, <1>3 DEF RunInv, CompileInv, LabelInv
  <2> QED
    BY <2>1, <1>2 DEF JumpsResolve
<1> QED
  BY <1>2, <1>3 DEF JumpsLand

(* bytecode_finalize never finds a jump whose label was not marked, and    *)
(* each jump of the code names its label's address.                        *)
THEOREM JumpsAlwaysLand == Spec => []JumpsLand
BY Invariance, IInvJumps, PTL

LEMMA IInvHandlers == IInv => HandlersMatchBlocks /\ StatementsBalanced
<1> SUFFICES ASSUME IInv, status = "running", NEW s \in starts, s.address = ip
             PROVE  /\ try_stack = [i \in DOMAIN s.handlers |-> bc.labels[s.handlers[i]]]
                    /\ sp = leaked
  BY DEF HandlersMatchBlocks, StatementsBalanced
<1>0. PICK L : \E hs \in [0 .. Len(bc.code) -> Seq(Nat)], ns \in [0 .. Len(bc.code) -> Nat] :
        /\ CompileInv(L) /\ RunInv(L)
        /\ Typed(bc, L, max_try_depth, hs, ns, handlers, 0, starts)
        /\ try_stack = Addressed(hs[ip]) /\ sp = leaked + ns[ip]
  BY RunningFacts
<1>1. PICK hs \in [0 .. Len(bc.code) -> Seq(Nat)], ns \in [0 .. Len(bc.code) -> Nat] :
        /\ CompileInv(L) /\ RunInv(L)
        /\ Typed(bc, L, max_try_depth, hs, ns, handlers, 0, starts)
        /\ try_stack = Addressed(hs[ip]) /\ sp = leaked + ns[ip]
  BY <1>0
<1>2. hs[ip] = s.handlers /\ ns[ip] = 0
  BY <1>1 DEF Typed
<1>3. leaked \in Nat
  BY <1>1 DEF RunInv
<1> QED
  BY <1>1, <1>2, <1>3 DEF Addressed

(* Wherever control comes from - the end of a loop, break and continue out *)
(* of try blocks, a caught error - a statement starts under the handlers   *)
(* of the try blocks around it.                                            *)
THEOREM HandlersAlwaysMatch == Spec => []HandlersMatchBlocks
BY Invariance, IInvHandlers, PTL

(* And it starts with no operand above those under the last error caught.  *)
THEOREM StatementsAlwaysBalanced == Spec => []StatementsBalanced
BY Invariance, IInvHandlers, PTL
=============================================================================
