------------------------------ MODULE Bytecode ------------------------------
(***************************************************************************)
(* compiler.c: the array of instructions the single-pass compiler appends  *)
(* to, its labels, and the jumps that wait for a label still to be marked. *)
(* Operators return the new struct cb_bytecode.                            *)
(***************************************************************************)
EXTENDS Integers, Sequences

Unmarked == -1  \* label_addresses of a label before bytecode_mark_label
NoLabel == 0    \* of an instruction that does not name an address

(* code[a + 1] is the instruction at address a.  label is history: the     *)
(* label the instruction was emitted for.                                  *)
EmptyBytecode == [code |-> <<>>, labels |-> <<>>, pending |-> {}]

Addresses(bc) == 0 .. Len(bc.code) - 1
Labels(bc) == DOMAIN bc.labels

(* bytecode_push of an instruction that does not jump                      *)
Emit(bc, op) ==
  [bc EXCEPT !.code = Append(@, [op |-> op, arg |-> 0, label |-> NoLabel])]

(* bytecode_label; the new label is the last one                           *)
NewLabel(bc) == [bc EXCEPT !.labels = Append(@, Unmarked)]

(* bytecode_push with bytecode_address_of: the address of the label, or 0  *)
(* and a pending address.                                                  *)
EmitJump(bc, op, l) ==
  IF bc.labels[l] = Unmarked
  THEN [bc EXCEPT !.code = Append(@, [op |-> op, arg |-> 0, label |-> l]),
                  !.pending = @ \cup {[label |-> l, address |-> Len(bc.code)]}]
  ELSE [bc EXCEPT !.code = Append(@, [op |-> op, arg |-> bc.labels[l], label |-> l])]

(* Mutant of Mark: only the last jump that waits for the label is patched. *)
MarkPatchesOne(bc, l) ==
  LET waiting == {p \in bc.pending : p.label = l}
      last == {p \in waiting : \A q \in waiting : q.address <= p.address}
  IN  [code |-> [i \in DOMAIN bc.code |->
                   IF \E p \in last : p.address = i - 1
                   THEN [bc.code[i] EXCEPT !.arg = Len(bc.code)] ELSE bc.code[i]],
       labels |-> [bc.labels EXCEPT ![l] = Len(bc.code)],
       pending |-> bc.pending \ waiting]

(* bytecode_mark_label                                                     *)
Mark(bc, l) ==
  LET waiting == {p \in bc.pending : p.label = l}
  IN  [code |-> [i \in DOMAIN bc.code |->
                   IF \E p \in waiting : p.address = i - 1
                   THEN [bc.code[i] EXCEPT !.arg = Len(bc.code)] ELSE bc.code[i]],
       labels |-> [bc.labels EXCEPT ![l] = Len(bc.code)],
       pending |-> bc.pending \ waiting]

(* Every jump names the address of its label, or is pending because the    *)
(* label is not marked yet; only jumps are pending.                        *)
JumpsResolve(bc) ==
  /\ \A a \in Addresses(bc) : LET instr == bc.code[a + 1] IN
       instr.label # NoLabel =>
         /\ instr.label \in Labels(bc)
         /\ IF bc.labels[instr.label] = Unmarked
            THEN [label |-> instr.label, address |-> a] \in bc.pending
            ELSE instr.arg = bc.labels[instr.label]
  /\ \A p \in bc.pending :
       /\ p.address \in Addresses(bc) /\ p.label \in Labels(bc)
       /\ bc.code[p.address + 1].label = p.label
       /\ bc.labels[p.label] = Unmarked
=============================================================================
