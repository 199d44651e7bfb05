---------------------------- MODULE Activations -----------------------------
(***************************************************************************)
(* What a call promises: every call has its own variables and operands, a  *)
(* caller finds its operands as it left them with the result on top, and   *)
(* an error goes to the innermost try statement entered and not left, in   *)
(* the nearest activation that has one.                                    *)
(*                                                                         *)
(* A try statement is entered between two statements, with no operands     *)
(* anyone will use.  After a catch the error is on top; what is below it   *)
(* is not promised.                                                        *)
(***************************************************************************)
EXTENDS Integers, Sequences, SequencesExt, Functions

CONSTANTS
  Code,      \* of each function, [kind, params, required, locals]
  Elements,  \* of each array, the sequence of its elements
  BoundTo,   \* of each bound method, [method, receiver]
  MethodOf,  \* of each struct, its method
  Constants, \* the values a literal or a global can have
  Error,     \* the value of an error that the machine raises
  Limit,     \* one more than the number of activations there can be
  None

VARIABLES
  acts,   \* the activations, innermost last
  error,  \* the error being raised, or None
  trace   \* the functions it has left, outermost first

vars == <<acts, error, trace>>

(* this is the receiver of a method; tries counts the try statements that  *)
(* were entered and not left.                                              *)
Activation(fn, args, this) ==
  [fn |-> fn, vars |-> args, operands |-> <<>>, this |-> this, tries |-> 0]

Script == Activation(None, <<>>, None)
Init == acts = <<Script>> /\ error = None /\ trace = <<>>

Innermost == Last(acts)
Operands == Innermost.operands
Without(s, n) == SubSeq(s, 1, Len(s) - n)
Lasts(s, n) == SubSeq(s, Len(s) - n + 1, Len(s))
Callable == DOMAIN Code \cup DOMAIN BoundTo
-----------------------------------------------------------------------------
(* An instruction that is the innermost activation's own business takes it *)
(* from a to b.                                                            *)
Computes(a, b) ==
  LET top == Last(a.operands) IN
  \/ /\ Len(b.operands) > Len(a.operands)
     /\ \E v \in Constants \cup Range(a.vars) \cup {a.this} :
          b = [a EXCEPT !.operands = Append(@, v)]
  \/ /\ a.operands # <<>>
     /\ \/ b = [a EXCEPT !.operands = Front(@)]
        \/ \E i \in DOMAIN a.vars : b = [a EXCEPT !.vars[i] = top]
        \/ b = [a EXCEPT !.vars = Append(@, top)]
        \/ b = [a EXCEPT !.vars = Append(@, top), !.operands = Front(@)]  \* a default
        \/ /\ top \in DOMAIN MethodOf
           /\ b = [a EXCEPT !.operands = Append(@, MethodOf[top])]
  \/ b = [a EXCEPT !.tries = @ + 1]
  \/ a.tries > 0 /\ b = [a EXCEPT !.tries = @ - 1]
Compute ==
  /\ Len(acts') = Len(acts)
  /\ Computes(Innermost, Last(acts')) /\ Front(acts') = Front(acts)
  /\ UNCHANGED <<error, trace>>

(* The innermost of the activations as meets the error e, which has left   *)
(* the functions tr.                                                       *)
Fail(as, e, tr) ==
  LET a == Last(as)
      left == Last(acts').operands  \* after a catch
  IN  IF a.tries = 0
      THEN /\ acts' = Append(Front(as), [a EXCEPT !.operands = <<>>])
           /\ error' = e /\ trace' = <<a.fn>> \o tr
      ELSE /\ Len(acts') = Len(as)
           /\ left # <<>> /\ Last(left) = e
           /\ acts' = Append(Front(as), [a EXCEPT !.tries = @ - 1, !.operands = left])
           /\ error' = None /\ trace' = <<>>

Throw == Fail(Append(Front(acts), [Innermost EXCEPT !.operands = Front(@)]),
              Last(Operands), <<>>)

(* Too few arguments, or too deep, is an error: of the caller, of the      *)
(* function called.                                                        *)
Enter(fn, args, this, gone) ==
  LET params == Code[fn].params
      callee == Activation(fn, IF Len(args) > params THEN SubSeq(args, 1, params)
                               ELSE args, this)
      all == Append(Front(acts),
                    [Innermost EXCEPT !.operands = Without(@, gone)]) \o <<callee>>
  IN  IF Len(args) < Code[fn].required THEN Fail(acts, Error, <<>>)
      ELSE IF Len(all) >= Limit THEN Fail(all, Error, <<>>)
      ELSE acts' = all /\ UNCHANGED <<error, trace>>

(* A native function answers with a constant, or fails.                    *)
Answer(gone) ==
  \/ \E v \in Constants :
       /\ acts' = Append(Front(acts),
                    [Innermost EXCEPT !.operands = Append(Without(@, gone), v)])
       /\ UNCHANGED <<error, trace>>
  \/ Fail(acts, Error, <<>>)

(* fn(args), or receiver.fn(args); gone counts the operands this takes.    *)
CallOf(fn, args, this, gone) ==
  IF fn \notin Callable THEN Fail(acts, Error, <<>>)
  ELSE IF fn \in DOMAIN BoundTo
       THEN Enter(BoundTo[fn].method, args, BoundTo[fn].receiver, gone)
  ELSE IF Len(args) < Code[fn].required THEN Fail(acts, Error, <<>>)
  ELSE IF Code[fn].kind = "user" THEN Enter(fn, args, this, gone)
  ELSE IF Code[fn].kind = "native" THEN Answer(gone)
  ELSE \* apply(function, array), but of a bound method
       IF args[1] \notin DOMAIN Code \/ args[2] \notin DOMAIN Elements
       THEN Fail(acts, Error, <<>>)
       ELSE IF Code[args[1]].kind # "user" THEN Answer(gone)
       ELSE Enter(args[1], Elements[args[2]], None, gone)

Call(n) ==
  /\ Len(Operands) > n
  /\ CallOf(Operands[Len(Operands) - n], Lasts(Operands, n), None, n + 1)
CallMethod(n) ==
  /\ Len(Operands) > n + 1
  /\ LET receiver == Operands[Len(Operands) - n - 1] IN
       /\ receiver \in DOMAIN MethodOf
       /\ Operands[Len(Operands) - n] = MethodOf[receiver]
       /\ CallOf(MethodOf[receiver], Lasts(Operands, n), receiver, n + 2)

Return ==
  LET caller == Last(Front(acts)) IN
  /\ Innermost.fn # None /\ Operands # <<>>
  /\ acts' = Append(Front(Front(acts)),
                    [caller EXCEPT !.operands = Append(@, Last(Operands))])
  /\ UNCHANGED <<error, trace>>

(* A script, the body of a module, runs inside the activation that imports *)
(* it; the program ends with the first.                                    *)
Import ==
  LET all == Append(acts, Script) IN
  IF Len(all) >= Limit THEN Fail(all, Error, <<>>)
  ELSE acts' = all /\ UNCHANGED <<error, trace>>
Halt == Innermost.fn = None /\ acts' = Front(acts) /\ UNCHANGED <<error, trace>>

Run ==
  \/ Compute \/ Import \/ Halt
  \/ /\ Operands # <<>>
     /\ \/ Throw \/ Return
        \/ Last(Operands) \notin DOMAIN MethodOf /\ Fail(acts, Error, <<>>)
        \/ \E n \in 0 .. Len(Operands) - 1 : Call(n) \/ CallMethod(n)

(* An error leaves an activation that has no handler for it; with the last *)
(* the program ends.                                                       *)
Unwind ==
  IF Len(acts) = 1 THEN acts' = <<>> /\ error' = None /\ trace' = <<>>
  ELSE Fail(Front(acts), error, trace)

Next == IF error = None THEN acts # <<>> /\ Run ELSE Unwind
Spec == Init /\ [][Next]_vars
=============================================================================
