---------------------------- MODULE LexicalScope ----------------------------
(***************************************************************************)
(* What README.md (Scoping Rules) promises of variables and closures: a    *)
(* variable keeps its own value for as long as it is in scope or some      *)
(* closure captures it, only an assignment to it changes that value, and a *)
(* closure refers to variables, not to places.                             *)
(***************************************************************************)
EXTENDS Sequences, Functions

CONSTANTS Vars, Values, Closures

VARIABLES
  value,    \* the variables that exist, with their values
  captured  \* for each closure, the variables it closes over

vars == <<value, captured>>

CapturedBy(cap) == UNION {Range(cap[c]) : c \in DOMAIN cap}

Init == value = <<>> /\ captured = <<>>

Declare(x, v) ==
  /\ x \notin DOMAIN value
  /\ value' = [y \in DOMAIN value \cup {x} |-> IF y = x THEN v ELSE value[y]]
  /\ UNCHANGED captured

Assign(x, v) ==
  /\ x \in DOMAIN value
  /\ value' = [value EXCEPT ![x] = v]
  /\ UNCHANGED captured

NewClosure(c) ==
  /\ c \notin DOMAIN captured
  /\ captured' = [d \in DOMAIN captured \cup {c} |->
                    IF d = c THEN <<>> ELSE captured[d]]
  /\ UNCHANGED value

Capture(c, x) ==
  /\ c \in DOMAIN captured /\ x \in DOMAIN value
  /\ captured' = [captured EXCEPT ![c] = Append(@, x)]
  /\ UNCHANGED value

(* Closures die, and variables that nothing refers to any more with them.  *)
Discard(live, kept) ==
  /\ captured' = Restrict(captured, live)
  /\ CapturedBy(captured') \subseteq kept
  /\ value' = Restrict(value, kept)

Next ==
  \/ \E x \in Vars, v \in Values : Declare(x, v) \/ Assign(x, v)
  \/ \E c \in Closures : NewClosure(c)
  \/ \E c \in Closures, x \in Vars : Capture(c, x)
  \/ \E live \in SUBSET DOMAIN captured, kept \in SUBSET DOMAIN value :
       Discard(live, kept)

Spec == Init /\ [][Next]_vars
=============================================================================
