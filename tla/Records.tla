------------------------------ MODULE Records -------------------------------
(***************************************************************************)
(* What a struct promises (README.md, Struct): an array with named indices, *)
(* null where nothing was assigned, and the methods that its declaration   *)
(* made; an access to anything else is an error.                           *)
(***************************************************************************)
EXTENDS Functions

CONSTANTS
  Objects,   \* the structs there can be
  Names,
  Values,
  Methods,   \* functions that are methods
  Null,
  Error,     \* the outcome of a failed access
  None

VARIABLES
  fields,   \* of each struct, its values by name; None if there is none
  methods,  \* of each struct, its methods by name
  result,   \* of the last access: [of, value], of the receiver of a method
  named     \* the name the last access used

vars == <<fields, methods, result, named>>

Init ==
  /\ fields = [o \in Objects |-> None] /\ methods = [o \in Objects |-> None]
  /\ result = [of |-> None, value |-> Null] /\ named = None

Plain(v) == [of |-> None, value |-> v]
Exists == {o \in Objects : fields[o] # None}
Has(r, n) == n \in DOMAIN r

Create(o) ==
  LET fs == fields'[o]
      ms == methods'[o]
  IN  /\ o \notin Exists /\ UNCHANGED <<result, named>>
      /\ fields' = [fields EXCEPT ![o] = fs] /\ methods' = [methods EXCEPT ![o] = ms]
      /\ fs # None /\ Range(fs) \subseteq {Null} /\ Range(ms) \subseteq Methods

Forget(o) ==
  /\ fields' = [fields EXCEPT ![o] = None] /\ methods' = [methods EXCEPT ![o] = None]
  /\ UNCHANGED <<result, named>>

(* s.n                                                                     *)
Get(o, n) ==
  /\ named' = n /\ UNCHANGED <<fields, methods>>
  /\ result' = IF Has(fields[o], n) THEN Plain(fields[o][n])
               ELSE IF Has(methods[o], n) THEN [of |-> o, value |-> methods[o][n]]
               ELSE Plain(Error)

(* What s.n(...) calls: a method before a field.                           *)
Callee(o, n) ==
  /\ named' = n /\ UNCHANGED <<fields, methods>>
  /\ result' = IF Has(methods[o], n) THEN Plain(methods[o][n])
               ELSE IF Has(fields[o], n) THEN Plain(fields[o][n])
               ELSE Plain(Error)

(* s.n = v, and structs::get, which sees no methods                        *)
Set(o, n) ==
  /\ named' = n
  /\ IF Has(fields[o], n)
     THEN \E v \in Values : /\ fields' = [fields EXCEPT ![o][n] = v]
                            /\ UNCHANGED <<methods, result>>
     ELSE result' = Plain(Error) /\ UNCHANGED <<fields, methods>>
GetField(o, n) ==
  /\ named' = n /\ UNCHANGED <<fields, methods>>
  /\ result' = IF Has(fields[o], n) THEN Plain(fields[o][n]) ELSE Plain(Error)
GetMethod(o, n) ==
  /\ named' = n /\ UNCHANGED <<fields, methods>>
  /\ result' = IF Has(methods[o], n) THEN Plain(methods[o][n]) ELSE Plain(Error)

Next ==
  \/ \E o \in Objects : Create(o)
  \/ \E o \in Exists :
       \/ Forget(o)
       \/ \E n \in Names :
            Get(o, n) \/ Callee(o, n) \/ Set(o, n) \/ GetField(o, n) \/ GetMethod(o, n)

Spec == Init /\ [][Next]_vars
=============================================================================
