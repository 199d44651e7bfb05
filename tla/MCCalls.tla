------------------------------ MODULE MCCalls -------------------------------
(***************************************************************************)
(* Calls with a function f(a, b = ...) of one local, a struct obj with a   *)
(* method, a native function, apply, and the method bound to obj.          *)
(***************************************************************************)
EXTENDS Calls

CONSTANT MethodParams  \* the parameters of the method

Function(kind, params, required, locals, operands) ==
  [kind |-> kind, params |-> params, required |-> required, locals |-> locals,
   operands |-> operands]

MCCode == [f |-> Function("user", 1, 0, 1, 1),
           method |-> Function("user", MethodParams, MethodParams, 0, 1),
           nat |-> Function("native", 1, 1, 0, 0),
           apply |-> Function("apply", 2, 2, 0, 0)]
MCElements == [arr |-> <<"null">>]
MCBoundTo == [bound |-> [method |-> "method", receiver |-> "obj"]]
MCMethodOf == [obj |-> "method"]
=============================================================================
