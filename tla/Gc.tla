--------------------------------- MODULE Gc ---------------------------------
(***************************************************************************)
(* gc.c and the mark functions of value.c, struct.c and code.c: the        *)
(* mark-and-sweep collector.  A collection runs inside an allocation and   *)
(* nothing runs beside it, but its loops are modelled step by step: the    *)
(* roots, the mark queue, the sweep of the list of objects.                *)
(***************************************************************************)
EXTENDS Integers, Sequences, FiniteSets, Functions

CONSTANTS
  Objs,       \* addresses of objects with a cb_gc_header
  Kind,       \* what lives at each
  Size,       \* and its size
  Threshold,  \* GC_INITIAL_THRESHOLD
  GrowFactor, \* GC_HEAP_GROW_FACTOR
  MaxRefs,    \* bound on the references held by one object
  Cycles,     \* whether the program builds cycles of arrays alone
  None        \* no allocation is in progress

Kinds == {"leaf", "array", "struct", "spec", "function", "code"}

ASSUME ObjAssumption ==
  /\ Kind \in [Objs -> Kinds]
  /\ Size \in [Objs -> Nat]
  /\ None \notin Objs
  /\ Threshold \in Nat /\ GrowFactor \in Nat /\ MaxRefs \in Nat
  /\ Cycles \in BOOLEAN

VARIABLES
  refs,       \* the allocated objects, each with the objects it refers to
  roots,      \* what stack, globals, pending error and held objects refer to
  allocated,  \* the list of objects, newest first; what sweep has yet to see
  swept,      \* the part of the list sweep has gone past
  amount,     \* amount_allocated
  threshold,  \* next_allocation_threshold
  enabled,    \* gc_enabled
  mark,       \* the objects whose mark is set
  scan,       \* the roots mark() has yet to visit
  queue,      \* mark_queue
  pending,    \* the allocation the collection runs in, or None
  phase       \* "run", "roots", "queue" or "sweep"

vars == <<refs, roots, allocated, swept, amount, threshold, enabled, mark,
          scan, queue, pending, phase>>

Live == DOMAIN refs
Children(o) == Range(refs[o])

(* What the program can reach from a set of objects.                       *)
Closed(S) == \A o \in S \cap Live : Children(o) \subseteq S
Reach(S) == {o \in Objs : \A C \in SUBSET Objs : (S \subseteq C /\ Closed(C)) => o \in C}

(* The objects whose mark function returns early when they are marked.     *)
TestsMark(o) == Kind[o] \in {"struct", "spec", "function"}

(* The objects that can be reached through objects of the other kinds only. *)
UntestedClosed(S) == \A o \in S \cap Live : TestsMark(o) \/ Children(o) \subseteq S
UntestedReach(S) ==
  {o \in Objs : \A C \in SUBSET Objs : (S \subseteq C /\ UntestedClosed(C)) => o \in C}

Running == phase = "run"
ShouldCollect == enabled /\ amount > threshold

collector == <<swept, mark, scan, queue, phase>>
-----------------------------------------------------------------------------
(* The references an object is created with: a function its code, a struct *)
(* its spec.                                                               *)
Creates(o, rs) ==
  CASE Kind[o] = "function" -> Len(rs) = 1 /\ Kind[rs[1]] = "code"
    [] Kind[o] = "struct" -> Len(rs) = 1 /\ Kind[rs[1]] = "spec"
    [] OTHER -> rs = <<>>

(* Mutant of Register: the list is kept oldest first.                       *)
RegisterLast(o, rs) ==
  /\ refs' = [p \in Live \cup {o} |-> IF p = o THEN rs ELSE refs[p]]
  /\ allocated' = Append(allocated, o)
  /\ amount' = amount + Size[o]
  /\ roots' = roots \cup {o}
  /\ pending' = None

(* cb_gc_register; the new object goes on the stack.                       *)
Register(o, rs) ==
  /\ refs' = [p \in Live \cup {o} |-> IF p = o THEN rs ELSE refs[p]]
  /\ allocated' = <<o>> \o allocated
  /\ amount' = amount + Size[o]
  /\ roots' = roots \cup {o}
  /\ pending' = None

(* mark(): every root is visited once, then the queue is evaluated.        *)
BeginMark ==
  /\ phase' = "roots"
  /\ scan' = roots
  /\ UNCHANGED <<refs, roots, allocated, amount, swept, mark, queue>>

(* cb_gc_alloc of an object that refers to objects the program holds.       *)
Alloc(o, rs) ==
  /\ Running /\ pending = None
  /\ o \notin Live /\ Creates(o, rs)
  /\ IF ShouldCollect
     THEN BeginMark /\ pending' = [obj |-> o, refs |-> rs]
     ELSE Register(o, rs) /\ UNCHANGED collector
  /\ UNCHANGED <<threshold, enabled>>

FinishAlloc ==
  /\ Running /\ pending # None
  /\ Register(pending.obj, pending.refs)
  /\ UNCHANGED <<collector, threshold, enabled>>

(* __gc_collect, and the last collections of run_file.                     *)
Collect ==
  /\ Running /\ pending = None
  /\ BeginMark
  /\ UNCHANGED <<pending, threshold, enabled>>

Enable ==
  /\ Running /\ pending = None /\ ~enabled
  /\ enabled' = TRUE
  /\ UNCHANGED <<refs, roots, allocated, amount, threshold, pending, collector>>

-----------------------------------------------------------------------------
(* The program pushes something it can reach, or lets go of a root.        *)
Push(o) ==
  /\ Running /\ pending = None /\ o \in Reach(roots) \ roots
  /\ roots' = roots \cup {o}
  /\ UNCHANGED <<refs, allocated, amount, threshold, enabled, pending, collector>>

Drop(o) ==
  /\ Running /\ pending = None /\ o \in roots
  /\ roots' = roots \ {o}
  /\ UNCHANGED <<refs, allocated, amount, threshold, enabled, pending, collector>>

(* The objects whose references the program changes: elements, fields,     *)
(* methods and the values of closed upvalues.                              *)
CanRefer(o, p) ==
  CASE Kind[o] \in {"array", "struct", "function"} -> Kind[p] # "code"
    [] Kind[o] = "spec" -> Kind[p] = "function"
    [] Kind[o] = "code" -> Kind[p] \in {"code", "spec"}
    [] OTHER -> FALSE

(* A store of p into o.                                                    *)
Link(o, p) ==
  /\ Running /\ pending = None
  /\ {o, p} \subseteq roots /\ CanRefer(o, p) /\ Len(refs[o]) < MaxRefs
  /\ o \in UntestedReach({p}) => Cycles \/ TestsMark(o)
  /\ refs' = [refs EXCEPT ![o] = Append(@, p)]
  /\ UNCHANGED <<roots, allocated, amount, threshold, enabled, pending, collector>>

(* The last reference of o is overwritten, a function's code and a         *)
(* struct's spec excepted.                                                 *)
Unlink(o) ==
  /\ Running /\ pending = None /\ o \in roots
  /\ Len(refs[o]) > IF Kind[o] \in {"function", "struct"} THEN 1 ELSE 0
  /\ refs' = [refs EXCEPT ![o] = SubSeq(@, 1, Len(@) - 1)]
  /\ UNCHANGED <<roots, allocated, amount, threshold, enabled, pending, collector>>

-----------------------------------------------------------------------------
marking == <<refs, roots, allocated, swept, amount, threshold, enabled, pending>>

(* Mutants of Visit: the children of an array are not queued; a struct is  *)
(* visited again when it is marked.                                        *)
VisitShallow(o, q) ==
  IF TestsMark(o) /\ o \in mark
  THEN queue' = q /\ UNCHANGED mark
  ELSE /\ mark' = mark \cup {o}
       /\ queue' = IF Kind[o] = "array" THEN q ELSE refs[o] \o q

VisitAgain(o, q) ==
  /\ mark' = mark \cup {o}
  /\ queue' = refs[o] \o q

(* A mark function called on o when q is queued.  What it marks by a direct *)
(* call (a struct's spec, a function's code, a spec's methods) is put at    *)
(* the head of the queue with what it queues: the same depth-first order.   *)
Visit(o, q) ==
  IF TestsMark(o) /\ o \in mark
  THEN queue' = q /\ UNCHANGED mark
  ELSE mark' = mark \cup {o} /\ queue' = refs[o] \o q

MarkRoot ==
  /\ phase = "roots" /\ \E o \in scan : Visit(o, queue) /\ scan' = scan \ {o}
  /\ UNCHANGED <<marking, phase>>

(* Mutant of RootsDone: the queue may be evaluated before all roots are in. *)
RootsDoneEarly ==
  /\ phase = "roots"
  /\ phase' = "queue"
  /\ UNCHANGED <<marking, mark, queue, scan>>

RootsDone ==
  /\ phase = "roots" /\ scan = {}
  /\ phase' = "queue"
  /\ UNCHANGED <<marking, mark, queue, scan>>

(* evaluate_mark_queue                                                     *)
EvaluateQueue ==
  /\ phase = "queue" /\ queue # <<>>
  /\ Visit(Head(queue), Tail(queue))
  /\ UNCHANGED <<marking, scan, phase>>

MarkDone ==
  /\ phase = "queue" /\ queue = <<>>
  /\ phase' = "sweep"
  /\ UNCHANGED <<marking, mark, queue, scan>>

sweeping == <<roots, threshold, enabled, pending, scan, queue, phase>>

SweepFree ==
  /\ phase = "sweep" /\ allocated # <<>> /\ Head(allocated) \notin mark
  /\ refs' = Restrict(refs, Live \ {Head(allocated)})
  /\ amount' = amount - Size[Head(allocated)]
  /\ allocated' = Tail(allocated)
  /\ UNCHANGED <<sweeping, mark, swept>>

(* Mutant of SweepKeep: the mark stays set.                                *)
SweepKeepMarked ==
  /\ phase = "sweep" /\ allocated # <<>> /\ Head(allocated) \in mark
  /\ swept' = Append(swept, Head(allocated))
  /\ allocated' = Tail(allocated)
  /\ UNCHANGED <<sweeping, refs, mark, amount>>

SweepKeep ==
  /\ phase = "sweep" /\ allocated # <<>> /\ Head(allocated) \in mark
  /\ mark' = mark \ {Head(allocated)}
  /\ swept' = Append(swept, Head(allocated))
  /\ allocated' = Tail(allocated)
  /\ UNCHANGED <<sweeping, refs, amount>>

(* Mutant of EndCollection: the list starts at the last object kept.       *)
EndCollectionShort ==
  /\ phase = "sweep" /\ allocated = <<>>
  /\ allocated' = IF swept = <<>> THEN <<>> ELSE Tail(swept)
  /\ swept' = <<>>
  /\ threshold' = amount * GrowFactor
  /\ phase' = "run"
  /\ UNCHANGED <<refs, roots, amount, enabled, mark, scan, queue, pending>>

EndCollection ==
  /\ phase = "sweep" /\ allocated = <<>>
  /\ allocated' = swept /\ swept' = <<>>
  /\ threshold' = amount * GrowFactor
  /\ phase' = "run"
  /\ UNCHANGED <<refs, roots, amount, enabled, mark, scan, queue, pending>>

-----------------------------------------------------------------------------
Init ==
  /\ refs = <<>> /\ roots = {}
  /\ allocated = <<>> /\ swept = <<>>
  /\ amount = 0 /\ threshold = Threshold /\ enabled = FALSE
  /\ mark = {} /\ scan = {} /\ queue = <<>>
  /\ pending = None /\ phase = "run"

Mutate ==
  \/ \E o \in Objs : \E rs \in {<<>>} \cup [1 .. 1 -> Reach(roots)] : Alloc(o, rs)
  \/ Collect
  \/ Enable
  \/ \E o \in Objs : Push(o) \/ Drop(o)
  \/ \E o, p \in Objs : Link(o, p)
  \/ \E o \in roots : Unlink(o)

Collector ==
  \/ MarkRoot \/ RootsDone \/ EvaluateQueue \/ MarkDone
  \/ SweepFree \/ SweepKeep \/ EndCollection \/ FinishAlloc

Next == Mutate \/ Collector

Spec == Init /\ [][Next]_vars

(* A collection is C code that runs to its end.                            *)
FairSpec == Spec /\ WF_vars(Collector)

-----------------------------------------------------------------------------
Typed ==
  /\ Live \subseteq Objs
  /\ refs \in [Live -> Seq(Objs)]
  /\ roots \subseteq Objs /\ scan \subseteq Objs /\ mark \subseteq Objs
  /\ allocated \in Seq(Objs) /\ swept \in Seq(Objs) /\ queue \in Seq(Objs)
  /\ amount \in Int /\ threshold \in Int /\ enabled \in BOOLEAN
  /\ phase \in {"run", "roots", "queue", "sweep"}
  /\ pending \in {None} \cup [obj : Objs, refs : Seq(Objs)]

(* Type invariant of the collector and of the heap: a phase leaves nothing *)
(* to the next but what it is for.                                         *)
TypeOK ==
  /\ Typed
  /\ phase # "sweep" => swept = <<>>
  /\ phase # "roots" => scan = {}
  /\ phase \in {"run", "sweep"} => queue = <<>>

(* Nothing the program can still reach is freed, at no point of a          *)
(* collection: every root and every reference of a reachable object leads  *)
(* to an allocated one.                                                    *)
ReachableKept ==
  Reach(roots \cup (IF pending = None THEN {} ELSE Range(pending.refs))) \subseteq Live

(* The list of objects holds every allocated object once: none is lost to  *)
(* the sweep and none is swept twice.                                      *)
ListExact ==
  LET list == swept \o allocated IN
    /\ Range(list) = Live
    /\ \A i, j \in DOMAIN list : list[i] = list[j] => i = j

(* No mark is left from one collection to the next.                        *)
MarksCleared == Running => mark = {}

(* amount_allocated is the size of what is allocated, so the threshold is  *)
(* compared with, and set from, the real size of the heap: its units,      *)
(* counted one by one.                                                     *)
UnitsOf(S) == UNION {{o} \X (1 .. Size[o]) : o \in S}
AmountExact == amount = Cardinality(UnitsOf(Live))

(* The books of the collector agree with the heap.                         *)
AccountsExact == ListExact /\ AmountExact

(* A collection leaves exactly what is reachable from the roots.           *)
GarbageFreed == [][EndCollection => Live = Reach(roots)]_vars

(* cb_function_deinit reads the number of upvalues in the function's code: *)
(* a function is freed before its code, also when both are garbage.        *)
CodeOutlivesFunction ==
  [][\A o \in Live : (o \notin DOMAIN refs' /\ Kind[o] = "function") =>
       refs[o][1] \in Live]_vars

(* A collection ends, and the allocation it runs in gets its object.       *)
CollectionEnds == ~Running ~> Running
=============================================================================
