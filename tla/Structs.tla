------------------------------ MODULE Structs -------------------------------
(***************************************************************************)
(* Structs: specs and structs of struct.c, the instructions of eval.c that  *)
(* use them, each with the inline cache that remembers where a field is in *)
(* a spec, and the functions of modules/structs.c.                         *)
(*                                                                         *)
(* A declaration has one spec, made by the compiler; structs::new makes    *)
(* specs at run time, which the collector frees when nothing refers to     *)
(* them (Gc), and whose memory the next spec may get.                      *)
(***************************************************************************)
EXTENDS Integers, Sequences, FiniteSets, SequencesExt

CONSTANTS
  Declared,   \* of each declaration, [fields, methods], sequences of names
  Addresses,  \* where a spec made at run time can be
  Layouts,    \* the sequences of names structs::new is given
  Loads,      \* the name of each LOAD_STRUCT instruction
  Stores,     \* the name of each STORE_STRUCT or ADD_STRUCT_FIELD
  Objects, Names, Values,
  Functions,  \* a sequence: the functions that evaluated declarations make
  Null, Error, Junk, None,
  Features    \* what programs do, see Allowed

ASSUME FeaturesAssumption ==
  Features \subseteq {"read_method_again", "reuse_address", "declare_again"}

VARIABLES
  specs,    \* of each address, [fields, methods, funcs], or None
  held,     \* addresses of the specs a variable refers to
  structs,  \* of each object, [spec, vals], or None
  made,     \* the functions made
  caches,   \* code->ic of each instruction: [spec, index]
  result,   \* what the last instruction left: [of, value]
  named     \* history: the name the last access used

vars == <<specs, held, structs, made, caches, result, named>>

Decls == DOMAIN Declared
Sites == DOMAIN Loads \cup DOMAIN Stores
SpecRecords ==
  [fields : Seq(Names), methods : Seq(Names), funcs : Seq(Range(Functions))]

(* Names are names, an instruction loads or stores, a spec is declared or  *)
(* made at run time.                                                       *)
ASSUME ConstantsAssumption ==
  /\ \A d \in Decls : Declared[d] \in [fields : Seq(Names), methods : Seq(Names)]
  /\ Layouts \subseteq Seq(Names)
  /\ \A i \in DOMAIN Loads : Loads[i] \in Names
  /\ \A i \in DOMAIN Stores : Stores[i] \in Names
  /\ Functions \in Seq(Range(Functions))
  /\ DOMAIN Loads \cap DOMAIN Stores = {} /\ Decls \cap Addresses = {}

(* None is no address, function, spec, struct or binding of names.         *)
ASSUME NoneAssumption ==
  /\ None \notin Decls /\ None \notin Addresses
  /\ None \notin Range(Functions) /\ None \notin SpecRecords
  /\ \A l \in {Declared[d].fields : d \in Decls} \cup Layouts :
       /\ None \notin [spec : Decls \cup Addresses, vals : [DOMAIN l -> Values \cup {Null}]]
       /\ None \notin [Range(l) -> Values \cup {Null}]
Exists == {o \in Objects : structs[o] # None}
UsedSpecs == {structs[o].spec : o \in Exists}
SpecOf(o) == specs[structs[o].spec]
Plain(v) == [of |-> None, value |-> v]

Init ==
  /\ specs = [a \in Decls \cup Addresses |->
                IF a \in Decls THEN [fields |-> Declared[a].fields,
                                     methods |-> Declared[a].methods, funcs |-> <<>>]
                ELSE None]
  /\ held = {} /\ structs = [o \in Objects |-> None] /\ made = 0
  /\ caches = [i \in Sites |-> [spec |-> None, index |-> 0]]
  /\ result = Plain(Null) /\ named = None
-----------------------------------------------------------------------------
(* A program without one of the Features does not                          *)
(*   read_method_again: read a method of a spec where it was just read;    *)
(*   reuse_address: get a spec where one was that a cache still names;     *)
(*   declare_again: evaluate a declaration with methods while there is a    *)
(*   struct of it.                                                         *)
MayRead(i, o) ==
  \/ "read_method_again" \in Features
  \/ caches[i].index # -1 \/ caches[i].spec # structs[o].spec
MayUse(a) ==
  "reuse_address" \in Features \/ \A i \in Sites : caches[i].spec # a
MayDeclare(d) ==
  "declare_again" \in Features \/ d \notin UsedSpecs

(* The declaration is evaluated: SET_METHOD of each of its methods.        *)
Declare(d) ==
  /\ MayDeclare(d)
  /\ LET n == Len(Declared[d].methods) IN
       /\ n > 0 /\ made + n <= Len(Functions)
       /\ specs' = [specs EXCEPT ![d].funcs = SubSeq(Functions, made + 1, made + n)]
       /\ made' = made + n
  /\ UNCHANGED <<held, structs, caches, result, named>>

(* cb_gc_collect frees the specs that no variable, constant or struct      *)
(* refers to.                                                              *)
Garbage == {a \in Addresses : specs[a] # None} \ (held \cup UsedSpecs)

(* Mutant of Collect: cb_struct does not mark its spec.                    *)
CollectUsed ==
  /\ specs' = [a \in DOMAIN specs |-> IF a \in Addresses \ held THEN None ELSE specs[a]]
  /\ UNCHANGED <<held, structs, made, caches, result, named>>

Collect ==
  /\ Garbage # {}
  /\ specs' = [a \in DOMAIN specs |-> IF a \in Garbage THEN None ELSE specs[a]]
  /\ UNCHANGED <<held, structs, made, caches, result, named>>

(* structs::new; structs::spec; a variable is forgotten                    *)
MakeSpec(fields) ==
  /\ \E a \in Addresses :
       /\ specs[a] = None /\ MayUse(a)
       /\ specs' = [specs EXCEPT ![a] =
                      [fields |-> fields, methods |-> <<>>, funcs |-> <<>>]]
       /\ held' = held \cup {a}
  /\ UNCHANGED <<structs, made, caches, result, named>>

GetSpec(o) ==
  /\ held' = held \cup ({structs[o].spec} \cap Addresses)
  /\ UNCHANGED <<specs, structs, made, caches, result, named>>

DropSpec ==
  /\ \E a \in held : held' = held \ {a}
  /\ UNCHANGED <<specs, structs, made, caches, result, named>>

Drop(o) ==
  /\ structs' = [structs EXCEPT ![o] = None]
  /\ UNCHANGED <<specs, held, made, caches, result, named>>

(* NEW_STRUCT, cb_struct_spec_instantiate.  The spec of a declaration that *)
(* was not evaluated is not to be had.                                     *)
NewStruct(o, a) ==
  /\ structs[o] = None
  /\ \/ a \in held
     \/ a \in Decls /\ Len(specs[a].funcs) = Len(specs[a].methods)
  /\ structs' = [structs EXCEPT ![o] =
                   [spec |-> a, vals |-> [i \in DOMAIN specs[a].fields |-> Null]]]
  /\ UNCHANGED <<specs, held, made, caches, result, named>>
-----------------------------------------------------------------------------
(* field_index                                                             *)
FieldIndex(spec, n) ==
  IF n \in Range(spec.fields) THEN SelectInSeq(spec.fields, LAMBDA f : f = n) - 1 ELSE -1

(* cb_struct_spec_get_method, or None                                      *)
Method(spec, n) ==
  IF n \in Range(spec.methods)
  THEN spec.funcs[SelectInSeq(spec.methods, LAMBDA m : m = n)] ELSE None

(* s->fields[i]: also outside of the fields.                               *)
FieldAt(o, i) ==
  IF i + 1 \in DOMAIN structs[o].vals THEN structs[o].vals[i + 1] ELSE Junk
Assign(o, i, v) ==
  structs' = IF i + 1 \in DOMAIN structs[o].vals
             THEN [structs EXCEPT ![o].vals[i + 1] = v] ELSE structs

(* Mutant of Hit: the spec is not compared.                                *)
HitAny(i, o) == caches[i].spec # None

Hit(i, o) == caches[i].spec = structs[o].spec

(* An instruction that meets a second spec stops caching for good.         *)
Deopt(c) ==
  IF c.spec # None THEN [spec |-> None, index |-> -1] ELSE c

(* Mutant of Fill: a second spec takes the place of the first without its  *)
(* index.                                                                  *)
FillSpec(c, o, idx) ==
  IF c.index # -1 THEN [c EXCEPT !.spec = structs[o].spec] ELSE c

Fill(c, o, idx) ==
  IF c.index # -1 THEN [spec |-> structs[o].spec, index |-> idx] ELSE c

LoadStruct(i, o) ==
  LET n == Loads[i]
      idx == FieldIndex(SpecOf(o), n)
      m == Method(SpecOf(o), n)
      missed == Deopt(caches[i])
  IN  /\ MayRead(i, o) /\ named' = n
      /\ IF Hit(i, o)
         THEN result' = Plain(FieldAt(o, caches[i].index)) /\ UNCHANGED caches
         ELSE IF idx = -1 /\ m = None
         THEN result' = Plain(Error) /\ caches' = [caches EXCEPT ![i] = missed]
         ELSE /\ caches' = [caches EXCEPT ![i] = Fill(missed, o, idx)]
              /\ result' = IF idx # -1 THEN Plain(FieldAt(o, idx))
                           ELSE [of |-> o, value |-> m]  \* make_method_caller
      /\ UNCHANGED <<specs, held, structs, made>>

(* STORE_STRUCT, and ADD_STRUCT_FIELD of a struct literal                  *)
StoreStruct(i, o, v) ==
  LET idx == FieldIndex(SpecOf(o), Stores[i])
      missed == Deopt(caches[i])
  IN  /\ named' = Stores[i]
      /\ IF Hit(i, o)
         THEN Assign(o, caches[i].index, v) /\ UNCHANGED <<caches, result>>
         ELSE IF idx = -1
         THEN /\ result' = Plain(Error) /\ UNCHANGED structs
              /\ caches' = [caches EXCEPT ![i] = missed]
         ELSE /\ Assign(o, idx, v) /\ UNCHANGED result
              /\ caches' = [caches EXCEPT ![i] = Fill(missed, o, idx)]
      /\ UNCHANGED <<specs, held, made>>

(* LOAD_METHOD has no cache.                                               *)
LoadMethod(o, n) ==
  LET m == Method(SpecOf(o), n)
      idx == FieldIndex(SpecOf(o), n)
  IN  /\ named' = n
      /\ result' = Plain(IF m # None THEN m
                         ELSE IF idx # -1 THEN FieldAt(o, idx) ELSE Error)
      /\ UNCHANGED <<specs, held, structs, made, caches>>

(* structs::get, structs::set, structs::get_method of a struct             *)
GetStructField(o, n) ==
  LET idx == FieldIndex(SpecOf(o), n) IN
  /\ named' = n
  /\ result' = Plain(IF idx # -1 THEN FieldAt(o, idx) ELSE Error)
  /\ UNCHANGED <<specs, held, structs, made, caches>>

SetStructField(o, n, v) ==
  LET idx == FieldIndex(SpecOf(o), n) IN
  /\ named' = n
  /\ IF idx # -1 THEN Assign(o, idx, v) /\ UNCHANGED result
     ELSE result' = Plain(Error) /\ UNCHANGED structs
  /\ UNCHANGED <<specs, held, made, caches>>

GetMethod(o, n) ==
  LET m == Method(SpecOf(o), n) IN
  /\ named' = n /\ result' = Plain(IF m # None THEN m ELSE Error)
  /\ UNCHANGED <<specs, held, structs, made, caches>>

Next ==
  \/ Collect \/ DropSpec
  \/ \E d \in Decls : Declare(d)
  \/ \E fields \in Layouts : MakeSpec(fields)
  \/ \E o \in Objects, a \in Decls \cup Addresses : NewStruct(o, a)
  \/ \E o \in Exists :
       \/ GetSpec(o) \/ Drop(o)
       \/ \E i \in DOMAIN Loads : LoadStruct(i, o)
       \/ \E i \in DOMAIN Stores, v \in Values : StoreStruct(i, o, v)
       \/ \E n \in Names :
            \/ LoadMethod(o, n) \/ GetStructField(o, n) \/ GetMethod(o, n)
            \/ \E v \in Values : SetStructField(o, n, v)

Spec == Init /\ [][Next]_vars
-----------------------------------------------------------------------------
(* Types; a struct's spec is not collected before it.                      *)
TypeOK ==
  /\ held \subseteq Addresses /\ made \in 0 .. Len(Functions)
  /\ \A a \in held \cup UsedSpecs : specs[a] # None
  /\ \A o \in Exists :
       /\ structs[o].vals \in [DOMAIN SpecOf(o).fields -> Values \cup {Null}]
       /\ Len(SpecOf(o).funcs) = Len(SpecOf(o).methods)
  /\ \A i \in Sites : caches[i].spec \in Decls \cup Addresses \cup {None}

(* A cache that names a spec has the index that a search of the spec finds *)
(* (eval.c:1133-1228).                                                     *)
NameAt(i) == IF i \in DOMAIN Loads THEN Loads[i] ELSE Stores[i]
CachesAgree ==
  \A i \in Sites : LET c == caches[i] IN
    c.spec # None /\ specs[c.spec] # None =>
      /\ c.index = FieldIndex(specs[c.spec], NameAt(i))
      /\ c.index = -1 => Method(specs[c.spec], NameAt(i)) # None

(* Whatever the caches hold, and whatever specs come and go, an access to   *)
(* a name gives what the record of values has under that name: see Records. *)
ByName(o) == [n \in Range(SpecOf(o).fields) |-> FieldAt(o, FieldIndex(SpecOf(o), n))]
MethodsByName(o) == [n \in Range(SpecOf(o).methods) |-> Method(SpecOf(o), n)]
FieldsView == [o \in Objects |-> IF structs[o] = None THEN None ELSE ByName(o)]
MethodsView == [o \in Objects |-> IF structs[o] = None THEN None ELSE MethodsByName(o)]
AsRecords == INSTANCE Records WITH
  fields <- FieldsView, methods <- MethodsView, Methods <- Range(Functions)
ImplementsRecords == AsRecords!Spec
=============================================================================
