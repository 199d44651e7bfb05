--------------------------- MODULE StructsProofs ----------------------------
(***************************************************************************)
(* What holds of structs and the caches of the instructions that use them, *)
(* for every declaration, program and number of structs: a struct has the  *)
(* fields of its spec; unless the memory of a collected spec is used again  *)
(* while a cache names it, a cache has the index a search would find; and  *)
(* then structs are records of values by name.                             *)
(***************************************************************************)
EXTENDS Structs, SequenceTheorems, WellFoundedInduction, TLAPS

Specs == Decls \cup Addresses
FieldLists == {Declared[d].fields : d \in Decls} \cup Layouts

SpecsInv ==
  /\ specs \in [Specs -> SpecRecords \cup {None}]
  /\ \A d \in Decls : /\ specs[d] # None
                      /\ specs[d].fields = Declared[d].fields
                      /\ specs[d].methods = Declared[d].methods
  /\ \A a \in Addresses : specs[a] # None =>
       specs[a].fields \in Layouts /\ specs[a].methods = <<>> /\ specs[a].funcs = <<>>

StructRecords ==
  UNION {[spec : Specs, vals : [DOMAIN l -> Values \cup {Null}]] : l \in FieldLists}
StructsInv == structs \in [Objects -> StructRecords \cup {None}]

Evaluated(a) == Len(specs[a].funcs) = Len(specs[a].methods)
CachesInv ==
  /\ caches \in [Sites -> [spec : Specs \cup {None}, index : Int]]
  /\ \A i \in Sites : caches[i].spec # None /\ specs[caches[i].spec] # None
                      => Evaluated(caches[i].spec)

IInv == TypeOK /\ SpecsInv /\ StructsInv /\ CachesInv
-----------------------------------------------------------------------------
(* A set of natural numbers that has an element has a least one.           *)
LEMMA MinExists ==
  ASSUME NEW S \in SUBSET Nat, S # {}
  PROVE  Min(S) \in S /\ \A m \in S : Min(S) <= m
<1> DEFINE Less == {ss \in Nat \X Nat : ss[1] < ss[2]}
<1>1. IsWellFoundedOn(Less, Nat)
  BY NatLessThanWellFounded DEF OpToRel
<1>2. PICK m \in S : \A k \in S : <<k, m>> \notin Less
  <2> HIDE DEF Less
  <2> QED
    BY <1>1, WFMin, Zenon
<1>3. ASSUME NEW k \in S PROVE m <= k
  <2>1. k \in Nat /\ m \in Nat /\ <<k, m>> \notin Less
    BY <1>2
  <2>2. ~(k < m)
    BY <2>1
  <2> QED
    BY <2>1, <2>2
<1> QED
  BY <1>3 DEF Min

(* A search of a sequence finds the name it is for.                        *)
Place(s, n) == SelectInSeq(s, LAMBDA e : e = n)
LEMMA SearchFinds ==
  ASSUME NEW S, NEW s \in Seq(S), NEW n \in Range(s)
  PROVE  Place(s, n) \in 1 .. Len(s) /\ s[Place(s, n)] = n
<1> DEFINE I == {i \in 1 .. Len(s) : s[i] = n}
<1>1. I \in SUBSET Nat /\ I # {}
  BY RangeEquality
<1>2. Place(s, n) = Min(I)
  BY <1>1 DEF Place, SelectInSeq
<1> QED
  BY <1>1, <1>2, MinExists

LEMMA FieldFound ==
  ASSUME NEW spec \in SpecRecords, NEW n
  PROVE  /\ FieldIndex(spec, n) \in Int
         /\ FieldIndex(spec, n) # -1 <=> n \in Range(spec.fields)
         /\ n \in Range(spec.fields) =>
              /\ FieldIndex(spec, n) + 1 \in DOMAIN spec.fields
              /\ spec.fields[FieldIndex(spec, n) + 1] = n
<1>1. CASE n \notin Range(spec.fields)
  BY <1>1 DEF FieldIndex
<1>2. CASE n \in Range(spec.fields)
  <2>1. spec.fields \in Seq(Names) /\ FieldIndex(spec, n) = Place(spec.fields, n) - 1
    BY <1>2 DEF FieldIndex, Place, SpecRecords
  <2>2. Place(spec.fields, n) \in 1 .. Len(spec.fields)
          /\ spec.fields[Place(spec.fields, n)] = n
    BY <1>2, <2>1, SearchFinds
  <2> QED
    BY <1>2, <2>1, <2>2
<1> QED
  BY <1>1, <1>2

LEMMA MethodFound ==
  ASSUME NEW spec \in SpecRecords, Len(spec.funcs) = Len(spec.methods), NEW n
  PROVE  /\ n \in Range(spec.methods) => Method(spec, n) \in Range(Functions)
         /\ Method(spec, n) # None <=> n \in Range(spec.methods)
<1>1. CASE n \notin Range(spec.methods)
  BY <1>1 DEF Method
<1>2. CASE n \in Range(spec.methods)
  <2>1. spec.methods \in Seq(Names) /\ spec.funcs \in Seq(Range(Functions))
    BY DEF SpecRecords
  <2>2. Method(spec, n) = spec.funcs[Place(spec.methods, n)]
    BY <1>2 DEF Method, Place
  <2>3. Place(spec.methods, n) \in 1 .. Len(spec.funcs)
    BY <1>2, <2>1, SearchFinds
  <2>4. spec.funcs[Place(spec.methods, n)] \in Range(Functions)
    BY <2>1, <2>3, ElementOfSeq
  <2> QED
    BY <1>2, <2>2, <2>4, NoneAssumption
<1> QED
  BY <1>1, <1>2
-----------------------------------------------------------------------------
(* A struct with the fields of a layout is a struct.                       *)
LEMMA StructMade ==
  ASSUME NEW l \in FieldLists, NEW a \in Specs, NEW w \in [DOMAIN l -> Values \cup {Null}]
  PROVE  /\ [spec |-> a, vals |-> w] \in StructRecords
         /\ [spec |-> a, vals |-> w] # None
<1>1. [spec |-> a, vals |-> w] \in [spec : Specs, vals : [DOMAIN l -> Values \cup {Null}]]
  OBVIOUS
<1>2. None \notin [spec : Specs, vals : [DOMAIN l -> Values \cup {Null}]]
  BY NoneAssumption DEF FieldLists, Specs
<1>3. [spec |-> a, vals |-> w] \in StructRecords
  BY <1>1 DEF StructRecords
<1> QED
  BY <1>1, <1>2, <1>3

LEMMA InitIInv == Init => IInv
<1> SUFFICES ASSUME Init PROVE IInv
  OBVIOUS
<1>1. SpecsInv
  <2>1. \A d \in Decls :
          [fields |-> Declared[d].fields, methods |-> Declared[d].methods,
           funcs |-> <<>>] \in SpecRecords
    BY ConstantsAssumption DEF SpecRecords
  <2>2. \A a \in Addresses : specs[a] = None
    BY ConstantsAssumption DEF Init, Specs
  <2>3. \A d \in Decls :
          /\ specs[d] \in SpecRecords
          /\ specs[d] = [fields |-> Declared[d].fields, methods |-> Declared[d].methods,
                         funcs |-> <<>>]
    BY <2>1 DEF Init, Specs
  <2>4. specs \in [Specs -> SpecRecords \cup {None}]
    BY <2>1 DEF Init, Specs
  <2> QED
    <3>1. None \notin SpecRecords
      BY NoneAssumption
    <3>2. \A d \in Decls : specs[d] # None
      BY <2>3, <3>1
    <3>3. ASSUME NEW d \in Decls
          PROVE  specs[d].fields = Declared[d].fields /\ specs[d].methods = Declared[d].methods
      <4>1. specs[d] = [fields |-> Declared[d].fields, methods |-> Declared[d].methods,
                        funcs |-> <<>>]
        BY <2>3
      <4> QED
        BY <4>1
    <3> QED
      BY <2>2, <2>4, <3>2, <3>3 DEF SpecsInv
<1>2. StructsInv /\ CachesInv
  BY DEF Init, StructsInv, CachesInv
<1>3. TypeOK
  <2>1. Len(Functions) \in Nat
    BY ConstantsAssumption
  <2> QED
    BY <2>1 DEF Init, TypeOK, Exists, UsedSpecs, Sites
<1> QED
  BY <1>1, <1>2, <1>3 DEF IInv

(* What the invariant says of a struct.                                    *)
LEMMA StructTyped ==
  ASSUME IInv, NEW o \in Exists
  PROVE  /\ structs[o].spec \in UsedSpecs /\ structs[o].spec \in Specs
         /\ SpecOf(o) \in SpecRecords /\ Evaluated(structs[o].spec)
         /\ SpecOf(o).fields \in FieldLists
         /\ structs[o] = [spec |-> structs[o].spec, vals |-> structs[o].vals]
         /\ structs[o].vals \in [DOMAIN SpecOf(o).fields -> Values \cup {Null}]
<1>1. o \in Objects /\ structs[o] \in StructRecords
  BY DEF IInv, StructsInv, Exists
<1>2. structs[o].spec \in Specs
        /\ structs[o] = [spec |-> structs[o].spec, vals |-> structs[o].vals]
  BY <1>1 DEF StructRecords
<1>3. structs[o].spec \in UsedSpecs
  BY DEF UsedSpecs
<1>4. SpecOf(o) \in SpecRecords /\ SpecOf(o) # None
  BY <1>2, <1>3 DEF IInv, TypeOK, SpecsInv, SpecOf
<1>5. SpecOf(o).fields \in FieldLists
  BY <1>2, <1>4 DEF IInv, SpecsInv, SpecOf, FieldLists, Specs
<1> QED
  BY <1>2, <1>3, <1>4, <1>5 DEF IInv, TypeOK, Evaluated, SpecOf

(* A change of the specs that leaves those of structs what they are.       *)
LEMMA SpecsChange ==
  ASSUME IInv, UNCHANGED <<structs, caches>>, SpecsInv',
         held' \subseteq Addresses, made' \in 0 .. Len(Functions),
         \A a \in held' : specs'[a] # None,
         \A a \in UsedSpecs :
           specs'[a] # None /\ specs'[a].fields = specs[a].fields /\ Evaluated(a)',
         \A i \in Sites : caches[i].spec # None /\ specs'[caches[i].spec] # None
                         => Evaluated(caches[i].spec)'
  PROVE  IInv'
<1>1. Exists' = Exists /\ UsedSpecs' = UsedSpecs
  BY DEF Exists, UsedSpecs
<1>2. StructsInv' /\ CachesInv'
  BY DEF IInv, StructsInv, CachesInv
<1>3. ASSUME NEW o \in Exists
      PROVE  structs'[o].vals \in [DOMAIN SpecOf(o)'.fields -> Values \cup {Null}]
               /\ Len(SpecOf(o)'.funcs) = Len(SpecOf(o)'.methods)
  BY <1>3, StructTyped DEF SpecOf, Evaluated
<1>4. \A i \in Sites : caches'[i].spec \in Decls \cup Addresses \cup {None}
  BY DEF IInv, TypeOK
<1>5. TypeOK'
  BY <1>1, <1>3, <1>4 DEF TypeOK, UsedSpecs, SpecOf
<1> QED
  BY <1>2, <1>5 DEF IInv

(* A change of structs and caches.                                         *)
LEMMA StructsChange ==
  ASSUME IInv, UNCHANGED <<specs, held, made>>, StructsInv', CachesInv',
         \A o \in Exists' :
           /\ specs[structs'[o].spec] # None /\ Evaluated(structs'[o].spec)
           /\ structs'[o].vals \in
                [DOMAIN specs[structs'[o].spec].fields -> Values \cup {Null}]
  PROVE  IInv'
<1>1. SpecsInv'
  BY DEF IInv, SpecsInv
<1>2. \A a \in UsedSpecs' : specs[a] # None
  BY DEF UsedSpecs
<1>3. \A i \in Sites : caches'[i].spec \in Decls \cup Addresses \cup {None}
  BY DEF CachesInv, Specs
<1>4. TypeOK'
  BY <1>2, <1>3 DEF IInv, TypeOK, Evaluated, SpecOf
<1> QED
  BY <1>1, <1>4 DEF IInv
-----------------------------------------------------------------------------
(* One lemma for each action that changes specs.                           *)
LEMMA DeclareStep ==
  ASSUME IInv, NEW d \in Decls, Declare(d)
  PROVE  IInv'
<1> DEFINE n == Len(Declared[d].methods)
           f == SubSeq(Functions, made + 1, made + n)
<1>1. n \in Nat /\ n > 0 /\ Len(Functions) \in Nat /\ made \in 0 .. Len(Functions)
        /\ made + n <= Len(Functions) /\ made' = made + n
  BY ConstantsAssumption DEF Declare, IInv, TypeOK
<1>2. f \in Seq(Range(Functions)) /\ Len(f) = n
  <2>1. Functions \in Seq(Range(Functions))
    BY ConstantsAssumption
  <2> QED
    BY <1>1, <2>1, SubSeqProperties
<1>3. d \in Specs /\ specs[d] \in SpecRecords /\ specs[d].methods = Declared[d].methods
  BY DEF IInv, SpecsInv, Specs
<1>4. specs' = [specs EXCEPT ![d] = [fields |-> specs[d].fields,
                                     methods |-> specs[d].methods, funcs |-> f]]
  <2>1. specs' = [specs EXCEPT ![d].funcs = f]
    BY DEF Declare
  <2> HIDE DEF f
  <2>2. [specs[d] EXCEPT !.funcs = f]
          = [fields |-> specs[d].fields, methods |-> specs[d].methods, funcs |-> f]
    BY <1>3 DEF SpecRecords
  <2> QED
    BY <2>1, <2>2
<1> HIDE DEF f
<1>5. /\ specs'[d] \in SpecRecords /\ specs'[d].fields = specs[d].fields
      /\ specs'[d].methods = specs[d].methods /\ specs'[d].funcs = f
      /\ \A a \in Specs : a # d => specs'[a] = specs[a]
  BY <1>2, <1>3, <1>4 DEF IInv, SpecsInv, SpecRecords
<1>6. specs' \in [Specs -> SpecRecords \cup {None}]
  BY <1>4, <1>5 DEF IInv, SpecsInv
<1>7. specs'[d] # None /\ Evaluated(d)'
  BY <1>2, <1>3, <1>5, NoneAssumption DEF Evaluated
<1>8. SpecsInv'
  BY <1>5, <1>6, <1>7, ConstantsAssumption DEF IInv, SpecsInv, Specs
<1>9. \A a \in UsedSpecs : specs'[a] # None /\ specs'[a].fields = specs[a].fields
                             /\ Evaluated(a)'
  <2>1. \A a \in UsedSpecs : a \in Specs /\ specs[a] # None /\ Evaluated(a)
    BY StructTyped DEF UsedSpecs, IInv, TypeOK
  <2> QED
    BY <1>5, <1>7, <2>1 DEF Evaluated
<1>10. ASSUME NEW i \in Sites, caches[i].spec # None, specs'[caches[i].spec] # None
       PROVE  Evaluated(caches[i].spec)'
  <2>1. caches[i].spec \in Specs /\ caches' = caches
    BY <1>10 DEF IInv, CachesInv, Declare
  <2>2. CASE caches[i].spec = d
    BY <1>7, <2>1, <2>2 DEF Evaluated
  <2>3. CASE caches[i].spec # d
    <3>1. specs'[caches[i].spec] = specs[caches[i].spec]
      BY <1>5, <2>1, <2>3
    <3> QED
      BY <1>10, <2>1, <3>1 DEF IInv, CachesInv, Evaluated
  <2> QED
    BY <2>2, <2>3
<1>11. held' \subseteq Addresses /\ \A a \in held' : specs'[a] # None
  BY <1>5, <1>7 DEF Declare, IInv, TypeOK, Specs
<1> QED
  BY <1>1, <1>8, <1>9, <1>10, <1>11, SpecsChange DEF Declare

LEMMA CollectStep ==
  ASSUME IInv, Collect
  PROVE  IInv'
<1>1. /\ Garbage \subseteq Addresses /\ Garbage \cap held = {}
      /\ Garbage \cap UsedSpecs = {}
  BY DEF Garbage
<1>2. /\ specs' = [a \in Specs |-> IF a \in Garbage THEN None ELSE specs[a]]
      /\ UNCHANGED <<structs, caches, held, made>>
  BY DEF Collect, IInv, SpecsInv
<1>3. SpecsInv'
  BY <1>1, <1>2, ConstantsAssumption DEF IInv, SpecsInv, Specs
<1>4. \A a \in UsedSpecs : specs'[a] = specs[a] /\ Evaluated(a)
  BY <1>1, <1>2, StructTyped DEF UsedSpecs
<1>5. \A a \in UsedSpecs : specs'[a] # None /\ specs'[a].fields = specs[a].fields
                             /\ Evaluated(a)'
  BY <1>4 DEF Evaluated, IInv, TypeOK
<1>6. ASSUME NEW i \in Sites, caches[i].spec # None, specs'[caches[i].spec] # None
      PROVE  Evaluated(caches[i].spec)'
  BY <1>2, <1>6 DEF IInv, CachesInv, Evaluated
<1>7. held' \subseteq Addresses /\ \A a \in held' : specs'[a] # None
  BY <1>1, <1>2 DEF IInv, TypeOK, Specs
<1>8. made' \in 0 .. Len(Functions)
  BY <1>2 DEF IInv, TypeOK
<1> QED
  BY <1>2, <1>3, <1>5, <1>6, <1>7, <1>8, SpecsChange

LEMMA MakeSpecStep ==
  ASSUME IInv, NEW fields \in Layouts, MakeSpec(fields)
  PROVE  IInv'
<1> DEFINE r == [fields |-> fields, methods |-> <<>>, funcs |-> <<>>]
<1>1. r \in SpecRecords /\ r.fields = fields /\ r.methods = <<>> /\ r.funcs = <<>>
  BY ConstantsAssumption DEF SpecRecords
<1>2. PICK a \in Addresses : specs[a] = None /\ specs' = [specs EXCEPT ![a] = r]
                               /\ held' = held \cup {a}
  BY DEF MakeSpec
<1>3. r # None
  BY <1>1, NoneAssumption
<1>4. a \in Specs /\ a \notin Decls /\ a \notin UsedSpecs
        /\ specs'[a] = r /\ \A b \in Specs : b # a => specs'[b] = specs[b]
  BY <1>2, ConstantsAssumption DEF Specs, IInv, SpecsInv, TypeOK
<1>5. specs' \in [Specs -> SpecRecords \cup {None}]
  BY <1>1, <1>2 DEF IInv, SpecsInv
<1> HIDE DEF r
<1>6. SpecsInv'
  BY <1>1, <1>4, <1>5 DEF IInv, SpecsInv, Specs
<1>7. \A b \in UsedSpecs : b \in Specs /\ specs[b] # None /\ Evaluated(b)
  BY StructTyped DEF UsedSpecs, IInv, TypeOK
<1>8. \A b \in UsedSpecs : specs'[b] # None /\ specs'[b].fields = specs[b].fields
                             /\ Evaluated(b)'
  BY <1>4, <1>7 DEF Evaluated
<1>9. ASSUME NEW i \in Sites, caches[i].spec # None, specs'[caches[i].spec] # None
      PROVE  Evaluated(caches[i].spec)'
  <2>1. caches[i].spec \in Specs /\ caches' = caches
    BY <1>9 DEF IInv, CachesInv, MakeSpec
  <2>2. CASE caches[i].spec = a
    BY <1>1, <1>4, <2>1, <2>2 DEF Evaluated
  <2>3. CASE caches[i].spec # a
    <3>1. specs'[caches[i].spec] = specs[caches[i].spec]
      BY <1>4, <2>1, <2>3
    <3> QED
      BY <1>9, <2>1, <3>1 DEF IInv, CachesInv, Evaluated
  <2> QED
    BY <2>2, <2>3
<1>10. held' \subseteq Addresses /\ \A b \in held' : specs'[b] # None
  BY <1>2, <1>3, <1>4 DEF IInv, TypeOK, Specs
<1> QED
  BY <1>6, <1>8, <1>9, <1>10, SpecsChange DEF MakeSpec, IInv, TypeOK

-----------------------------------------------------------------------------
(* Assign changes at most one value of one struct.                         *)
LEMMA Assigned ==
  ASSUME IInv, NEW o \in Exists, NEW k \in Int, NEW v \in Values, Assign(o, k, v)
  PROVE  /\ StructsInv' /\ Exists' = Exists
         /\ \A p \in Exists : /\ structs'[p].spec = structs[p].spec
                              /\ structs'[p].vals \in
                                   [DOMAIN SpecOf(p).fields -> Values \cup {Null}]
         /\ \A p \in Exists \ {o} : structs'[p] = structs[p]
         /\ structs'[o].vals = IF k + 1 \in DOMAIN structs[o].vals
                               THEN [structs[o].vals EXCEPT ![k + 1] = v]
                               ELSE structs[o].vals
<1>1. CASE k + 1 \notin DOMAIN structs[o].vals
  <2>1. structs' = structs
    BY <1>1 DEF Assign
  <2> QED
    BY <1>1, <2>1, StructTyped DEF IInv, StructsInv, Exists
<1>2. CASE k + 1 \in DOMAIN structs[o].vals
  <2> DEFINE w == [structs[o].vals EXCEPT ![k + 1] = v]
             r == [spec |-> structs[o].spec, vals |-> w]
  <2>1. w \in [DOMAIN SpecOf(o).fields -> Values \cup {Null}]
    BY <1>2, StructTyped
  <2>2. structs' = [structs EXCEPT ![o] = r]
    <3>1. structs' = [structs EXCEPT ![o].vals[k + 1] = v]
      BY <1>2 DEF Assign
    <3>2. structs[o] = [spec |-> structs[o].spec, vals |-> structs[o].vals]
      BY StructTyped
    <3>3. [structs[o] EXCEPT !.vals[k + 1] = v] = r
      BY <3>2
    <3> QED
      BY <3>1, <3>3
  <2> HIDE DEF w
  <2>3. r \in StructRecords /\ r # None
    BY <2>1, StructTyped, StructMade
  <2>4. r.spec = structs[o].spec /\ r.vals = w
    OBVIOUS
  <2> HIDE DEF r
  <2>5. /\ o \in Objects /\ structs'[o] = r /\ StructsInv'
        /\ \A p \in Objects : p # o => structs'[p] = structs[p]
    BY <2>2, <2>3, <2>4 DEF IInv, StructsInv, Exists
  <2>6. Exists' = Exists
    BY <2>3, <2>5 DEF Exists
  <2>7. \A p \in Exists \ {o} : structs'[p] = structs[p]
    BY <2>5 DEF Exists
  <2>8. ASSUME NEW p \in Exists
        PROVE  /\ structs'[p].spec = structs[p].spec
               /\ structs'[p].vals \in [DOMAIN SpecOf(p).fields -> Values \cup {Null}]
    BY <2>1, <2>4, <2>5, <2>7, StructTyped
  <2> QED
    BY <1>2, <2>4, <2>5, <2>6, <2>7, <2>8 DEF w
<1> QED
  BY <1>1, <1>2

(* A cache is emptied or names the spec of the struct at hand.             *)
LEMMA CacheFilled ==
  ASSUME IInv, NEW o \in Exists, NEW i \in Sites, NEW k \in Int,
         UNCHANGED specs,
         \/ caches' = [caches EXCEPT ![i] = Deopt(caches[i])]
         \/ caches' = [caches EXCEPT ![i] = Fill(Deopt(caches[i]), o, k)]
  PROVE  /\ CachesInv'
         /\ \A j \in Sites : j # i => caches'[j] = caches[j]
         /\ \/ caches'[i].spec = None \/ caches'[i] = caches[i]
            \/ caches'[i] = [spec |-> structs[o].spec, index |-> k]
<1> DEFINE c == caches[i]
           full == [spec |-> structs[o].spec, index |-> k]
           empty == [spec |-> None, index |-> -1]
           CacheRecords == [spec : Specs \cup {None}, index : Int]
<1>1. c \in CacheRecords /\ full \in CacheRecords /\ empty \in CacheRecords
  <2>1. structs[o].spec \in Specs
    BY StructTyped
  <2> QED
    BY <2>1 DEF IInv, CachesInv
<1>2. full.spec = structs[o].spec /\ empty.spec = None /\ Evaluated(full.spec)
  BY StructTyped
<1> HIDE DEF full, empty
<1>3. Deopt(c) \in {c, empty}
  BY DEF Deopt, empty
<1>4. Fill(Deopt(c), o, k) \in {c, empty, full}
  BY <1>3 DEF Fill, full
<1>5. caches'[i] \in {c, empty, full} /\ \A j \in Sites : j # i => caches'[j] = caches[j]
  BY <1>3, <1>4 DEF IInv, CachesInv
<1>6. caches' \in [Sites -> CacheRecords]
  BY <1>1, <1>3, <1>4 DEF IInv, CachesInv
<1>7. ASSUME NEW j \in Sites, caches'[j].spec # None, specs'[caches'[j].spec] # None
      PROVE  Evaluated(caches[j].spec)'
  <2>1. caches'[j].spec = structs[o].spec \/ caches'[j] = caches[j]
    BY <1>2, <1>5, <1>7
  <2>2. CASE caches'[j] = caches[j]
    BY <1>7, <2>2 DEF IInv, CachesInv, Evaluated
  <2>3. CASE caches'[j].spec = structs[o].spec
    BY <1>2, <2>3 DEF Evaluated
  <2> QED
    BY <2>1, <2>2, <2>3
<1>8. CachesInv'
  <2> HIDE DEF CacheRecords
  <2>1. \A j \in Sites : caches'[j].spec # None /\ specs'[caches'[j].spec] # None
                           => Evaluated(caches[j].spec)'
    BY <1>7
  <2>2. caches' \in [Sites -> [spec : Specs \cup {None}, index : Int]]
    BY <1>6 DEF CacheRecords
  <2> QED
    BY <2>1, <2>2 DEF CachesInv, Sites
<1>9. caches'[i] = full \/ caches'[i].spec = None \/ caches'[i] = caches[i]
  BY <1>2, <1>5
<1> QED
  BY <1>5, <1>8, <1>9 DEF full

LEMMA NewStructStep ==
  ASSUME IInv, NEW o \in Objects, NEW a \in Specs, NewStruct(o, a)
  PROVE  /\ IInv' /\ structs' = [structs EXCEPT ![o] = structs'[o]]
         /\ structs'[o] # None /\ structs'[o].spec = a
         /\ structs'[o].vals = [i \in DOMAIN specs[a].fields |-> Null]
         /\ specs[a] \in SpecRecords /\ specs[a].fields \in FieldLists /\ Evaluated(a)
<1> DEFINE w == [i \in DOMAIN specs[a].fields |-> Null]
           r == [spec |-> a, vals |-> w]
<1>1. structs' = [structs EXCEPT ![o] = r] /\ UNCHANGED <<specs, held, made, caches>>
  BY DEF NewStruct
<1>2. specs[a] # None /\ specs[a] \in SpecRecords
  BY DEF NewStruct, IInv, TypeOK, SpecsInv
<1>3. specs[a].fields \in FieldLists /\ Evaluated(a)
  <2>1. CASE a \in Decls
    BY <2>1, ConstantsAssumption DEF IInv, SpecsInv, FieldLists, NewStruct, TypeOK, Evaluated
  <2>2. CASE a \in Addresses
    BY <1>2, <2>2 DEF IInv, SpecsInv, FieldLists, Evaluated
  <2> QED
    BY <2>1, <2>2 DEF Specs
<1>4. w \in [DOMAIN specs[a].fields -> Values \cup {Null}]
  OBVIOUS
<1>5. r.spec = a /\ r.vals = w
  OBVIOUS
<1> HIDE DEF w
<1>6. r \in StructRecords /\ r # None
  BY <1>3, <1>4, StructMade
<1> HIDE DEF r
<1>7. structs'[o] = r /\ StructsInv' /\ \A p \in Objects : p # o => structs'[p] = structs[p]
  BY <1>1, <1>6 DEF IInv, StructsInv
<1>8. CachesInv'
  BY <1>1 DEF IInv, CachesInv, Evaluated
<1>9. ASSUME NEW p \in Exists'
      PROVE  /\ specs[structs'[p].spec] # None /\ Evaluated(structs'[p].spec)
             /\ structs'[p].vals \in
                  [DOMAIN specs[structs'[p].spec].fields -> Values \cup {Null}]
  <2>1. CASE p = o
    BY <1>2, <1>3, <1>4, <1>5, <1>7, <2>1
  <2>2. CASE p # o
    <3>1. p \in Exists /\ structs'[p] = structs[p]
      BY <1>7, <2>2 DEF Exists
    <3> QED
      BY <3>1, StructTyped DEF SpecOf, IInv, TypeOK
  <2> QED
    BY <2>1, <2>2
<1>10. IInv'
  BY <1>1, <1>7, <1>8, <1>9, StructsChange
<1> QED
  BY <1>1, <1>2, <1>3, <1>5, <1>6, <1>7, <1>10 DEF w

LEMMA DropStep ==
  ASSUME IInv, NEW o \in Exists, Drop(o)
  PROVE  IInv'
<1>1. structs' = [structs EXCEPT ![o] = None] /\ UNCHANGED <<specs, held, made, caches>>
  BY DEF Drop
<1>2. StructsInv' /\ CachesInv'
  BY <1>1 DEF IInv, StructsInv, CachesInv, Evaluated
<1>3. \A p \in Exists' : p \in Exists /\ structs'[p] = structs[p]
  BY <1>1 DEF Exists, IInv, StructsInv
<1>4. \A p \in Exists :
        /\ specs[structs[p].spec] # None /\ Evaluated(structs[p].spec)
        /\ structs[p].vals \in [DOMAIN specs[structs[p].spec].fields -> Values \cup {Null}]
  BY StructTyped DEF SpecOf, IInv, TypeOK
<1> QED
  BY <1>1, <1>2, <1>3, <1>4, StructsChange

(* A step that touches neither specs nor structs keeps the invariant.      *)
LEMMA CachesOnly ==
  ASSUME IInv, UNCHANGED <<specs, held, made, structs>>, CachesInv'
  PROVE  IInv'
<1>1. \A p \in Exists :
        /\ specs[structs[p].spec] # None /\ Evaluated(structs[p].spec)
        /\ structs[p].vals \in [DOMAIN specs[structs[p].spec].fields -> Values \cup {Null}]
  BY StructTyped DEF SpecOf, IInv, TypeOK
<1>2. Exists' = Exists /\ StructsInv'
  BY DEF Exists, IInv, StructsInv
<1> QED
  BY <1>1, <1>2, StructsChange

LEMMA AssignStep ==
  ASSUME IInv, UNCHANGED <<specs, held, made>>, CachesInv',
         NEW o \in Exists, NEW k \in Int, NEW v \in Values, Assign(o, k, v)
  PROVE  IInv'
<1>1. StructsInv' /\ Exists' = Exists
  BY Assigned
<1>2. ASSUME NEW p \in Exists
      PROVE  /\ specs[structs'[p].spec] # None /\ Evaluated(structs'[p].spec)
             /\ structs'[p].vals \in
                  [DOMAIN specs[structs'[p].spec].fields -> Values \cup {Null}]
  <2>1. structs'[p].spec = structs[p].spec
          /\ structs'[p].vals \in [DOMAIN SpecOf(p).fields -> Values \cup {Null}]
    BY <1>2, Assigned
  <2> QED
    BY <2>1, StructTyped DEF SpecOf, IInv, TypeOK
<1> QED
  BY <1>1, <1>2, StructsChange

-----------------------------------------------------------------------------
(* The ways an access goes: a hit, a miss that finds the name, an error.   *)
LEMMA LoadCases ==
  ASSUME IInv, NEW o \in Exists, NEW i \in DOMAIN Loads, LoadStruct(i, o)
  PROVE  LET k == FieldIndex(SpecOf(o), Loads[i])
             m == Method(SpecOf(o), Loads[i])
         IN  /\ UNCHANGED <<specs, held, structs, made>> /\ MayRead(i, o) /\ named' = Loads[i]
             /\ IInv' /\ \A j \in Sites : j # i => caches'[j] = caches[j]
             /\ \/ /\ Hit(i, o) /\ UNCHANGED caches
                   /\ result' = Plain(FieldAt(o, caches[i].index))
                \/ /\ k = -1 /\ m = None /\ result' = Plain(Error)
                   /\ caches'[i].spec = None \/ caches'[i] = caches[i]
                \/ /\ k # -1 \/ m # None
                   /\ result' = IF k # -1 THEN Plain(FieldAt(o, k))
                                ELSE [of |-> o, value |-> m]
                   /\ \/ caches'[i].spec = None \/ caches'[i] = caches[i]
                      \/ caches'[i] = [spec |-> structs[o].spec, index |-> k]
<1> DEFINE k == FieldIndex(SpecOf(o), Loads[i])
           m == Method(SpecOf(o), Loads[i])
<1>1. i \in Sites /\ k \in Int
  BY StructTyped, FieldFound DEF Sites
<1>2. UNCHANGED <<specs, held, structs, made>> /\ MayRead(i, o) /\ named' = Loads[i]
  BY DEF LoadStruct
<1>3. CASE Hit(i, o)
  <2>1. caches' = caches /\ result' = Plain(FieldAt(o, caches[i].index))
    BY <1>3 DEF LoadStruct
  <2>2. CachesInv'
    BY <1>2, <2>1 DEF IInv, CachesInv, Evaluated
  <2> QED
    BY <1>2, <1>3, <2>1, <2>2, CachesOnly
<1>4. CASE ~Hit(i, o) /\ k = -1 /\ m = None
  <2>1. caches' = [caches EXCEPT ![i] = Deopt(caches[i])] /\ result' = Plain(Error)
    BY <1>4 DEF LoadStruct
  <2>2. Deopt(caches[i]).spec = None \/ Deopt(caches[i]) = caches[i]
    BY DEF Deopt
  <2>3. caches'[i].spec = None \/ caches'[i] = caches[i]
    BY <1>1, <2>1, <2>2 DEF IInv, CachesInv
  <2>4. CachesInv' /\ \A j \in Sites : j # i => caches'[j] = caches[j]
    BY <1>1, <1>2, <2>1, CacheFilled
  <2> QED
    BY <1>2, <1>4, <2>1, <2>3, <2>4, CachesOnly
<1>5. CASE ~Hit(i, o) /\ (k # -1 \/ m # None)
  <2>1. /\ caches' = [caches EXCEPT ![i] = Fill(Deopt(caches[i]), o, k)]
        /\ result' = IF k # -1 THEN Plain(FieldAt(o, k)) ELSE [of |-> o, value |-> m]
    BY <1>5 DEF LoadStruct
  <2>2. /\ CachesInv'
        /\ \A j \in Sites : j # i => caches'[j] = caches[j]
        /\ \/ caches'[i].spec = None \/ caches'[i] = caches[i]
           \/ caches'[i] = [spec |-> structs[o].spec, index |-> k]
    <3>1. specs' = specs
      BY <1>2
    <3> HIDE DEF k
    <3> QED
      BY <1>1, <2>1, <3>1, CacheFilled
  <2> QED
    BY <1>2, <1>5, <2>1, <2>2, CachesOnly
<1> QED
  BY <1>3, <1>4, <1>5

LEMMA StoreCases ==
  ASSUME IInv, NEW o \in Exists, NEW i \in DOMAIN Stores, NEW v \in Values,
         StoreStruct(i, o, v)
  PROVE  LET k == FieldIndex(SpecOf(o), Stores[i])
         IN  /\ UNCHANGED <<specs, held, made>> /\ IInv' /\ named' = Stores[i]
             /\ \A j \in Sites : j # i => caches'[j] = caches[j]
             /\ \/ /\ Hit(i, o) /\ UNCHANGED <<caches, result>>
                   /\ Assign(o, caches[i].index, v)
                \/ /\ k = -1 /\ result' = Plain(Error) /\ UNCHANGED structs
                   /\ caches'[i].spec = None \/ caches'[i] = caches[i]
                \/ /\ k # -1 /\ Assign(o, k, v) /\ UNCHANGED result
                   /\ \/ caches'[i].spec = None \/ caches'[i] = caches[i]
                      \/ caches'[i] = [spec |-> structs[o].spec, index |-> k]
<1> DEFINE k == FieldIndex(SpecOf(o), Stores[i])
<1>1. i \in Sites /\ k \in Int
  BY StructTyped, FieldFound DEF Sites
<1>2. UNCHANGED <<specs, held, made>> /\ named' = Stores[i]
  BY DEF StoreStruct
<1>3. CASE Hit(i, o)
  <2>1. UNCHANGED <<caches, result>> /\ Assign(o, caches[i].index, v)
    BY <1>3 DEF StoreStruct
  <2>2. CachesInv' /\ caches[i].index \in Int
    BY <1>1, <1>2, <2>1 DEF IInv, CachesInv, Evaluated
  <2> QED
    BY <1>2, <1>3, <2>1, <2>2, AssignStep
<1>4. CASE ~Hit(i, o) /\ k = -1
  <2>1. /\ caches' = [caches EXCEPT ![i] = Deopt(caches[i])]
        /\ result' = Plain(Error) /\ UNCHANGED structs
    BY <1>4 DEF StoreStruct
  <2>2. Deopt(caches[i]).spec = None \/ Deopt(caches[i]) = caches[i]
    BY DEF Deopt
  <2>3. caches'[i].spec = None \/ caches'[i] = caches[i]
    BY <1>1, <2>1, <2>2 DEF IInv, CachesInv
  <2>4. CachesInv' /\ \A j \in Sites : j # i => caches'[j] = caches[j]
    BY <1>1, <1>2, <2>1, CacheFilled
  <2> QED
    BY <1>2, <1>4, <2>1, <2>3, <2>4, CachesOnly
<1>5. CASE ~Hit(i, o) /\ k # -1
  <2>1. /\ caches' = [caches EXCEPT ![i] = Fill(Deopt(caches[i]), o, k)]
        /\ UNCHANGED result /\ Assign(o, k, v)
    BY <1>5 DEF StoreStruct
  <2>2. /\ CachesInv'
        /\ \A j \in Sites : j # i => caches'[j] = caches[j]
        /\ \/ caches'[i].spec = None \/ caches'[i] = caches[i]
           \/ caches'[i] = [spec |-> structs[o].spec, index |-> k]
    <3>1. specs' = specs
      BY <1>2
    <3> HIDE DEF k
    <3> QED
      BY <1>1, <2>1, <3>1, CacheFilled
  <2> QED
    BY <1>1, <1>2, <1>5, <2>1, <2>2, AssignStep
<1> QED
  BY <1>3, <1>4, <1>5

(* The other accesses change no cache, and at most one value.              *)
LEMMA SetCases ==
  ASSUME IInv, NEW o \in Exists, NEW n, NEW v \in Values, SetStructField(o, n, v)
  PROVE  LET k == FieldIndex(SpecOf(o), n)
         IN  /\ UNCHANGED <<specs, held, made, caches>> /\ IInv' /\ named' = n
             /\ \/ k # -1 /\ Assign(o, k, v) /\ UNCHANGED result
                \/ k = -1 /\ result' = Plain(Error) /\ UNCHANGED structs
<1> DEFINE k == FieldIndex(SpecOf(o), n)
<1>1. k \in Int
  BY StructTyped, FieldFound
<1>2. UNCHANGED <<specs, held, made, caches>> /\ named' = n
  BY DEF SetStructField
<1>3. CachesInv'
  BY <1>2 DEF IInv, CachesInv, Evaluated
<1>4. CASE k # -1
  <2>1. Assign(o, k, v) /\ UNCHANGED result
    BY <1>4 DEF SetStructField
  <2> QED
    BY <1>1, <1>2, <1>3, <1>4, <2>1, AssignStep
<1>5. CASE k = -1
  <2>1. result' = Plain(Error) /\ UNCHANGED structs
    BY <1>5 DEF SetStructField
  <2> QED
    BY <1>2, <1>3, <1>5, <2>1, CachesOnly
<1> QED
  BY <1>4, <1>5

LEMMA HeldChange ==
  ASSUME IInv, UNCHANGED <<specs, structs, made, caches>>,
         held' \subseteq Addresses, \A a \in held' : specs[a] # None
  PROVE  IInv'
<1>1. SpecsInv' /\ StructsInv' /\ CachesInv' /\ Exists' = Exists /\ UsedSpecs' = UsedSpecs
  BY DEF IInv, SpecsInv, StructsInv, CachesInv, Evaluated, Exists, UsedSpecs
<1>2. TypeOK'
  BY <1>1 DEF IInv, TypeOK, SpecOf
<1> QED
  BY <1>1, <1>2 DEF IInv

-----------------------------------------------------------------------------
LEMMA StepKeepsIInv == IInv /\ [Next]_vars => IInv'
<1> SUFFICES ASSUME IInv, [Next]_vars PROVE IInv'
  OBVIOUS
<1>1. CASE Collect
  BY <1>1, CollectStep
<1>2. CASE DropSpec
  BY <1>2, HeldChange DEF DropSpec, IInv, TypeOK
<1>3. ASSUME NEW d \in Decls, Declare(d) PROVE IInv'
  BY <1>3, DeclareStep
<1>4. ASSUME NEW fields \in Layouts, MakeSpec(fields) PROVE IInv'
  BY <1>4, MakeSpecStep
<1>5. ASSUME NEW o \in Objects, NEW a \in Decls \cup Addresses, NewStruct(o, a)
      PROVE  IInv'
  BY <1>5, NewStructStep DEF Specs
<1>6. ASSUME NEW o \in Exists,
             \/ GetSpec(o) \/ Drop(o)
             \/ \E i \in DOMAIN Loads : LoadStruct(i, o)
             \/ \E i \in DOMAIN Stores, v \in Values : StoreStruct(i, o, v)
             \/ \E n \in Names :
                  \/ LoadMethod(o, n) \/ GetStructField(o, n) \/ GetMethod(o, n)
                  \/ \E v \in Values : SetStructField(o, n, v)
      PROVE  IInv'
  <2>1. CASE GetSpec(o)
    <3>1. specs[structs[o].spec] # None
      BY DEF IInv, TypeOK, UsedSpecs
    <3> QED
      BY <2>1, <3>1, HeldChange DEF GetSpec, IInv, TypeOK
  <2>2. CASE Drop(o)
    BY <2>2, DropStep
  <2>3. ASSUME NEW i \in DOMAIN Loads, LoadStruct(i, o) PROVE IInv'
    BY <2>3, LoadCases
  <2>4. ASSUME NEW i \in DOMAIN Stores, NEW v \in Values, StoreStruct(i, o, v)
        PROVE  IInv'
    BY <2>4, StoreCases
  <2>5. ASSUME NEW n, LoadMethod(o, n) \/ GetStructField(o, n) \/ GetMethod(o, n)
        PROVE  IInv'
    <3>1. UNCHANGED <<specs, held, structs, made, caches>>
      BY <2>5 DEF LoadMethod, GetStructField, GetMethod
    <3> QED
      BY <3>1, HeldChange DEF IInv, TypeOK
  <2>6. ASSUME NEW n, NEW v \in Values, SetStructField(o, n, v) PROVE IInv'
    BY <2>6, SetCases
  <2> QED
    BY <1>6, <2>1, <2>2, <2>3, <2>4, <2>5, <2>6
<1>7. CASE UNCHANGED vars
  BY <1>7, HeldChange DEF vars, IInv, TypeOK
<1> QED
  BY <1>1, <1>2, <1>3, <1>4, <1>5, <1>6, <1>7 DEF Next

LEMMA Invariance == Spec => []IInv
BY InitIInv, StepKeepsIInv, PTL DEF Spec

(* A struct has a value for each field of its spec, which is not collected *)
(* before it and has all its methods, whatever a program does.             *)
THEOREM TypeCorrect == Spec => []TypeOK
<1>1. IInv => TypeOK
  BY DEF IInv
<1> QED
  BY <1>1, Invariance, PTL
-----------------------------------------------------------------------------
(* CachesAgree in terms of names: where the method a cache stands for is   *)
(* among the methods of its spec; and an instruction that stores stands    *)
(* for a field.                                                            *)
AgreeAt(i) ==
  LET a == caches[i].spec IN
  a # None /\ specs[a] # None =>
    /\ caches[i].index = FieldIndex(specs[a], NameAt(i))
    /\ caches[i].index = -1 => NameAt(i) \in Range(specs[a].methods)
    /\ i \in DOMAIN Stores => caches[i].index # -1
AgreeInv == \A i \in Sites : AgreeAt(i)

LEMMA AgreeImpliesCachesAgree == IInv /\ AgreeInv => CachesAgree
<1> SUFFICES ASSUME IInv, AgreeInv, NEW i \in Sites,
                    caches[i].spec # None, specs[caches[i].spec] # None
             PROVE  /\ caches[i].index = FieldIndex(specs[caches[i].spec], NameAt(i))
                    /\ caches[i].index = -1 =>
                         Method(specs[caches[i].spec], NameAt(i)) # None
  BY DEF CachesAgree
<1>1. caches[i].spec \in Specs /\ specs[caches[i].spec] \in SpecRecords
  BY DEF IInv, CachesInv, SpecsInv
<1>2. Len(specs[caches[i].spec].funcs) = Len(specs[caches[i].spec].methods)
  BY DEF IInv, CachesInv, Evaluated
<1> QED
  BY <1>1, <1>2, MethodFound DEF AgreeInv, AgreeAt

(* Caches stay right when the specs they name keep their names.            *)
LEMMA AgreeKept ==
  ASSUME AgreeInv, UNCHANGED caches,
         \A i \in Sites : LET a == caches[i].spec IN
           a # None /\ specs'[a] # None =>
             /\ specs[a] # None /\ specs'[a].fields = specs[a].fields
             /\ specs'[a].methods = specs[a].methods
  PROVE  AgreeInv'
<1> SUFFICES ASSUME NEW i \in Sites PROVE AgreeAt(i)'
  BY DEF AgreeInv
<1> DEFINE a == caches[i].spec
<1>1. CASE a = None \/ specs'[a] = None
  BY <1>1 DEF AgreeAt
<1>2. CASE a # None /\ specs'[a] # None
  <2>1. /\ specs[a] # None /\ specs'[a].fields = specs[a].fields
        /\ specs'[a].methods = specs[a].methods
    BY <1>2
  <2>2. FieldIndex(specs'[a], NameAt(i)) = FieldIndex(specs[a], NameAt(i))
    BY <2>1 DEF FieldIndex
  <2>3. AgreeAt(i)
    BY DEF AgreeInv
  <2> QED
    BY <1>2, <2>1, <2>2, <2>3 DEF AgreeAt, NameAt
<1> QED
  BY <1>1, <1>2

(* One cache was emptied, left alone or filled with a spec's own index.     *)
LEMMA AgreeFilled ==
  ASSUME IInv, AgreeInv, UNCHANGED specs, NEW o \in Exists, NEW i \in Sites,
         \A j \in Sites : j # i => caches'[j] = caches[j],
         \/ caches'[i].spec = None \/ caches'[i] = caches[i]
         \/ LET k == FieldIndex(SpecOf(o), NameAt(i)) IN
            /\ caches'[i] = [spec |-> structs[o].spec, index |-> k]
            /\ k # -1 \/ (i \notin DOMAIN Stores /\ Method(SpecOf(o), NameAt(i)) # None)
  PROVE  AgreeInv'
<1> SUFFICES ASSUME NEW j \in Sites PROVE AgreeAt(j)'
  BY DEF AgreeInv
<1> DEFINE k == FieldIndex(SpecOf(o), NameAt(i))
<1>1. CASE caches'[j] = caches[j]
  BY <1>1 DEF AgreeInv, AgreeAt, NameAt
<1>2. CASE caches'[j].spec = None
  BY <1>2 DEF AgreeAt
<1>3. CASE /\ j = i /\ caches'[i] = [spec |-> structs[o].spec, index |-> k]
           /\ k # -1 \/ (i \notin DOMAIN Stores /\ Method(SpecOf(o), NameAt(i)) # None)
  <2>1. k = -1 => NameAt(i) \in Range(SpecOf(o).methods)
    BY <1>3, StructTyped, MethodFound DEF Evaluated, SpecOf
  <2>2. caches'[i].spec = structs[o].spec /\ caches'[i].index = k
    BY <1>3
  <2>3. SpecOf(o) = specs'[structs[o].spec]
    BY DEF SpecOf
  <2> HIDE DEF k
  <2>4. k = FieldIndex(SpecOf(o), NameAt(i))
    BY DEF k
  <2> QED
    BY <1>3, <2>1, <2>2, <2>3, <2>4 DEF AgreeAt, NameAt
<1> QED
  BY <1>1, <1>2, <1>3
LEMMA StepKeepsAgree ==
  IInv /\ AgreeInv /\ [Next]_vars /\ "reuse_address" \notin Features => AgreeInv'
<1> SUFFICES ASSUME IInv, AgreeInv, [Next]_vars, "reuse_address" \notin Features
             PROVE  AgreeInv'
  OBVIOUS
<1>1. CASE Collect
  <2>1. UNCHANGED caches /\ \A a \in Specs : specs'[a] \in {None, specs[a]}
    BY <1>1 DEF Collect, IInv, SpecsInv
  <2>2. \A i \in Sites : caches[i].spec # None => caches[i].spec \in Specs
    BY DEF IInv, CachesInv
  <2> QED
    BY <2>1, <2>2, AgreeKept
<1>2. ASSUME UNCHANGED <<specs, caches>> PROVE AgreeInv'
  BY <1>2, AgreeKept
<1>3. ASSUME NEW d \in Decls, Declare(d) PROVE AgreeInv'
  <2>1. UNCHANGED caches
    BY <1>3 DEF Declare
  <2> DEFINE f == SubSeq(Functions, made + 1, made + Len(Declared[d].methods))
  <2>2. specs' = [specs EXCEPT ![d].funcs = f]
    BY <1>3 DEF Declare
  <2> HIDE DEF f
  <2>3. d \in Specs /\ specs[d] \in SpecRecords /\ specs[d] # None
    BY DEF IInv, SpecsInv, Specs
  <2>4. \A a \in Specs : /\ specs'[a] = specs[a] \/ a = d
                         /\ specs'[d].fields = specs[d].fields
                         /\ specs'[d].methods = specs[d].methods
    BY <2>2, <2>3 DEF IInv, SpecsInv, SpecRecords
  <2>5. \A i \in Sites : caches[i].spec # None => caches[i].spec \in Specs
    BY DEF IInv, CachesInv
  <2> QED
    BY <2>1, <2>3, <2>4, <2>5, AgreeKept
<1>4. ASSUME NEW fields \in Layouts, MakeSpec(fields) PROVE AgreeInv'
  <2>1. PICK a \in Addresses :
          /\ \A i \in Sites : caches[i].spec # a
          /\ specs' = [specs EXCEPT ![a] =
                         [fields |-> fields, methods |-> <<>>, funcs |-> <<>>]]
    BY <1>4 DEF MakeSpec, MayUse
  <2>2. UNCHANGED caches /\ \A b \in Specs : b # a => specs'[b] = specs[b]
    BY <1>4, <2>1 DEF MakeSpec, IInv, SpecsInv
  <2>3. \A i \in Sites : caches[i].spec # None => caches[i].spec \in Specs
    BY DEF IInv, CachesInv
  <2> QED
    BY <2>1, <2>2, <2>3, AgreeKept
<1>5. ASSUME NEW o \in Exists, NEW i \in DOMAIN Loads, LoadStruct(i, o)
      PROVE  AgreeInv'
  <2>1. i \in Sites /\ NameAt(i) = Loads[i] /\ i \notin DOMAIN Stores
    BY ConstantsAssumption DEF Sites, NameAt
  <2> DEFINE k == FieldIndex(SpecOf(o), Loads[i])
  <2>2. /\ UNCHANGED specs /\ \A j \in Sites : j # i => caches'[j] = caches[j]
        /\ \/ UNCHANGED caches
           \/ caches'[i].spec = None \/ caches'[i] = caches[i]
           \/ /\ caches'[i] = [spec |-> structs[o].spec, index |-> k]
              /\ k # -1 \/ Method(SpecOf(o), Loads[i]) # None
    BY <1>5, LoadCases
  <2> HIDE DEF k
  <2>3. k = FieldIndex(SpecOf(o), NameAt(i))
    BY <2>1 DEF k
  <2> QED
    BY <1>2, <2>1, <2>2, <2>3, AgreeFilled
<1>6. ASSUME NEW o \in Exists, NEW i \in DOMAIN Stores, NEW v \in Values,
             StoreStruct(i, o, v)
      PROVE  AgreeInv'
  <2>1. i \in Sites /\ NameAt(i) = Stores[i]
    BY ConstantsAssumption DEF Sites, NameAt
  <2> DEFINE k == FieldIndex(SpecOf(o), Stores[i])
  <2>2. /\ UNCHANGED specs /\ \A j \in Sites : j # i => caches'[j] = caches[j]
        /\ \/ UNCHANGED caches
           \/ caches'[i].spec = None \/ caches'[i] = caches[i]
           \/ caches'[i] = [spec |-> structs[o].spec, index |-> k] /\ k # -1
    BY <1>6, StoreCases
  <2> HIDE DEF k
  <2>3. k = FieldIndex(SpecOf(o), NameAt(i))
    BY <2>1 DEF k
  <2> QED
    BY <1>2, <2>1, <2>2, <2>3, AgreeFilled
<1>7. ASSUME NEW o \in Exists,
             \/ GetSpec(o) \/ Drop(o)
             \/ \E n \in Names :
                  \/ LoadMethod(o, n) \/ GetStructField(o, n) \/ GetMethod(o, n)
                  \/ \E v \in Values : SetStructField(o, n, v)
      PROVE  UNCHANGED <<specs, caches>>
  BY <1>7 DEF GetSpec, Drop, LoadMethod, GetStructField, GetMethod, SetStructField
<1>8. CASE DropSpec \/ UNCHANGED vars \/ \E o \in Objects, a \in Specs : NewStruct(o, a)
  <2>1. UNCHANGED <<specs, caches>>
    BY <1>8 DEF DropSpec, vars, NewStruct
  <2> QED
    BY <2>1, <1>2
<1> QED
  BY <1>1, <1>2, <1>3, <1>4, <1>5, <1>6, <1>7, <1>8 DEF Next, Specs

LEMMA AgreeInvariance == "reuse_address" \notin Features => (Spec => []AgreeInv)
<1>1. Init => AgreeInv
  BY DEF Init, AgreeInv, AgreeAt
<1>2. "reuse_address" \notin Features /\ IInv /\ AgreeInv /\ [Next]_vars => AgreeInv'
  BY StepKeepsAgree
<1>3. CASE "reuse_address" \notin Features
  <2>1. IInv /\ AgreeInv /\ [Next]_vars => AgreeInv'
    BY <1>2, <1>3
  <2> QED
    BY <1>1, <2>1, Invariance, PTL DEF Spec
<1> QED
  BY <1>3

(* Unless a spec gets the memory of a collected one that a cache still     *)
(* names (struct.c:16-46, eval.c:1133-1228), every cache that names a spec *)
(* has the index a search of that spec finds.                              *)
THEOREM CachesAlwaysAgree == "reuse_address" \notin Features => (Spec => []CachesAgree)
<1> SUFFICES ASSUME "reuse_address" \notin Features PROVE Spec => []CachesAgree
  OBVIOUS
<1>1. Spec => []AgreeInv
  BY AgreeInvariance
<1> QED
  BY <1>1, AgreeImpliesCachesAgree, Invariance, PTL
-----------------------------------------------------------------------------
(* The refinement: what the record of a struct says of a name.             *)
LEMMA Views ==
  ASSUME IInv, NEW o \in Exists
  PROVE  /\ o \in Objects
         /\ FieldsView[o] = ByName(o) /\ MethodsView[o] = MethodsByName(o)
         /\ ByName(o) \in [Range(SpecOf(o).fields) -> Values \cup {Null}]
         /\ FieldsView[o] # None
         /\ MethodsByName(o) \in [Range(SpecOf(o).methods) -> Range(Functions)]
<1>1. o \in Objects /\ structs[o] # None
  BY DEF Exists
<1>2. FieldsView[o] = ByName(o) /\ MethodsView[o] = MethodsByName(o)
  BY <1>1 DEF FieldsView, MethodsView
<1>3. ASSUME NEW n \in Range(SpecOf(o).fields)
      PROVE  FieldAt(o, FieldIndex(SpecOf(o), n)) \in Values \cup {Null}
  <2>1. FieldIndex(SpecOf(o), n) + 1 \in DOMAIN structs[o].vals
    BY <1>3, StructTyped, FieldFound
  <2> QED
    BY <2>1, StructTyped DEF FieldAt
<1>4. ByName(o) \in [Range(SpecOf(o).fields) -> Values \cup {Null}]
  BY <1>3 DEF ByName
<1>5. None \notin [Range(SpecOf(o).fields) -> Values \cup {Null}]
  BY StructTyped, NoneAssumption DEF FieldLists
<1>6. \A n \in Range(SpecOf(o).methods) : Method(SpecOf(o), n) \in Range(Functions)
  BY StructTyped, MethodFound DEF Evaluated, SpecOf
<1> QED
  BY <1>1, <1>2, <1>4, <1>5, <1>6 DEF MethodsByName

LEMMA Lookup ==
  ASSUME IInv, NEW o \in Exists, NEW n
  PROVE  LET k == FieldIndex(SpecOf(o), n)
             m == Method(SpecOf(o), n)
         IN  /\ AsRecords!Has(FieldsView[o], n) <=> k # -1
             /\ AsRecords!Has(FieldsView[o], n) => FieldsView[o][n] = FieldAt(o, k)
             /\ AsRecords!Has(MethodsView[o], n) <=> m # None
             /\ AsRecords!Has(MethodsView[o], n) => MethodsView[o][n] = m
<1>1. SpecOf(o) \in SpecRecords /\ Len(SpecOf(o).funcs) = Len(SpecOf(o).methods)
  BY StructTyped DEF Evaluated, SpecOf
<1>2. FieldIndex(SpecOf(o), n) # -1 <=> n \in Range(SpecOf(o).fields)
  BY <1>1, FieldFound
<1>3. Method(SpecOf(o), n) # None <=> n \in Range(SpecOf(o).methods)
  BY <1>1, MethodFound
<1>4. DOMAIN ByName(o) = Range(SpecOf(o).fields)
        /\ DOMAIN MethodsByName(o) = Range(SpecOf(o).methods)
  BY DEF ByName, MethodsByName
<1> QED
  BY <1>2, <1>3, <1>4, Views DEF AsRecords!Has, ByName, MethodsByName

LEMMA ExistsView ==
  ASSUME IInv
  PROVE  AsRecords!Exists = Exists
<1>1. \A o \in Objects \ Exists : FieldsView[o] = None
  BY DEF FieldsView, Exists
<1> QED
  BY <1>1, Views DEF AsRecords!Exists, Exists

(* Structs that keep their values and the names of their specs look alike. *)
LEMMA SameView ==
  ASSUME IInv, Exists' = Exists,
         \A o \in Exists : /\ structs'[o] = structs[o]
                           /\ SpecOf(o)' = SpecOf(o)
  PROVE  FieldsView' = FieldsView /\ MethodsView' = MethodsView
<1>1. ASSUME NEW o \in Objects
      PROVE  FieldsView'[o] = FieldsView[o] /\ MethodsView'[o] = MethodsView[o]
  <2>1. CASE o \in Exists
    <3>1. structs'[o] # None /\ structs[o] # None
      BY <2>1 DEF Exists
    <3>2. ByName(o)' = ByName(o)
      BY <2>1 DEF ByName, FieldAt
    <3>3. MethodsByName(o)' = MethodsByName(o)
      BY <2>1 DEF MethodsByName
    <3> QED
      BY <3>1, <3>2, <3>3 DEF FieldsView, MethodsView
  <2>2. CASE o \notin Exists
    <3>1. structs'[o] = None /\ structs[o] = None
      BY <2>2 DEF Exists
    <3> QED
      BY <3>1 DEF FieldsView, MethodsView
  <2> QED
    BY <2>1, <2>2
<1> QED
  BY <1>1 DEF FieldsView, MethodsView

LEMMA UnchangedView ==
  ASSUME IInv, UNCHANGED <<specs, structs>>
  PROVE  FieldsView' = FieldsView /\ MethodsView' = MethodsView
<1>1. Exists' = Exists /\ \A o \in Exists : SpecOf(o)' = SpecOf(o)
  BY DEF Exists, SpecOf
<1> QED
  BY <1>1, SameView

(* The other structs keep their records when one changes.                  *)
LEMMA OneViewChanges ==
  ASSUME IInv, UNCHANGED specs, NEW o \in Objects,
         \A p \in Objects : p # o => structs'[p] = structs[p]
  PROVE  /\ FieldsView' = [FieldsView EXCEPT ![o] = FieldsView'[o]]
         /\ MethodsView' = [MethodsView EXCEPT ![o] = MethodsView'[o]]
<1>1. ASSUME NEW p \in Objects, p # o
      PROVE  FieldsView'[p] = FieldsView[p] /\ MethodsView'[p] = MethodsView[p]
  <2>1. structs'[p] = structs[p]
    BY <1>1
  <2>2. SpecOf(p)' = SpecOf(p)
    BY <2>1 DEF SpecOf
  <2>3. ByName(p)' = ByName(p) /\ MethodsByName(p)' = MethodsByName(p)
    BY <2>1, <2>2 DEF ByName, MethodsByName, FieldAt
  <2> QED
    BY <2>1, <2>3 DEF FieldsView, MethodsView
<1> QED
  BY <1>1 DEF FieldsView, MethodsView

LEMMA NewStructCreates ==
  ASSUME IInv, NEW o \in Objects, NEW a \in Specs, NewStruct(o, a)
  PROVE  AsRecords!Create(o)
<1>1. /\ structs' = [structs EXCEPT ![o] = structs'[o]]
      /\ structs'[o] # None /\ structs'[o].spec = a
      /\ structs'[o].vals = [i \in DOMAIN specs[a].fields |-> Null]
      /\ specs[a] \in SpecRecords /\ specs[a].fields \in FieldLists /\ Evaluated(a)
  BY NewStructStep
<1>2. structs[o] = None /\ UNCHANGED <<specs, result, named>>
  BY DEF NewStruct
<1>3. \A p \in Objects : p # o => structs'[p] = structs[p]
  BY <1>1 DEF IInv, StructsInv
<1>4. SpecOf(o)' = specs[a]
  BY <1>1, <1>2 DEF SpecOf
<1>5. ASSUME NEW n \in Range(specs[a].fields)
      PROVE  FieldAt(o, FieldIndex(SpecOf(o), n))' = Null
  <2>1. FieldIndex(SpecOf(o), n)' = FieldIndex(specs[a], n)
    BY <1>4
  <2>2. FieldIndex(specs[a], n) + 1 \in DOMAIN specs[a].fields
    BY <1>1, <1>5, FieldFound
  <2> QED
    BY <1>1, <2>1, <2>2 DEF FieldAt
<1>6. ByName(o)' = [n \in Range(specs[a].fields) |-> Null]
  BY <1>4, <1>5 DEF ByName
<1>7. MethodsByName(o)' = [n \in Range(specs[a].methods) |-> Method(specs[a], n)]
  BY <1>4 DEF MethodsByName
<1>8. ByName(o)' # None
  <2>1. ByName(o)' \in [Range(specs[a].fields) -> Values \cup {Null}]
    BY <1>6
  <2>2. None \notin [Range(specs[a].fields) -> Values \cup {Null}]
    BY <1>1, NoneAssumption DEF FieldLists
  <2> QED
    BY <2>1, <2>2
<1>9. FieldsView'[o] = ByName(o)' /\ MethodsView'[o] = MethodsByName(o)'
  BY <1>1 DEF FieldsView, MethodsView
<1>10. Range(ByName(o)') \subseteq {Null}
  BY <1>6 DEF Range
<1>11. Range(MethodsByName(o)') \subseteq Range(Functions)
  <2>1. \A n \in Range(specs[a].methods) : Method(specs[a], n) \in Range(Functions)
    BY <1>1, MethodFound DEF Evaluated
  <2>2. ASSUME NEW x \in Range(MethodsByName(o)') PROVE x \in Range(Functions)
    <3>1. PICK n \in DOMAIN MethodsByName(o)' : x = MethodsByName(o)'[n]
      BY <2>2 DEF Range
    <3> QED
      BY <3>1, <2>1, <1>7
  <2> QED
    BY <2>2
<1>12. AsRecords!Range(ByName(o)') = Range(ByName(o)')
         /\ AsRecords!Range(MethodsByName(o)') = Range(MethodsByName(o)')
  BY DEF AsRecords!Range, Range
<1>13. o \notin AsRecords!Exists
  BY <1>2, ExistsView DEF Exists
<1> QED
  BY <1>2, <1>3, <1>8, <1>9, <1>10, <1>11, <1>12, <1>13,
     OneViewChanges DEF AsRecords!Create

LEMMA DropForgets ==
  ASSUME IInv, NEW o \in Exists, Drop(o)
  PROVE  AsRecords!Forget(o)
<1>1. structs' = [structs EXCEPT ![o] = None] /\ UNCHANGED <<specs, result, named>> /\ o \in Objects
  BY DEF Drop, Exists
<1>2. structs'[o] = None /\ \A p \in Objects : p # o => structs'[p] = structs[p]
  BY <1>1 DEF IInv, StructsInv
<1>3. FieldsView'[o] = None /\ MethodsView'[o] = None
  BY <1>1, <1>2 DEF FieldsView, MethodsView
<1> QED
  BY <1>1, <1>2, <1>3, OneViewChanges DEF AsRecords!Forget

LEMMA LoadGets ==
  ASSUME IInv, AgreeInv, Features = {}, NEW o \in Exists, NEW i \in DOMAIN Loads,
         LoadStruct(i, o)
  PROVE  AsRecords!Get(o, Loads[i])
<1> DEFINE k == FieldIndex(SpecOf(o), Loads[i])
           m == Method(SpecOf(o), Loads[i])
<1>1. FieldsView' = FieldsView /\ MethodsView' = MethodsView /\ named' = Loads[i]
  BY LoadCases, UnchangedView
<1>2. result' = IF k # -1 THEN Plain(FieldAt(o, k))
                ELSE IF m # None THEN [of |-> o, value |-> m] ELSE Plain(Error)
  <2>1. CASE Hit(i, o) /\ result' = Plain(FieldAt(o, caches[i].index))
    <3>1. caches[i].index # -1
      BY <2>1, LoadCases DEF MayRead, Hit
    <3>2. caches[i].spec \in Specs /\ specs[caches[i].spec] # None
            /\ caches[i].spec = structs[o].spec
      BY <2>1, StructTyped DEF Hit, IInv, TypeOK
    <3>3. i \in Sites /\ NameAt(i) = Loads[i]
      BY DEF Sites, NameAt
    <3>4. caches[i].spec # None
      BY <3>2, NoneAssumption DEF Specs
    <3>5. caches[i].index = k
      BY <3>2, <3>3, <3>4 DEF AgreeInv, AgreeAt, SpecOf
    <3> QED
      BY <2>1, <3>1, <3>5
  <2>2. CASE k = -1 /\ m = None /\ result' = Plain(Error)
    BY <2>2
  <2>3. CASE (k # -1 \/ m # None) /\ result' = IF k # -1 THEN Plain(FieldAt(o, k))
                                               ELSE [of |-> o, value |-> m]
    BY <2>3
  <2> QED
    BY <2>1, <2>2, <2>3, LoadCases
<1> HIDE DEF k, m
<1>3. /\ AsRecords!Has(FieldsView[o], Loads[i]) <=> k # -1
      /\ AsRecords!Has(FieldsView[o], Loads[i]) => FieldsView[o][Loads[i]] = FieldAt(o, k)
      /\ AsRecords!Has(MethodsView[o], Loads[i]) <=> m # None
      /\ AsRecords!Has(MethodsView[o], Loads[i]) => MethodsView[o][Loads[i]] = m
  BY Lookup DEF k, m
<1> QED
  BY <1>1, <1>2, <1>3 DEF AsRecords!Get, AsRecords!Plain, Plain

(* A write at the index of a name changes the value of that name alone.    *)
LEMMA AssignSets ==
  ASSUME IInv, UNCHANGED specs, NEW o \in Exists, NEW n, NEW v \in Values,
         FieldIndex(SpecOf(o), n) # -1, Assign(o, FieldIndex(SpecOf(o), n), v)
  PROVE  /\ FieldsView' = [FieldsView EXCEPT ![o][n] = v] /\ UNCHANGED MethodsView
         /\ AsRecords!Has(FieldsView[o], n)
<1> DEFINE k == FieldIndex(SpecOf(o), n)
           fs == SpecOf(o).fields
<1>1. SpecOf(o) \in SpecRecords /\ o \in Objects /\ structs[o] # None
  BY StructTyped DEF Exists
<1>2. k \in Int /\ n \in Range(fs) /\ k + 1 \in DOMAIN fs /\ fs[k + 1] = n
  BY <1>1, FieldFound
<1>3. /\ Exists' = Exists /\ structs'[o].spec = structs[o].spec
      /\ \A p \in Exists \ {o} : structs'[p] = structs[p]
      /\ structs'[o].vals = IF k + 1 \in DOMAIN structs[o].vals
                            THEN [structs[o].vals EXCEPT ![k + 1] = v]
                            ELSE structs[o].vals
  <2> HIDE DEF k
  <2>1. Assign(o, k, v)
    BY DEF k
  <2> QED
    BY <1>2, <2>1, Assigned
<1>4. DOMAIN structs[o].vals = DOMAIN fs
  BY StructTyped
<1>5. SpecOf(o)' = SpecOf(o)
  BY <1>3 DEF SpecOf
<1>6. ASSUME NEW q \in Range(fs)
      PROVE  FieldAt(o, FieldIndex(SpecOf(o), q))'
               = IF q = n THEN v ELSE FieldAt(o, FieldIndex(SpecOf(o), q))
  <2> DEFINE j == FieldIndex(SpecOf(o), q)
  <2>1. j \in Int /\ j + 1 \in DOMAIN fs /\ fs[j + 1] = q
    BY <1>1, <1>6, FieldFound
  <2>2. FieldIndex(SpecOf(o), q)' = j
    BY <1>5
  <2> HIDE DEF j, k
  <2>3. /\ FieldAt(o, FieldIndex(SpecOf(o), q))' = structs'[o].vals[j + 1]
        /\ FieldAt(o, j) = structs[o].vals[j + 1]
    BY <1>2, <1>3, <1>4, <2>1, <2>2 DEF FieldAt
  <2>4. q = n => j = k
    BY DEF j, k
  <2>5. q # n => j + 1 # k + 1
    BY <1>2, <2>1
  <2>6. structs'[o].vals[j + 1] = IF q = n THEN v ELSE structs[o].vals[j + 1]
    BY <1>2, <1>3, <1>4, <2>1, <2>4, <2>5
  <2> QED
    BY <2>3, <2>6 DEF j
<1>7. ByName(o)' = [ByName(o) EXCEPT ![n] = v]
  BY <1>5, <1>6 DEF ByName
<1>8. MethodsByName(o)' = MethodsByName(o)
  BY <1>5 DEF MethodsByName
<1>9. \A p \in Objects : p # o => structs'[p] = structs[p]
  BY <1>3 DEF Exists
<1>10. structs'[o] # None
  BY <1>3, <1>1 DEF Exists
<1>11. /\ FieldsView[o] = ByName(o) /\ FieldsView'[o] = ByName(o)'
       /\ MethodsView[o] = MethodsByName(o) /\ MethodsView'[o] = MethodsByName(o)'
  BY <1>1, <1>10 DEF FieldsView, MethodsView
<1>12. /\ FieldsView' = [FieldsView EXCEPT ![o] = FieldsView'[o]]
       /\ MethodsView' = [MethodsView EXCEPT ![o] = MethodsView'[o]]
  BY <1>1, <1>9, OneViewChanges
<1>13. MethodsView' = MethodsView
  BY <1>8, <1>11, <1>12 DEF MethodsView
<1> QED
  BY <1>7, <1>11, <1>12, <1>13, Lookup

LEMMA StoreSets ==
  ASSUME IInv, AgreeInv, NEW o \in Exists, NEW i \in DOMAIN Stores,
         NEW v \in Values, StoreStruct(i, o, v)
  PROVE  AsRecords!Set(o, Stores[i])
<1> DEFINE k == FieldIndex(SpecOf(o), Stores[i])
<1>1. /\ UNCHANGED specs /\ named' = Stores[i]
      /\ k # -1 <=> AsRecords!Has(FieldsView[o], Stores[i])
  BY StoreCases, Lookup
<1>2. CASE k # -1 /\ Assign(o, k, v) /\ UNCHANGED result
  BY <1>1, <1>2, AssignSets DEF AsRecords!Set
<1>3. CASE Hit(i, o) /\ UNCHANGED result /\ Assign(o, caches[i].index, v)
  <2>1. /\ caches[i].spec = structs[o].spec /\ caches[i].spec \in Specs
        /\ specs[caches[i].spec] # None /\ i \in Sites
    BY <1>3, StructTyped DEF Hit, IInv, TypeOK, Sites
  <2>2. caches[i].spec # None
    BY <2>1, NoneAssumption DEF Specs
  <2>3. NameAt(i) = Stores[i]
    BY ConstantsAssumption DEF NameAt
  <2>4. caches[i].index = k /\ caches[i].index # -1
    BY <2>1, <2>2, <2>3 DEF AgreeInv, AgreeAt, SpecOf
  <2> QED
    BY <1>2, <1>3, <2>4
<1>4. CASE k = -1 /\ result' = Plain(Error) /\ UNCHANGED structs
  <2>1. FieldsView' = FieldsView /\ MethodsView' = MethodsView
    BY <1>1, <1>4, UnchangedView
  <2> QED
    BY <1>1, <1>4, <2>1 DEF AsRecords!Set, AsRecords!Plain, Plain
<1> QED
  BY <1>2, <1>3, <1>4, StoreCases

LEMMA SetSets ==
  ASSUME IInv, NEW o \in Exists, NEW n, NEW v \in Values, SetStructField(o, n, v)
  PROVE  AsRecords!Set(o, n)
<1> DEFINE k == FieldIndex(SpecOf(o), n)
<1>1. /\ UNCHANGED specs /\ named' = n
      /\ k # -1 <=> AsRecords!Has(FieldsView[o], n)
  BY SetCases, Lookup
<1>2. CASE k # -1 /\ Assign(o, k, v) /\ UNCHANGED result
  BY <1>1, <1>2, AssignSets DEF AsRecords!Set
<1>3. CASE k = -1 /\ result' = Plain(Error) /\ UNCHANGED structs
  <2>1. FieldsView' = FieldsView /\ MethodsView' = MethodsView
    BY <1>1, <1>3, UnchangedView
  <2> QED
    BY <1>1, <1>3, <2>1 DEF AsRecords!Set, AsRecords!Plain, Plain
<1> QED
  BY <1>2, <1>3, SetCases

(* The accesses that change nothing.                                       *)
LEMMA ReadsRead ==
  ASSUME IInv, NEW o \in Exists, NEW n
  PROVE  /\ LoadMethod(o, n) => AsRecords!Callee(o, n)
         /\ GetStructField(o, n) => AsRecords!GetField(o, n)
         /\ GetMethod(o, n) => AsRecords!GetMethod(o, n)
<1> DEFINE k == FieldIndex(SpecOf(o), n)
           m == Method(SpecOf(o), n)
<1>1. /\ AsRecords!Has(FieldsView[o], n) <=> k # -1
      /\ AsRecords!Has(FieldsView[o], n) => FieldsView[o][n] = FieldAt(o, k)
      /\ AsRecords!Has(MethodsView[o], n) <=> m # None
      /\ AsRecords!Has(MethodsView[o], n) => MethodsView[o][n] = m
  BY Lookup
<1>2. UNCHANGED <<specs, structs>> => FieldsView' = FieldsView /\ MethodsView' = MethodsView
  BY UnchangedView
<1>3. /\ LoadMethod(o, n) =>
           /\ UNCHANGED <<specs, structs>> /\ named' = n
           /\ result' = Plain(IF m # None THEN m ELSE IF k # -1 THEN FieldAt(o, k) ELSE Error)
      /\ GetStructField(o, n) =>
           /\ UNCHANGED <<specs, structs>> /\ named' = n
           /\ result' = Plain(IF k # -1 THEN FieldAt(o, k) ELSE Error)
      /\ GetMethod(o, n) =>
           /\ UNCHANGED <<specs, structs>> /\ named' = n
           /\ result' = Plain(IF m # None THEN m ELSE Error)
  BY DEF LoadMethod, GetStructField, GetMethod
<1> HIDE DEF k, m
<1> QED
  BY <1>1, <1>2, <1>3
  DEF AsRecords!Callee, AsRecords!GetField, AsRecords!GetMethod, AsRecords!Plain, Plain

LEMMA StructsInit == Init => AsRecords!Init
<1> SUFFICES ASSUME Init PROVE AsRecords!Init
  OBVIOUS
<1>1. \A o \in Objects : structs[o] = None
  BY DEF Init
<1> QED
  BY <1>1 DEF Init, AsRecords!Init, FieldsView, MethodsView, Plain

LEMMA StructsStep ==
  IInv /\ AgreeInv /\ Features = {} /\ [Next]_vars => [AsRecords!Next]_(AsRecords!vars)
<1> SUFFICES ASSUME IInv, AgreeInv, Features = {}, [Next]_vars
             PROVE  AsRecords!Next \/ UNCHANGED AsRecords!vars
  OBVIOUS
<1>1. CASE Collect
  <2>1. /\ UNCHANGED <<structs, result, named>>
        /\ \A a \in UsedSpecs : a \in Specs /\ specs'[a] = specs[a]
    BY <1>1, StructTyped DEF Collect, Garbage, IInv, SpecsInv, UsedSpecs
  <2>2. Exists' = Exists /\ \A o \in Exists : SpecOf(o)' = SpecOf(o)
    BY <2>1 DEF Exists, UsedSpecs, SpecOf
  <2> QED
    BY <2>1, <2>2, SameView DEF AsRecords!vars
<1>2. ASSUME NEW d \in Decls, Declare(d) PROVE UNCHANGED AsRecords!vars
  <2>1. d \notin UsedSpecs /\ UNCHANGED <<structs, result, named>>
    BY <1>2 DEF Declare, MayDeclare
  <2> DEFINE f == SubSeq(Functions, made + 1, made + Len(Declared[d].methods))
  <2>2. specs' = [specs EXCEPT ![d].funcs = f]
    BY <1>2 DEF Declare
  <2> HIDE DEF f
  <2>3. \A a \in UsedSpecs : specs'[a] = specs[a]
    BY <2>1, <2>2, StructTyped DEF IInv, SpecsInv, UsedSpecs
  <2>4. Exists' = Exists /\ \A o \in Exists : SpecOf(o)' = SpecOf(o)
    BY <2>1, <2>3 DEF Exists, UsedSpecs, SpecOf
  <2> QED
    BY <2>1, <2>4, SameView DEF AsRecords!vars
<1>3. ASSUME NEW fields \in Layouts, MakeSpec(fields) PROVE UNCHANGED AsRecords!vars
  <2>1. UNCHANGED <<structs, result, named>>
    BY <1>3 DEF MakeSpec
  <2>2. PICK a \in Addresses :
          /\ specs[a] = None
          /\ specs' = [specs EXCEPT ![a] =
                         [fields |-> fields, methods |-> <<>>, funcs |-> <<>>]]
    BY <1>3 DEF MakeSpec
  <2>3. \A b \in UsedSpecs : specs'[b] = specs[b]
    <3>1. \A b \in UsedSpecs : b \in Specs /\ b # a
      BY <2>2, StructTyped DEF IInv, TypeOK, UsedSpecs
    <3> QED
      BY <2>2, <3>1 DEF IInv, SpecsInv
  <2>4. Exists' = Exists /\ \A o \in Exists : SpecOf(o)' = SpecOf(o)
    BY <2>1, <2>3 DEF Exists, UsedSpecs, SpecOf
  <2> QED
    BY <2>1, <2>4, SameView DEF AsRecords!vars
<1>4. CASE DropSpec \/ UNCHANGED vars \/ \E o \in Exists : GetSpec(o)
  <2>1. UNCHANGED <<specs, structs, result, named>>
    BY <1>4 DEF DropSpec, vars, GetSpec
  <2> QED
    BY <2>1, UnchangedView DEF AsRecords!vars
<1>5. ASSUME NEW o \in Objects, NEW a \in Specs, NewStruct(o, a) PROVE AsRecords!Next
  BY <1>5, NewStructCreates DEF AsRecords!Next
<1>6. ASSUME NEW o \in Exists,
             \/ Drop(o)
             \/ \E i \in DOMAIN Loads : LoadStruct(i, o)
             \/ \E i \in DOMAIN Stores, v \in Values : StoreStruct(i, o, v)
             \/ \E n \in Names :
                  \/ LoadMethod(o, n) \/ GetStructField(o, n) \/ GetMethod(o, n)
                  \/ \E v \in Values : SetStructField(o, n, v)
      PROVE  AsRecords!Next
  <2>1. o \in AsRecords!Exists
    BY ExistsView
  <2>2. \A i \in DOMAIN Loads : Loads[i] \in Names /\
          (LoadStruct(i, o) => AsRecords!Get(o, Loads[i]))
    BY LoadGets, ConstantsAssumption
  <2>3. \A i \in DOMAIN Stores, v \in Values : Stores[i] \in Names /\
          (StoreStruct(i, o, v) => AsRecords!Set(o, Stores[i]))
    BY StoreSets, ConstantsAssumption
  <2>4. CASE Drop(o)
    BY <2>1, <2>4, DropForgets DEF AsRecords!Next
  <2>5. ASSUME NEW n \in Names,
               \/ AsRecords!Get(o, n) \/ AsRecords!Set(o, n)
               \/ LoadMethod(o, n) \/ GetStructField(o, n) \/ GetMethod(o, n)
               \/ \E v \in Values : SetStructField(o, n, v)
        PROVE  AsRecords!Next
    BY <2>1, <2>5, ReadsRead, SetSets DEF AsRecords!Next
  <2> QED
    BY <1>6, <2>2, <2>3, <2>4, <2>5
<1> QED
  BY <1>1, <1>2, <1>3, <1>4, <1>5, <1>6 DEF Next, Specs

(* A program that uses none of the Features sees a struct as a record of    *)
(* values by name (README.md of the program, Struct), whatever its caches   *)
(* hold and whatever specs come and go.                                    *)
THEOREM StructsImplementRecords == Features = {} => (Spec => ImplementsRecords)
<1> SUFFICES ASSUME Features = {} PROVE Spec => ImplementsRecords
  OBVIOUS
<1>1. IInv /\ AgreeInv /\ [Next]_vars => [AsRecords!Next]_(AsRecords!vars)
  BY StructsStep
<1>2. Spec => []AgreeInv
  BY AgreeInvariance
<1> QED
  BY <1>1, <1>2, StructsInit, Invariance, PTL DEF Spec, ImplementsRecords, AsRecords!Spec
=============================================================================
