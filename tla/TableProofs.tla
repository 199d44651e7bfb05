---------------------------- MODULE TableProofs ----------------------------
(***************************************************************************)
(* Proofs about HashMap, for every set of keys and values, every hash and  *)
(* every initial size; and, after them, about the inline caches of         *)
(* GlobalCache over such a table, for every set of instructions and names. *)
(***************************************************************************)
EXTENDS GlobalCache, FiniteSetTheorems, TLAPS

(* The integer division of maybe_grow: a table with a free slot does not    *)
(* grow, a full one does.                                                   *)
LEMMA GrowsWhenFull ==
  ASSUME size \in Nat, size > 0, NEW n \in Nat, n <= size
  PROVE  NeedsGrowth(n) <=> n = size
<1>1. CASE n < size
  <2>1. n \div size = 0
    BY <1>1
  <2> QED
    BY <1>1, <2>1 DEF NeedsGrowth
<1>2. CASE n = size
  <2>1. n \div size = 1
    BY <1>2
  <2> QED
    BY <1>2, <2>1 DEF NeedsGrowth
<1> QED
  BY <1>1, <1>2

LEMMA ProbeInSlots ==
  ASSUME size \in Nat, size > 0, NEW k \in Keys, NEW d \in Nat
  PROVE  Probe(k, d) \in Slots
<1>1. Hash[k] + d \in Nat
  BY HashAssumption
<1> QED
  BY <1>1 DEF Probe, Slots

-----------------------------------------------------------------------------
(* The inductive invariant.  What a rehash needs beyond the invariants      *)
(* TLC checks: the loop has not put more entries in the new array than it   *)
(* has read from the old one, the old array holds no key twice, and what    *)
(* it has still to move is not in the new array.                            *)
RoomLeft == num_entries < size

OldDistinct ==
  \A i, j \in OldSlots :
    old_entries[i] # Empty /\ old_entries[j] # Empty
      /\ old_entries[i].key = old_entries[j].key => i = j

UnmovedFresh ==
  \A j \in Unmoved, s \in Used : old_entries[j].key # entries[s].key

RehashInv ==
  pc = "rehash" => num_entries <= cursor /\ OldDistinct /\ UnmovedFresh

IInv == TypeOK /\ RoomLeft /\ RehashInv /\ KeysReachable

-----------------------------------------------------------------------------
(* Two slots never hold the same key.                                       *)
LEMMA KeysDistinct ==
  ASSUME TypeOK, KeysReachable,
         NEW s \in Used, NEW t \in Used, entries[s].key = entries[t].key
  PROVE  s = t
<1> DEFINE k == entries[s].key
<1>1. PICK d \in 0 .. size - 1 : StopsAfter(k, s, d)
  BY DEF KeysReachable, Finds
<1>2. PICK e \in 0 .. size - 1 : StopsAfter(k, t, e)
  BY DEF KeysReachable, Finds
<1>3. entries[s] # Empty /\ entries[t] # Empty
  BY DEF Used
<1>4. ~(d < e)
  BY <1>1, <1>2, <1>3 DEF StopsAfter
<1>5. ~(e < d)
  BY <1>1, <1>2, <1>3 DEF StopsAfter
<1> QED
  BY <1>1, <1>2, <1>4, <1>5 DEF StopsAfter

(* A key that cb_hashmap_find does not find is nowhere in the table.        *)
LEMMA FreeSlotMeansAbsent ==
  ASSUME TypeOK, KeysReachable,
         NEW k \in Keys, NEW s \in Slots, Finds(k, s), entries[s] = Empty
  PROVE  \A t \in Used : entries[t].key # k
<1> SUFFICES ASSUME NEW t \in Used, entries[t].key = k
             PROVE  FALSE
  OBVIOUS
<1>1. PICK d \in 0 .. size - 1 : StopsAfter(k, s, d)
  BY DEF Finds
<1>2. PICK e \in 0 .. size - 1 : StopsAfter(k, t, e)
  BY DEF KeysReachable, Finds
<1>3. entries[t] # Empty
  BY DEF Used
<1>4. ~(d < e)
  BY <1>1, <1>2 DEF StopsAfter
<1>5. ~(e < d)
  BY <1>1, <1>2, <1>3 DEF StopsAfter
<1> QED
  BY <1>1, <1>2, <1>3, <1>4, <1>5 DEF StopsAfter

(* Writing a binding of k where cb_hashmap_find(k) stops keeps every key    *)
(* reachable: no chain loses a used slot or gains a free one.               *)
LEMMA WriteKeepsReachable ==
  ASSUME TypeOK, KeysReachable,
         NEW b \in Binding, NEW s \in Slots, Finds(b.key, s),
         size' = size, entries' = [entries EXCEPT ![s] = b]
  PROVE  KeysReachable'
<1> SUFFICES ASSUME NEW t \in Used', NEW k, k = entries'[t].key
             PROVE  Finds(k, t)'
  BY DEF KeysReachable
<1>0. /\ b # Empty /\ b.key \in Keys /\ entries'[s] = b
      /\ t \in Slots /\ entries'[t] # Empty
      /\ \A u \in Slots : u # s => entries'[u] = entries[u]
  BY SentinelAssumption DEF TypeOK, Used, Slots, Binding
<1>1. k \in Keys
  <2>1. CASE t = s
    BY <1>0, <2>1
  <2>2. CASE t # s
    BY <1>0, <2>2 DEF TypeOK, Binding
  <2> QED
    BY <2>1, <2>2
<1>2. Finds(k, t)
  <2>1. CASE t = s
    BY <1>0, <2>1
  <2>2. CASE t # s
    BY <1>0, <2>2 DEF KeysReachable, Used
  <2> QED
    BY <2>1, <2>2
<1>3. PICK d \in 0 .. size - 1 : StopsAfter(k, t, d)
  BY <1>2 DEF Finds
<1>4. ASSUME NEW e \in 0 .. d - 1
      PROVE  entries'[Probe(k, e)] # Empty /\ entries'[Probe(k, e)].key # k
  <2>1. Probe(k, e) \in Slots
    BY <1>1, ProbeInSlots DEF TypeOK
  <2>2. entries[Probe(k, e)] # Empty /\ entries[Probe(k, e)].key # k
    BY <1>3, <1>4 DEF StopsAfter
  <2>3. CASE Probe(k, e) # s
    BY <1>0, <2>1, <2>2, <2>3
  <2>4. CASE Probe(k, e) = s
    <3>1. k # b.key
      <4>1. entries[s] # Empty /\ entries[s].key # k
        BY <2>2, <2>4
      <4>2. entries[s].key = b.key
        BY <4>1 DEF Finds, StopsAfter
      <4> QED
        BY <4>1, <4>2
    <3> QED
      BY <1>0, <2>4, <3>1
  <2> QED
    BY <2>3, <2>4
<1>5. StopsAfter(k, t, d)'
  BY <1>3, <1>4 DEF StopsAfter, Probe
<1> QED
  BY <1>0, <1>5 DEF Finds, Slots

-----------------------------------------------------------------------------
(* maybe_grow keeps the types, whichever way it goes.                       *)
LEMMA MaybeGrowType ==
  ASSUME size \in Nat, size > 0, version \in Nat,
         old_entries = NoTable, cursor = 0,
         pending' \in Binding \cup {None},
         NEW n \in Nat, NEW e \in [Slots -> Binding \cup {Empty}],
         NEW next \in {"idle", "insert"}, next = "insert" => pending' # None,
         MaybeGrow(n, e, next)
  PROVE  TypeOK'
<1>1. CASE NeedsGrowth(n)
  <2>1. /\ size' = 2 * size /\ num_entries' = 0 /\ version' = version + 1
        /\ entries' \in [0 .. size' - 1 -> Binding \cup {Empty}]
        /\ old_entries' = e /\ cursor' = 0 /\ pc' = "rehash"
    BY <1>1 DEF MaybeGrow, Enlarge
  <2>2. size \in 1 .. size'
    BY <2>1
  <2> QED
    BY <2>1, <2>2 DEF TypeOK, Slots
<1>2. CASE ~NeedsGrowth(n)
  BY <1>2 DEF MaybeGrow, Continue, TypeOK, Slots, NoTable
<1> QED
  BY <1>1, <1>2

LEMMA TypeInit == Init => TypeOK
BY SizeAssumption DEF Init, TypeOK, Slots, NoTable

LEMMA TypeStep == TypeOK /\ [Next]_vars => TypeOK'
<1> SUFFICES ASSUME TypeOK, [Next]_vars
             PROVE  TypeOK'
  OBVIOUS
<1>1. ASSUME NEW k \in Keys, NEW v \in Values, BeginSet(k, v)
      PROVE  TypeOK'
  <2>1. pending' \in Binding /\ pending' # None
    BY <1>1, SentinelAssumption DEF BeginSet, Binding
  <2> QED
    BY <1>1, <2>1, MaybeGrowType DEF BeginSet, TypeOK
<1>2. CASE Insert
  <2>1. PICK s \in Slots :
          MaybeGrow(num_entries + 1, [entries EXCEPT ![s] = pending], "idle")
    BY <1>2 DEF Insert
  <2>2. pending' = None /\ pending \in Binding /\ old_entries = NoTable /\ cursor = 0
    BY <1>2 DEF Insert, TypeOK
  <2>3. [entries EXCEPT ![s] = pending] \in [Slots -> Binding \cup {Empty}]
    BY <2>2 DEF TypeOK
  <2>4. num_entries + 1 \in Nat /\ size \in Nat /\ size > 0 /\ version \in Nat
    BY DEF TypeOK
  <2> QED
    BY <2>1, <2>2, <2>3, <2>4, MaybeGrowType
<1>3. CASE Overwrite
  <2>1. pending \in Binding /\ old_entries = NoTable /\ cursor = 0
    BY <1>3 DEF Overwrite, TypeOK
  <2> QED
    BY <1>3, <2>1 DEF Overwrite, TypeOK, Slots
<1>4. CASE Reinsert
  <2>1. PICK m \in 1 .. size :
          /\ size = 2 * m
          /\ old_entries \in [0 .. m - 1 -> Binding \cup {Empty}]
    BY <1>4 DEF Reinsert, TypeOK
  <2>2. cursor \in 0 .. m - 1 /\ cursor' = cursor + 1
    BY <1>4, <2>1 DEF Reinsert, OldSlots
  <2>3. /\ num_entries' \in Nat
        /\ entries' \in [Slots -> Binding \cup {Empty}]
    <3>1. old_entries[cursor] \in Binding \cup {Empty}
      BY <2>1, <2>2
    <3> QED
      BY <1>4, <3>1 DEF Reinsert, TypeOK
  <2> QED
    BY <1>4, <2>1, <2>2, <2>3 DEF Reinsert, TypeOK, Slots
<1>5. CASE EndGrow
  BY <1>5 DEF EndGrow, TypeOK, table, Slots
<1>6. CASE UNCHANGED vars
  BY <1>6 DEF vars, TypeOK, Slots
<1> QED
  BY <1>1, <1>2, <1>3, <1>4, <1>5, <1>6 DEF Next

(* Every reachable state of the table is well typed.                        *)
THEOREM TypeCorrect == Spec => []TypeOK
BY TypeInit, TypeStep, PTL DEF Spec

-----------------------------------------------------------------------------
(* maybe_grow keeps the invariant on a table with at most size entries      *)
(* whose keys are distinct, and reachable if it is to stay as it is.        *)
LEMMA MaybeGrowInv ==
  ASSUME TypeOK, TypeOK', pc # "rehash",
         NEW n \in Nat, n <= size,
         NEW e \in [Slots -> Binding \cup {Empty}],
         NEW next \in {"idle", "insert"},
         \A i, j \in Slots : e[i] # Empty /\ e[j] # Empty /\ e[i].key = e[j].key
                               => i = j,
         size' = size /\ entries' = e => KeysReachable',
         MaybeGrow(n, e, next)
  PROVE  IInv'
<1>0. size \in Nat /\ size > 0
  BY DEF TypeOK
<1>1. CASE NeedsGrowth(n)
  <2>1. /\ size' = 2 * size /\ num_entries' = 0 /\ cursor' = 0
        /\ entries' = [s \in 0 .. 2 * size - 1 |-> Empty] /\ old_entries' = e
    BY <1>1 DEF MaybeGrow, Enlarge
  <2>2. Used' = {}
    BY <1>0, <2>1 DEF Used, Slots
  <2>3. OldDistinct'
    BY <2>1 DEF OldDistinct, OldSlots, Slots
  <2> QED
    BY <1>0, <2>1, <2>2, <2>3
       DEF IInv, RoomLeft, RehashInv, UnmovedFresh, KeysReachable
<1>2. CASE ~NeedsGrowth(n)
  <2>1. n < size
    BY <1>0, <1>2, GrowsWhenFull
  <2>2. num_entries' = n /\ size' = size /\ entries' = e /\ pc' = next
    BY <1>2 DEF MaybeGrow, Continue
  <2> QED
    BY <2>1, <2>2 DEF IInv, RoomLeft, RehashInv
<1> QED
  BY <1>1, <1>2

LEMMA InvInit == Init => IInv
<1> SUFFICES ASSUME Init PROVE IInv
  OBVIOUS
<1>1. Used = {}
  BY DEF Init, Used, Slots
<1> QED
  BY <1>1, TypeInit, SizeAssumption
     DEF Init, IInv, RoomLeft, RehashInv, KeysReachable

LEMMA InvStep == IInv /\ [Next]_vars => IInv'
<1> SUFFICES ASSUME IInv, [Next]_vars
             PROVE  IInv'
  OBVIOUS
<1> USE TypeStep DEF IInv
<1>t. TypeOK'
  OBVIOUS
<1>d. \A i, j \in Slots :
        entries[i] # Empty /\ entries[j] # Empty /\ entries[i].key = entries[j].key
          => i = j
  BY KeysDistinct DEF Used
<1>1. ASSUME NEW k \in Keys, NEW v \in Values, BeginSet(k, v)
      PROVE  IInv'
  <2>1. size' = size /\ entries' = entries => KeysReachable'
    BY DEF KeysReachable, Finds, StopsAfter, Probe, Used, Slots
  <2>2. num_entries \in Nat /\ num_entries <= size /\ size \in Nat
    BY DEF RoomLeft, TypeOK
  <2>3. entries \in [Slots -> Binding \cup {Empty}]
    BY DEF TypeOK
  <2> QED
    BY <1>1, <1>t, <1>d, <2>1, <2>2, <2>3, MaybeGrowInv DEF BeginSet
<1>2. CASE Insert
  <2> DEFINE e(s) == [entries EXCEPT ![s] = pending]
  <2>1. PICK s \in Slots :
          /\ Finds(pending.key, s) /\ entries[s] = Empty
          /\ MaybeGrow(num_entries + 1, e(s), "idle")
    BY <1>2 DEF Insert
  <2>2. pending \in Binding /\ pending.key \in Keys
    BY <1>2 DEF Insert, TypeOK, Binding
  <2>3. e(s) \in [Slots -> Binding \cup {Empty}]
    BY <2>2 DEF TypeOK
  <2>4. \A t \in Used : entries[t].key # pending.key
    BY <2>1, <2>2, FreeSlotMeansAbsent
  <2>5. \A i, j \in Slots :
          e(s)[i] # Empty /\ e(s)[j] # Empty /\ e(s)[i].key = e(s)[j].key => i = j
    BY <1>d, <2>4 DEF TypeOK, Used
  <2>6. size' = size /\ entries' = e(s) => KeysReachable'
    BY <2>1, <2>2, WriteKeepsReachable
  <2>7. num_entries + 1 \in Nat /\ num_entries + 1 <= size
    BY DEF RoomLeft, TypeOK
  <2>8. pc # "rehash"
    BY <1>2 DEF Insert
  <2> HIDE DEF e
  <2> QED
    BY <1>t, <2>1, <2>3, <2>5, <2>6, <2>7, <2>8, MaybeGrowInv
<1>3. CASE Overwrite
  <2>1. PICK s \in Slots :
          Finds(pending.key, s) /\ entries' = [entries EXCEPT ![s] = pending]
    BY <1>3 DEF Overwrite
  <2>2. pending \in Binding
    BY <1>3 DEF Overwrite, TypeOK
  <2>3. KeysReachable'
    BY <1>3, <2>1, <2>2, WriteKeepsReachable DEF Overwrite
  <2> QED
    BY <1>3, <1>t, <2>3 DEF Overwrite, RoomLeft, RehashInv
<1>4. CASE Reinsert
  <2> DEFINE b == old_entries[cursor]
  <2>1. PICK m \in 1 .. size :
          /\ size = 2 * m
          /\ old_entries \in [0 .. m - 1 -> Binding \cup {Empty}]
    BY <1>4 DEF Reinsert, TypeOK
  <2>2. /\ cursor \in 0 .. m - 1 /\ cursor' = cursor + 1
        /\ num_entries \in Nat /\ num_entries <= cursor
        /\ size' = size /\ pc' = "rehash" /\ old_entries' = old_entries
    BY <1>4, <2>1 DEF Reinsert, OldSlots, RehashInv, TypeOK
  <2>3. OldDistinct /\ UnmovedFresh /\ OldDistinct'
    BY <1>4, <2>2 DEF Reinsert, RehashInv, OldDistinct, OldSlots
  <2>4. Unmoved' \subseteq Unmoved /\ \A j \in Unmoved' : j # cursor
    BY <2>1, <2>2 DEF Unmoved, OldSlots
  <2>5. CASE b = Empty
    <3>1. entries' = entries /\ num_entries' = num_entries
      BY <1>4, <2>5 DEF Reinsert
    <3>2. KeysReachable'
      BY <2>2, <3>1 DEF KeysReachable, Finds, StopsAfter, Probe, Used, Slots
    <3>3. UnmovedFresh'
      BY <2>2, <2>3, <2>4, <3>1 DEF UnmovedFresh, Used, Slots
    <3> QED
      BY <1>t, <2>1, <2>2, <2>3, <3>1, <3>2, <3>3 DEF RoomLeft, RehashInv
  <2>6. CASE b # Empty
    <3>1. PICK s \in Slots :
            Finds(b.key, s) /\ entries' = [entries EXCEPT ![s] = b]
      BY <1>4, <2>6 DEF Reinsert
    <3>2. b \in Binding
      BY <2>1, <2>2, <2>6
    <3>3. KeysReachable'
      BY <2>2, <3>1, <3>2, WriteKeepsReachable
    <3>4. num_entries' \in Nat /\ num_entries' <= cursor + 1
      BY <1>4, <2>2, <2>6 DEF Reinsert
    <3>5. UnmovedFresh'
      <4> SUFFICES ASSUME NEW j \in Unmoved', NEW t \in Used'
                   PROVE  old_entries[j].key # entries'[t].key
        BY <2>2 DEF UnmovedFresh
      <4>1. t \in Slots /\ entries'[t] # Empty
        BY <2>2 DEF Used, Slots
      <4>2. CASE t = s
        <5>1. entries'[t] = b
          BY <3>1, <4>2 DEF TypeOK
        <5>2. j \in OldSlots /\ cursor \in OldSlots /\ old_entries[j] # Empty
          BY <2>1, <2>2, <2>4 DEF Unmoved, OldSlots
        <5> QED
          BY <2>3, <2>4, <2>6, <5>1, <5>2 DEF OldDistinct
      <4>3. CASE t # s
        <5>1. entries'[t] = entries[t] /\ t \in Used
          BY <3>1, <4>1, <4>3 DEF TypeOK, Used
        <5> QED
          BY <2>3, <2>4, <5>1 DEF UnmovedFresh
      <4> QED
        BY <4>2, <4>3
    <3> QED
      BY <1>t, <2>1, <2>2, <2>3, <3>3, <3>4, <3>5 DEF RoomLeft, RehashInv
  <2> QED
    BY <2>5, <2>6
<1>5. CASE EndGrow
  <2>1. entries' = entries /\ size' = size /\ num_entries' = num_entries
    BY <1>5 DEF EndGrow, table
  <2>2. KeysReachable'
    BY <2>1 DEF KeysReachable, Finds, StopsAfter, Probe, Used, Slots
  <2> QED
    BY <1>5, <1>t, <2>1, <2>2 DEF EndGrow, RoomLeft, RehashInv
<1>6. CASE UNCHANGED vars
  <2>1. KeysReachable'
    BY <1>6 DEF vars, KeysReachable, Finds, StopsAfter, Probe, Used, Slots
  <2>2. RehashInv'
    BY <1>6 DEF vars, RehashInv, OldDistinct, UnmovedFresh, OldSlots, Unmoved,
                Used, Slots
  <2> QED
    BY <1>6, <1>t, <2>1, <2>2 DEF vars, RoomLeft
<1> QED
  BY <1>1, <1>2, <1>3, <1>4, <1>5, <1>6 DEF Next

LEMMA Invariance == Spec => []IInv
BY InvInit, InvStep, PTL DEF Spec

(* cb_hashmap_find reaches every key that was ever set.                     *)
THEOREM KeysAlwaysReachable == Spec => []KeysReachable
BY Invariance, PTL DEF IInv

-----------------------------------------------------------------------------
LEMMA SlotsFinite ==
  ASSUME TypeOK
  PROVE  IsFiniteSet(Slots) /\ Cardinality(Slots) = size /\ IsFiniteSet(Used)
<1>1. size - 1 \in Int /\ 0 <= size - 1 /\ size \in Nat
  BY DEF TypeOK
<1>2. IsFiniteSet(Slots) /\ Cardinality(Slots) = size
  BY <1>1, FS_Interval DEF Slots
<1> QED
  BY <1>2, FS_Subset DEF Used

LEMMA CountInit == Init => CountExact
<1> SUFFICES ASSUME Init PROVE CountExact
  OBVIOUS
<1>1. Used = {}
  BY DEF Init, Used, Slots
<1> QED
  BY <1>1, FS_EmptySet DEF CountExact, Init

(* Writing b on slot s puts s in use, whether it was or not.                *)
LEMMA CountAfterWrite ==
  ASSUME TypeOK, NEW s \in Slots, NEW b \in Binding, size' = size,
         entries' = [entries EXCEPT ![s] = b]
  PROVE  Cardinality(Used') = IF entries[s] = Empty THEN Cardinality(Used) + 1
                                                    ELSE Cardinality(Used)
<1>1. Used' = Used \cup {s}
  BY SentinelAssumption DEF TypeOK, Used, Slots
<1>2. s \in Used <=> entries[s] # Empty
  BY DEF Used
<1>3. IsFiniteSet(Used)
  BY SlotsFinite
<1> QED
  BY <1>1, <1>2, <1>3, FS_AddElement

LEMMA CountStep == IInv /\ CountExact /\ [Next]_vars => CountExact'
<1> SUFFICES ASSUME IInv, CountExact, [Next]_vars
             PROVE  CountExact'
  OBVIOUS
<1>0. TypeOK
  BY DEF IInv
<1>g. ASSUME NEW n, NEW e, NEW next, MaybeGrow(n, e, next),
             size' = size /\ entries' = e => Cardinality(Used') = n
      PROVE  CountExact'
  <2>1. CASE NeedsGrowth(n)
    <3>1. Used' = {} /\ num_entries' = 0
      BY <1>g, <2>1 DEF MaybeGrow, Enlarge, Used, Slots
    <3> QED
      BY <3>1, FS_EmptySet DEF CountExact
  <2>2. CASE ~NeedsGrowth(n)
    BY <1>g, <2>2 DEF MaybeGrow, Continue, CountExact
  <2> QED
    BY <2>1, <2>2
<1>1. ASSUME NEW k \in Keys, NEW v \in Values, BeginSet(k, v)
      PROVE  CountExact'
  BY <1>1, <1>g DEF BeginSet, CountExact, Used, Slots
<1>2. CASE Insert
  <2>1. PICK s \in Slots :
          /\ entries[s] = Empty
          /\ MaybeGrow(num_entries + 1, [entries EXCEPT ![s] = pending], "idle")
    BY <1>2 DEF Insert
  <2>2. pending \in Binding
    BY <1>0, <1>2 DEF Insert, TypeOK
  <2> QED
    BY <1>0, <1>g, <2>1, <2>2, CountAfterWrite DEF CountExact
<1>3. CASE Overwrite
  <2>1. PICK s \in Slots :
          entries[s] # Empty /\ entries' = [entries EXCEPT ![s] = pending]
    BY <1>3 DEF Overwrite
  <2>2. pending \in Binding /\ size' = size /\ num_entries' = num_entries
    BY <1>0, <1>3 DEF Overwrite, TypeOK
  <2> QED
    BY <1>0, <2>1, <2>2, CountAfterWrite DEF CountExact
<1>4. CASE Reinsert
  <2> DEFINE b == old_entries[cursor]
  <2>1. CASE b = Empty
    BY <1>4, <2>1 DEF Reinsert, CountExact, Used, Slots
  <2>2. CASE b # Empty
    <3>1. PICK s \in Slots :
            /\ entries' = [entries EXCEPT ![s] = b]
            /\ num_entries' = IF entries[s] = Empty THEN num_entries + 1
                                                    ELSE num_entries
      BY <1>4, <2>2 DEF Reinsert
    <3>2. b \in Binding /\ size' = size
      BY <1>0, <1>4, <2>2 DEF Reinsert, TypeOK, OldSlots
    <3> QED
      BY <1>0, <3>1, <3>2, CountAfterWrite DEF CountExact
  <2> QED
    BY <2>1, <2>2
<1>5. CASE EndGrow
  BY <1>5 DEF EndGrow, table, CountExact, Used, Slots
<1>6. CASE UNCHANGED vars
  BY <1>6 DEF vars, CountExact, Used, Slots
<1> QED
  BY <1>1, <1>2, <1>3, <1>4, <1>5, <1>6 DEF Next

LEMMA RoomMeansFree == IInv /\ CountExact => ProbeTerminates
<1> SUFFICES ASSUME IInv, CountExact PROVE ProbeTerminates
  OBVIOUS
<1>1. TypeOK /\ num_entries # size
  BY DEF IInv, RoomLeft, TypeOK
<1>2. Used # Slots
  BY <1>1, SlotsFinite DEF CountExact
<1> QED
  BY <1>2 DEF Used, ProbeTerminates

(* num_entries is exact, so the growth test sees the true load.             *)
THEOREM CountAlwaysExact == Spec => []CountExact
BY CountInit, CountStep, Invariance, PTL DEF Spec

(* No probe loop of cb_hashmap_find runs for ever.                          *)
THEOREM ProbesAlwaysTerminate == Spec => []ProbeTerminates
BY CountAlwaysExact, Invariance, RoomMeansFree, PTL

-----------------------------------------------------------------------------
(* The refinement.  BindingsIn(e): the bindings an array e holds.           *)
BindingsIn(e) == {e[t] : t \in {u \in Slots : e[u] # Empty}}

(* A write where cb_hashmap_find stopped is the abstract Put.               *)
LEMMA WriteIsPut ==
  ASSUME TypeOK, KeysReachable,
         NEW b \in Binding, NEW s \in Slots, Finds(b.key, s)
  PROVE  BindingsIn([entries EXCEPT ![s] = b])
           = {x \in BindingsIn(entries) : x.key # b.key} \cup {b}
<1> DEFINE e == [entries EXCEPT ![s] = b]
<1>1. e[s] = b /\ b # Empty /\ \A t \in Slots : t # s => e[t] = entries[t]
  BY SentinelAssumption DEF TypeOK
<1>2. ASSUME NEW t \in Slots, t # s, entries[t] # Empty
      PROVE  entries[t].key # b.key
  <2>1. CASE entries[s] = Empty
    BY <1>2, <2>1, FreeSlotMeansAbsent DEF Used, Binding
  <2>2. CASE entries[s] # Empty
    <3>1. entries[s].key = b.key
      BY <2>2 DEF Finds, StopsAfter
    <3> QED
      BY <1>2, <2>2, <3>1, KeysDistinct DEF Used
  <2> QED
    BY <2>1, <2>2
<1>3. entries[s] # Empty => entries[s].key = b.key
  BY DEF Finds, StopsAfter
<1> HIDE DEF e
<1>4. ASSUME NEW x \in BindingsIn(e)
      PROVE  x \in {y \in BindingsIn(entries) : y.key # b.key} \cup {b}
  <2>1. PICK t \in Slots : x = e[t] /\ e[t] # Empty
    BY <1>4 DEF BindingsIn
  <2>2. CASE t = s
    BY <1>1, <2>1, <2>2
  <2>3. CASE t # s
    BY <1>1, <1>2, <2>1, <2>3 DEF BindingsIn
  <2> QED
    BY <2>2, <2>3
<1>5. ASSUME NEW x \in BindingsIn(entries), x.key # b.key
      PROVE  x \in BindingsIn(e)
  <2>1. PICK t \in Slots : x = entries[t] /\ entries[t] # Empty
    BY <1>5 DEF BindingsIn
  <2> QED
    BY <1>1, <1>3, <1>5, <2>1 DEF BindingsIn
<1>6. b \in BindingsIn(e)
  BY <1>1 DEF BindingsIn
<1> QED
  BY <1>4, <1>5, <1>6 DEF e

(* Growing moves the bindings to the old array, it changes none.            *)
LEMMA MaybeGrowBindings ==
  ASSUME TypeOK, pc # "rehash", NEW n, NEW next,
         NEW e \in [Slots -> Binding \cup {Empty}], MaybeGrow(n, e, next)
  PROVE  Bindings' = BindingsIn(e)
<1>1. CASE NeedsGrowth(n)
  <2>1. Used' = {}
    BY <1>1 DEF MaybeGrow, Enlarge, Used, Slots
  <2>2. Unmoved' = {t \in Slots : e[t] # Empty} /\ old_entries' = e
    BY <1>1 DEF MaybeGrow, Enlarge, Unmoved, OldSlots, Slots, TypeOK
  <2> QED
    BY <2>1, <2>2 DEF Bindings, BindingsIn
<1>2. CASE ~NeedsGrowth(n)
  <2>1. entries' = e /\ size' = size /\ old_entries' = NoTable
    BY <1>2 DEF MaybeGrow, Continue, TypeOK
  <2>2. Unmoved' = {}
    BY <2>1 DEF Unmoved, OldSlots, NoTable
  <2>3. Used' = {t \in Slots : e[t] # Empty}
    BY <2>1 DEF Used, Slots
  <2> QED
    BY <2>1, <2>2, <2>3 DEF Bindings, BindingsIn
<1> QED
  BY <1>1, <1>2

LEMMA IdleBindings ==
  ASSUME TypeOK, pc # "rehash"
  PROVE  Bindings = BindingsIn(entries)
<1>1. Unmoved = {}
  BY DEF TypeOK, Unmoved, OldSlots, NoTable
<1> QED
  BY <1>1 DEF Bindings, BindingsIn, Used

LEMMA InsertIsPut == IInv /\ Insert => Map!Put(pending.key, pending.value)
<1> SUFFICES ASSUME IInv, Insert PROVE Map!Put(pending.key, pending.value)
  OBVIOUS
<1>1. PICK s \in Slots :
        /\ Finds(pending.key, s)
        /\ MaybeGrow(num_entries + 1, [entries EXCEPT ![s] = pending], "idle")
  BY DEF Insert
<1>2. TypeOK /\ KeysReachable /\ pc # "rehash" /\ pending \in Binding
  BY DEF IInv, Insert, TypeOK
<1>3. [entries EXCEPT ![s] = pending] \in [Slots -> Binding \cup {Empty}]
  BY <1>2 DEF TypeOK
<1>4. Bindings' = BindingsIn([entries EXCEPT ![s] = pending])
  BY <1>1, <1>2, <1>3, MaybeGrowBindings
<1>5. Bindings' = {x \in Bindings : x.key # pending.key} \cup {pending}
  BY <1>1, <1>2, <1>4, WriteIsPut, IdleBindings
<1>6. pending = [key |-> pending.key, value |-> pending.value]
  BY <1>2 DEF Binding
<1> QED
  BY <1>5, <1>6 DEF Map!Put

LEMMA OverwriteIsPut == IInv /\ Overwrite => Map!Put(pending.key, pending.value)
<1> SUFFICES ASSUME IInv, Overwrite PROVE Map!Put(pending.key, pending.value)
  OBVIOUS
<1>1. PICK s \in Slots :
        Finds(pending.key, s) /\ entries' = [entries EXCEPT ![s] = pending]
  BY DEF Overwrite
<1>2. TypeOK /\ KeysReachable /\ pc # "rehash" /\ pending \in Binding
  BY DEF IInv, Overwrite, TypeOK
<1>3. Unmoved' = {} /\ size' = size
  BY <1>2 DEF Overwrite, TypeOK, Unmoved, OldSlots, NoTable
<1>4. Bindings' = BindingsIn([entries EXCEPT ![s] = pending])
  BY <1>1, <1>3 DEF Bindings, BindingsIn, Used, Slots
<1>5. Bindings' = {x \in Bindings : x.key # pending.key} \cup {pending}
  BY <1>1, <1>2, <1>4, WriteIsPut, IdleBindings
<1>6. pending = [key |-> pending.key, value |-> pending.value]
  BY <1>2 DEF Binding
<1> QED
  BY <1>5, <1>6 DEF Map!Put

LEMMA ReinsertIsHidden == IInv /\ Reinsert => Bindings' = Bindings
<1> SUFFICES ASSUME IInv, Reinsert PROVE Bindings' = Bindings
  OBVIOUS
<1> DEFINE b == old_entries[cursor]
<1>0. TypeOK /\ KeysReachable /\ UnmovedFresh
  BY DEF IInv, RehashInv, Reinsert
<1>1. PICK m \in 1 .. size :
        old_entries \in [0 .. m - 1 -> Binding \cup {Empty}]
  BY <1>0 DEF Reinsert, TypeOK
<1>2. /\ cursor \in OldSlots /\ OldSlots = 0 .. m - 1 /\ cursor' = cursor + 1
      /\ size' = size /\ old_entries' = old_entries
  BY <1>1 DEF Reinsert, OldSlots
<1>3. CASE b = Empty
  <2>1. Unmoved' = Unmoved
    BY <1>2, <1>3 DEF Unmoved, OldSlots
  <2>2. entries' = entries
    BY <1>3 DEF Reinsert
  <2> QED
    BY <1>2, <2>1, <2>2 DEF Bindings, Used, Slots
<1>4. CASE b # Empty
  <2>1. PICK s \in Slots :
          Finds(b.key, s) /\ entries' = [entries EXCEPT ![s] = b]
    BY <1>4 DEF Reinsert
  <2>2. b \in Binding /\ b.key \in Keys
    BY <1>1, <1>2, <1>4 DEF Binding
  <2>3. cursor \in Unmoved /\ Unmoved = Unmoved' \cup {cursor}
    BY <1>2, <1>4 DEF Unmoved, OldSlots
  <2>4. entries[s] = Empty
    BY <1>0, <2>1, <2>3 DEF UnmovedFresh, Used, Finds, StopsAfter
  <2>5. Used' = Used \cup {s} /\ s \notin Used
    BY <1>0, <1>2, <2>1, <2>2, <2>4, SentinelAssumption DEF TypeOK, Used, Slots
  <2>6. {entries'[t] : t \in Used'} = {entries[t] : t \in Used} \cup {b}
    <3>1. entries'[s] = b /\ \A t \in Used : entries'[t] = entries[t]
      BY <1>0, <2>1, <2>5 DEF TypeOK, Used
    <3> QED
      BY <2>5, <3>1
  <2>7. {old_entries[j] : j \in Unmoved} = {old_entries[j] : j \in Unmoved'} \cup {b}
    BY <2>3
  <2> QED
    BY <1>2, <2>6, <2>7 DEF Bindings
<1> QED
  BY <1>3, <1>4

LEMMA EndGrowIsHidden == IInv /\ EndGrow => Bindings' = Bindings
<1> SUFFICES ASSUME IInv, EndGrow PROVE Bindings' = Bindings
  OBVIOUS
<1>1. Unmoved = {}
  BY DEF IInv, TypeOK, EndGrow, Unmoved, OldSlots
<1>2. Unmoved' = {}
  BY DEF EndGrow, Unmoved, OldSlots, NoTable
<1>3. Used' = Used /\ entries' = entries
  BY DEF EndGrow, table, Used, Slots
<1> QED
  BY <1>1, <1>2, <1>3 DEF Bindings

LEMMA BeginSetIsHidden ==
  ASSUME IInv, NEW k \in Keys, NEW v \in Values, BeginSet(k, v)
  PROVE  Bindings' = Bindings
<1>1. TypeOK /\ pc # "rehash" /\ entries \in [Slots -> Binding \cup {Empty}]
  BY DEF IInv, BeginSet, TypeOK
<1> QED
  BY <1>1, MaybeGrowBindings, IdleBindings DEF BeginSet

LEMMA MapInit == Init => Map!Init
<1> SUFFICES ASSUME Init PROVE Bindings = {}
  BY DEF Map!Init
<1> QED
  BY DEF Init, Bindings, Used, Unmoved, Slots, OldSlots, NoTable

LEMMA MapStep == IInv /\ [Next]_vars => [Map!Next]_Bindings
<1> SUFFICES ASSUME IInv, [Next]_vars PROVE [Map!Next]_Bindings
  OBVIOUS
<1>1. ASSUME NEW k \in Keys, NEW v \in Values, BeginSet(k, v)
      PROVE  [Map!Next]_Bindings
  BY <1>1, BeginSetIsHidden
<1>2. CASE Insert \/ Overwrite
  <2>1. pending.key \in Keys /\ pending.value \in Values
    BY <1>2 DEF IInv, TypeOK, Insert, Overwrite, Binding
  <2> QED
    BY <1>2, <2>1, InsertIsPut, OverwriteIsPut DEF Map!Next
<1>3. CASE Reinsert
  BY <1>3, ReinsertIsHidden
<1>4. CASE EndGrow
  BY <1>4, EndGrowIsHidden
<1>5. CASE UNCHANGED vars
  BY <1>5 DEF vars, Bindings, Used, Unmoved, Slots, OldSlots
<1> QED
  BY <1>1, <1>2, <1>3, <1>4, <1>5 DEF Next

(* The table implements a finite map: no growth, at any point, is visible.  *)
THEOREM TableImplementsMap == Spec => ImplementsMap
BY MapInit, MapStep, Invariance, PTL DEF Spec, Map!Spec, ImplementsMap

(* A completed set bound its key to its value and touched no other binding. *)
THEOREM SetsTakeEffect == Spec => SetTakesEffect
<1>1. IInv /\ [Next]_vars
        => [pending # None /\ pending' = None
              => Map!Put(pending.key, pending.value)]_vars
  <2> SUFFICES ASSUME IInv, [Next]_vars, pending # None, pending' = None
               PROVE  Map!Put(pending.key, pending.value)
    OBVIOUS
  <2>1. ASSUME NEW k \in Keys, NEW v \in Values, BeginSet(k, v)
        PROVE  FALSE
    BY <2>1, SentinelAssumption DEF BeginSet, Binding
  <2> QED
    BY <2>1, InsertIsPut, OverwriteIsPut DEF Next, Reinsert, EndGrow, vars
<1> QED
  BY <1>1, Invariance, PTL DEF Spec, SetTakesEffect

-----------------------------------------------------------------------------
Stays(s) == entries'[s] # Empty /\ entries'[s].key = entries[s].key

LEMMA WriteKeepsIndex ==
  ASSUME TypeOK, NEW b \in Binding, NEW s \in Slots, Finds(b.key, s),
         entries' = [entries EXCEPT ![s] = b],
         NEW t \in Used
  PROVE  Stays(t)
<1>1. b # Empty /\ (entries[s] # Empty => entries[s].key = b.key)
  BY SentinelAssumption DEF Finds, StopsAfter
<1> QED
  BY <1>1 DEF TypeOK, Used, Stays

LEMMA StepKeepsIndex ==
  ASSUME IInv, [Next]_vars, version' = version, NEW t \in Used
  PROVE  Stays(t)
<1>0. TypeOK /\ version + 1 # version
  BY DEF IInv, TypeOK
<1>g. ASSUME NEW n, NEW e, NEW next, MaybeGrow(n, e, next)
      PROVE  entries' = e
  BY <1>0, <1>g DEF MaybeGrow, Enlarge, Continue
<1>1. ASSUME NEW k \in Keys, NEW v \in Values, BeginSet(k, v)
      PROVE  Stays(t)
  BY <1>1, <1>g DEF BeginSet, Stays, Used
<1>2. CASE Insert
  <2>1. PICK s \in Slots : /\ Finds(pending.key, s)
                           /\ entries' = [entries EXCEPT ![s] = pending]
    BY <1>2, <1>g DEF Insert
  <2>2. pending \in Binding
    BY <1>0, <1>2 DEF Insert, TypeOK
  <2> QED
    BY <1>0, <2>1, <2>2, WriteKeepsIndex
<1>3. CASE Overwrite
  <2>1. PICK s \in Slots : /\ Finds(pending.key, s)
                           /\ entries' = [entries EXCEPT ![s] = pending]
    BY <1>3 DEF Overwrite
  <2>2. pending \in Binding
    BY <1>0, <1>3 DEF Overwrite, TypeOK
  <2> QED
    BY <1>0, <2>1, <2>2, WriteKeepsIndex
<1>4. CASE Reinsert
  <2> DEFINE b == old_entries[cursor]
  <2>1. CASE b = Empty
    BY <1>4, <2>1 DEF Reinsert, Stays, Used
  <2>2. CASE b # Empty
    <3>1. PICK s \in Slots : Finds(b.key, s) /\ entries' = [entries EXCEPT ![s] = b]
      BY <1>4, <2>2 DEF Reinsert
    <3>2. b \in Binding
      BY <1>0, <1>4, <2>2 DEF Reinsert, TypeOK, OldSlots
    <3> QED
      BY <1>0, <3>1, <3>2, WriteKeepsIndex
  <2> QED
    BY <2>1, <2>2
<1>5. CASE EndGrow \/ UNCHANGED vars
  BY <1>5 DEF EndGrow, table, vars, Stays, Used
<1> QED
  BY <1>1, <1>2, <1>3, <1>4, <1>5 DEF Next

(* While the version is unchanged no entry leaves its slot: what the inline *)
(* caches rely on.                                                          *)
THEOREM IndicesStable == Spec => IndexStable
<1>1. IInv /\ [Next]_vars => [version' = version => \A s \in Used : Stays(s)]_vars
  BY StepKeepsIndex
<1> QED
  BY <1>1, Invariance, PTL DEF Spec, IndexStable, Stays

-----------------------------------------------------------------------------
(* The inline caches.                                                       *)

(* The inductive invariant, for importers that have run their import:       *)
(* beside the table's own, a cache is never ahead of the table, and an      *)
(* importer fills its cache only once the table has stopped growing.        *)
NeverAhead == \A site \in Sites : ic[site].version <= version

Settled == evaluated => pc = "idle"

ForeignSettled ==
  \A site \in ForeignSites :
    ic[site].version # 0 => evaluated /\ ic[site].version = version

CacheInv ==
  /\ ImportFirst
  /\ IInv
  /\ ic \in [Sites -> [version : Nat, index : Nat]]
  /\ acc \in Values \cup {None}
  /\ evaluated \in BOOLEAN
  /\ NeverAhead /\ Settled /\ ForeignSettled
  /\ HitsAreSound

-----------------------------------------------------------------------------
(* The slot a probe stopped at, if it is in use, holds the name.            *)
LEMMA ProbedSlotIsHome ==
  ASSUME NEW site, NEW s \in Used, FindsName(site, s)
  PROVE  entries[s].key = SiteKey[site]
BY DEF FindsName, Finds, StopsAfter, Used

(* A probe stops where it stopped when no key has moved.                    *)
LEMMA FindsStays ==
  ASSUME TypeOK, size' = size, Used' = Used,
         \A t \in Used : entries'[t].key = entries[t].key,
         NEW k \in Keys, NEW s, Finds(k, s)
  PROVE  Finds(k, s)'
<1>1. PICK d \in 0 .. size - 1 : StopsAfter(k, s, d)
  BY DEF Finds
<1>2. ASSUME NEW t \in Slots
      PROVE  /\ (entries'[t] # Empty) <=> (entries[t] # Empty)
             /\ entries[t] # Empty => entries'[t].key = entries[t].key
  BY DEF Used, Slots
<1>3. /\ \A e \in 0 .. size - 1 : Probe(k, e) \in Slots
      /\ \A e : Probe(k, e)' = Probe(k, e)
  BY ProbeInSlots DEF TypeOK, Probe
<1>4. s \in Slots /\ Slots' = Slots
  BY DEF Finds, Slots
<1>5. s = Probe(k, d)'
  BY <1>1, <1>3 DEF StopsAfter
<1>6. entries'[s] # Empty => entries'[s].key = k
  BY <1>1, <1>2, <1>4 DEF StopsAfter
<1>7. ASSUME NEW e \in 0 .. d - 1
      PROVE  entries'[Probe(k, e)'] # Empty /\ entries'[Probe(k, e)'].key # k
  <2>1. entries[Probe(k, e)] # Empty /\ entries[Probe(k, e)].key # k
    BY <1>1 DEF StopsAfter
  <2>2. Probe(k, e) \in Slots /\ Probe(k, e)' = Probe(k, e)
    <3>1. e \in 0 .. size - 1
      BY DEF TypeOK
    <3> QED
      BY <1>3, <3>1
  <2>3. /\ entries'[Probe(k, e)] # Empty
        /\ entries'[Probe(k, e)].key = entries[Probe(k, e)].key
    BY <1>2, <2>1, <2>2
  <2> QED
    BY <2>1, <2>2, <2>3
<1>8. StopsAfter(k, s, d)'
  BY <1>5, <1>6, <1>7 DEF StopsAfter
<1> QED
  BY <1>1, <1>4, <1>8 DEF Finds

LEMMA ProbeStays ==
  ASSUME TypeOK, size' = size, Used' = Used,
         \A t \in Used : entries'[t].key = entries[t].key,
         NEW site \in Sites, NEW s, FindsName(site, s)
  PROVE  FindsName(site, s)'
BY FindsStays, SiteAssumption DEF FindsName

LEMMA CacheInvInit == ImportFirst /\ CacheInit => CacheInv
<1> SUFFICES ASSUME ImportFirst, CacheInit PROVE CacheInv
  OBVIOUS
<1>1. IInv
  BY InvInit DEF CacheInit
<1>2. /\ \A site \in Sites : ic[site].version = 0
      /\ ic \in [Sites -> [version : Nat, index : Nat]]
  BY DEF CacheInit, NoCache
<1>3. version = 1 /\ acc = None /\ evaluated = FALSE
  BY DEF CacheInit, Init
<1>4. NeverAhead
  BY <1>2, <1>3 DEF NeverAhead
<1>5. HitsAreSound
  BY <1>2 DEF HitsAreSound, Hit
<1>6. ForeignSettled /\ Settled
  BY <1>2, <1>3 DEF ForeignSettled, Settled, Sites
<1> QED
  BY <1>1, <1>2, <1>3, <1>4, <1>5, <1>6 DEF CacheInv

(* A store changes a value and no key, so no probe chain.                   *)
LEMMA StoreKeepsTable ==
  ASSUME IInv, pc = "idle", NEW s \in Used, NEW v \in Values,
         entries' = [entries EXCEPT ![s].value = v],
         UNCHANGED <<size, num_entries, version, old_entries, cursor, pending, pc>>
  PROVE  IInv' /\ Used' = Used /\ \A t \in Used : entries'[t].key = entries[t].key
<1>0. TypeOK /\ s \in Slots /\ entries[s] \in Binding
  BY DEF IInv, TypeOK, Used
<1> DEFINE b == [key |-> entries[s].key, value |-> v]
<1>1. b \in Binding /\ b # Empty
  BY <1>0, SentinelAssumption DEF Binding
<1>2. entries' = [entries EXCEPT ![s] = b]
  <2>1. [entries[s] EXCEPT !.value = v] = b
    BY <1>0 DEF Binding
  <2> QED
    BY <2>1
<1>3. Finds(b.key, s)
  BY DEF IInv, KeysReachable
<1>4. KeysReachable'
  BY <1>0, <1>1, <1>2, <1>3, WriteKeepsReachable DEF IInv
<1>5. TypeOK'
  BY <1>0, <1>1, <1>2 DEF TypeOK, Slots
<1>6. /\ \A t \in Slots : (entries'[t] # Empty) <=> (entries[t] # Empty)
      /\ \A t \in Used : entries'[t].key = entries[t].key
  <2>1. \A t \in Slots : entries'[t] = IF t = s THEN b ELSE entries[t]
    BY <1>0, <1>2 DEF TypeOK
  <2>2. b.key = entries[s].key /\ entries[s] # Empty
    BY DEF Used
  <2> HIDE DEF b
  <2> QED
    BY <1>1, <2>1, <2>2 DEF Used
<1>7. Used' = Used
  BY <1>6 DEF Used, Slots
<1> QED
  BY <1>4, <1>5, <1>6, <1>7 DEF IInv, RoomLeft, RehashInv

(* Filling a cache with the slot cb_hashmap_find returned.                  *)
LEMMA FillIsSound ==
  ASSUME CacheInv, NEW site \in Sites, NEW s \in Slots,
         FindsName(site, s), Fill(site, s),
         site \in OwnSites => s \in Used, size' = size,
         IInv', version' = version, evaluated' = evaluated, pc' = pc,
         acc' \in Values \cup {None}, site \in ForeignSites => evaluated,
         Used' = Used, \A t \in Used : entries'[t].key = entries[t].key
  PROVE  CacheInv'
<1>2. s \in Nat /\ version \in Nat
  BY DEF CacheInv, IInv, TypeOK, Slots
<1>3. ic' \in [Sites -> [version : Nat, index : Nat]]
  BY <1>2 DEF Fill, CacheInv
<1>4. \A x \in Sites : ic'[x] = IF x = site THEN [version |-> version, index |-> s]
                                            ELSE ic[x]
  BY DEF Fill, CacheInv
<1>5. \A x \in Sites : \A t : FindsName(x, t) => FindsName(x, t)'
  BY ProbeStays DEF CacheInv, IInv
<1>6. HitsAreSound'
  <2> SUFFICES ASSUME NEW x \in Sites, Hit(x)'
               PROVE  /\ FindsName(x, ic[x].index)'
                      /\ x \in OwnSites => (ic[x].index \in Used)'
    BY DEF HitsAreSound
  <2>1. CASE x = site
    BY <1>4, <1>5, <2>1
  <2>2. CASE x # site
    <3>1. ic'[x] = ic[x] /\ Hit(x)
      BY <1>4, <2>2 DEF Hit
    <3> QED
      BY <1>5, <3>1 DEF CacheInv, HitsAreSound
  <2> QED
    BY <2>1, <2>2
<1> QED
  BY <1>2, <1>3, <1>4, <1>6
     DEF CacheInv, NeverAhead, Settled, ForeignSettled, Sites

(* A step of cb_hashmap_set, which no cached instruction runs during.       *)
LEMMA TableStepIsSound ==
  ASSUME CacheInv, [Next]_vars, ~evaluated,
         ic' = ic, acc' = acc, evaluated' = evaluated
  PROVE  CacheInv'
<1>1. IInv' /\ TypeOK /\ TypeOK'
  BY InvStep, TypeStep DEF CacheInv, IInv
<1>2. version' = version \/ version' = version + 1
  BY <1>1 DEF Next, BeginSet, Insert, Overwrite, Reinsert, EndGrow, MaybeGrow,
              Enlarge, Continue, table, vars
<1>3. version \in Nat
  BY <1>1 DEF TypeOK
<1>4. NeverAhead'
  BY <1>2, <1>3 DEF CacheInv, NeverAhead
<1>5. ASSUME NEW site \in Sites, Hit(site)'
      PROVE  /\ FindsName(site, ic[site].index)'
             /\ (ic[site].index \in Used)'
  <2>1. version' = version /\ Hit(site)
    <3>1. ic[site].version <= version /\ ic[site].version \in Nat
      BY DEF CacheInv, NeverAhead
    <3> QED
      BY <1>2, <1>3, <1>5, <3>1 DEF Hit
  <2>2. site \in OwnSites
    BY <2>1 DEF Sites, CacheInv, ForeignSettled, Hit
  <2>3. /\ ic[site].index \in Used
        /\ entries[ic[site].index].key = SiteKey[site]
        /\ Stays(ic[site].index)
    BY <2>1, <2>2, StepKeepsIndex, ProbedSlotIsHome DEF CacheInv, HitsAreSound
  <2>4. size' = size
    BY <1>1, <1>3, <2>1 DEF Next, BeginSet, Insert, Overwrite, Reinsert, EndGrow,
       MaybeGrow, Enlarge, Continue, table, vars
  <2>5. (ic[site].index \in Used)' /\ entries'[ic[site].index].key = SiteKey[site]
    BY <2>3, <2>4 DEF Stays, Used, Slots
  <2> QED
    BY <1>1, <2>5 DEF IInv, KeysReachable, FindsName
<1> QED
  BY <1>1, <1>4, <1>5
     DEF CacheInv, Settled, ForeignSettled, HitsAreSound

LEMMA CacheInvStep == CacheInv /\ [CacheNext]_cachevars => CacheInv'
<1> SUFFICES ASSUME CacheInv, [CacheNext]_cachevars
             PROVE  CacheInv'
  OBVIOUS
<1>0. IInv /\ TypeOK
  BY DEF CacheInv, IInv
<1>v. ASSUME NEW s \in Slots
      PROVE  ValueAt(s) \in Values \cup {None}
  BY <1>0 DEF ValueAt, TypeOK, Binding
<1>h. ASSUME NEW site \in Sites, Hit(site)
      PROVE  /\ ic[site].index \in Slots
             /\ site \in OwnSites => ic[site].index \in Used
  BY <1>h DEF CacheInv, HitsAreSound, FindsName, Finds
(* The keys stay where they are, and so does every hit.                     *)
<1>k. ASSUME size' = size, version' = version, ic' = ic, Used' = Used,
             \A t \in Used : entries'[t].key = entries[t].key
      PROVE  HitsAreSound'
  <2>1. \A x \in Sites : \A t : FindsName(x, t) => FindsName(x, t)'
    BY <1>0, <1>k, ProbeStays
  <2> QED
    BY <1>k, <2>1 DEF CacheInv, HitsAreSound, Hit
(* Nothing but acc and evaluated changes.                                   *)
<1>q. ASSUME UNCHANGED vars, ic' = ic, acc' \in Values \cup {None},
             evaluated' \in BOOLEAN, pc = "idle", evaluated => evaluated'
      PROVE  CacheInv'
  <2>1. IInv'
    BY <1>0, <1>q, InvStep
  <2>2. HitsAreSound'
    BY <1>k, <1>q DEF vars, Used, Slots
  <2> QED
    BY <1>q, <2>1, <2>2 DEF CacheInv, NeverAhead, Settled, ForeignSettled, vars
(* The table is untouched and one cache filled.                             *)
<1>f. ASSUME NEW site \in Sites, NEW s \in Slots, FindsName(site, s), Fill(site, s),
             site \in OwnSites => s \in Used,
             UNCHANGED <<vars, evaluated>>, acc' = ValueAt(s),
             site \in ForeignSites => evaluated
      PROVE  CacheInv'
  <2>1. IInv' /\ Used' = Used /\ \A t \in Used : entries'[t].key = entries[t].key
    BY <1>0, <1>f, InvStep DEF vars, Used, Slots
  <2>2. acc' \in Values \cup {None}
    BY <1>f, <1>v
  <2> QED
    BY <1>f, <2>1, <2>2, FillIsSound DEF vars
<1>1. ASSUME NEW site \in OwnSites, LoadGlobal(site)
      PROVE  CacheInv'
  <2>0. site \in Sites /\ site \notin ForeignSites
    BY SiteAssumption DEF Sites
  <2>1. CASE LoadGlobalHit(site)
    BY <1>h, <1>q, <1>v, <2>0, <2>1 DEF LoadGlobalHit, Running, CacheInv
  <2>2. CASE LoadGlobalMiss(site)
    BY <1>f, <2>0, <2>2 DEF LoadGlobalMiss, Used
  <2> QED
    BY <1>1, <2>1, <2>2 DEF LoadGlobal
<1>2. ASSUME NEW site \in OwnSites, NEW v \in Values, StoreGlobal(site, v)
      PROVE  CacheInv'
  <2>0. site \in Sites /\ site \notin ForeignSites
    BY SiteAssumption DEF Sites
  <2>1. CASE StoreGlobalHit(site, v)
    <3>0. entries' = [entries EXCEPT ![ic[site].index].value = v]
      BY <1>h, <2>0, <2>1 DEF StoreGlobalHit, Written, Used
    <3>1. /\ IInv' /\ Used' = Used
          /\ \A t \in Used : entries'[t].key = entries[t].key
      BY <1>0, <1>h, <2>0, <2>1, <3>0, StoreKeepsTable DEF StoreGlobalHit, Running
    <3>2. HitsAreSound'
      BY <1>k, <2>1, <3>1 DEF StoreGlobalHit
    <3> QED
      BY <2>1, <3>1, <3>2
         DEF StoreGlobalHit, CacheInv, NeverAhead, Settled, ForeignSettled
  <2>2. CASE StoreGlobalMiss(site, v)
    <3>1. PICK s \in Used :
            /\ FindsName(site, s) /\ Fill(site, s)
            /\ entries' = [entries EXCEPT ![s].value = v]
      BY <2>2 DEF StoreGlobalMiss
    <3>2. /\ IInv' /\ Used' = Used
          /\ \A t \in Used : entries'[t].key = entries[t].key
      BY <1>0, <2>2, <3>1, StoreKeepsTable DEF StoreGlobalMiss, Running
    <3>3. acc' \in Values \cup {None} /\ s \in Slots
      BY <2>2 DEF StoreGlobalMiss, CacheInv, Used
    <3> QED
      BY <2>0, <2>2, <3>1, <3>2, <3>3, FillIsSound DEF StoreGlobalMiss
  <2> QED
    BY <1>2, <2>1, <2>2 DEF StoreGlobal
<1>3. ASSUME NEW site \in ForeignSites, LoadFromModule(site)
      PROVE  CacheInv'
  <2>0. site \in Sites
    BY DEF Sites
  <2>1. CASE LoadFromModuleFill(site)
    BY <1>f, <2>0, <2>1, SiteAssumption DEF LoadFromModuleFill, ImporterRuns, CacheInv
  <2>2. CASE LoadFromModuleCached(site)
    <3>1. Hit(site)
      BY <2>0, <2>2 DEF LoadFromModuleCached, CacheInv, ForeignSettled, Hit
    <3> QED
      BY <1>h, <1>q, <1>v, <2>0, <2>2, <3>1
         DEF LoadFromModuleCached, ImporterRuns, Running, CacheInv
  <2> QED
    BY <1>3, <2>1, <2>2 DEF LoadFromModule
<1>4. ASSUME NEW k \in Keys, NEW v \in Values, DeclareGlobal(k, v)
      PROVE  CacheInv'
  BY <1>4, TableStepIsSound DEF DeclareGlobal, Next
<1>5. CASE SetStep
  <2>1. ~evaluated
    BY <1>5 DEF SetStep, Insert, Overwrite, Reinsert, EndGrow, CacheInv, Settled
  <2> QED
    BY <1>5, <2>1, TableStepIsSound DEF SetStep, Next
<1>6. CASE BodyEnds
  BY <1>6, <1>q DEF BodyEnds, Running, CacheInv
<1>7. CASE UNCHANGED cachevars
  <2>1. IInv'
    BY <1>0, <1>7, InvStep DEF cachevars
  <2>2. HitsAreSound'
    BY <1>k, <1>7 DEF cachevars, vars, Used, Slots
  <2> QED
    BY <1>7, <2>1, <2>2
       DEF cachevars, vars, CacheInv, NeverAhead, Settled, ForeignSettled
<1> QED
  BY <1>1, <1>2, <1>3, <1>4, <1>5, <1>6, <1>7 DEF CacheNext

LEMMA CacheInvariance == ImportFirst /\ CacheSpec => []CacheInv
BY CacheInvInit, CacheInvStep, PTL DEF CacheSpec

(* A cache hit is on the slot a probe for the instruction's own name would  *)
(* stop at, when importers load after their import.                         *)
THEOREM CacheHitsSound == ImportFirst /\ CacheSpec => []HitsAreSound
BY CacheInvariance, PTL DEF CacheInv

(* The version assert of LOAD_FROM_MODULE never fails, when importers load  *)
(* after their import.                                                      *)
THEOREM ModuleCachesCurrent == ImportFirst /\ CacheSpec => []ModuleCacheCurrent
<1>1. CacheInv => ModuleCacheCurrent
  BY DEF CacheInv, ForeignSettled, ModuleCacheCurrent, Hit
<1> QED
  BY <1>1, CacheInvariance, PTL

-----------------------------------------------------------------------------
(* Accesses by name.  Two facts about one slot: what a load of it pushes    *)
(* and what a store to it changes.                                          *)
LEMMA SlotHoldsBinding ==
  ASSUME TypeOK, NEW s \in Used
  PROVE  [key |-> entries[s].key, value |-> ValueAt(s)] \in Bindings
<1>1. entries[s] \in Binding /\ entries[s] # Empty
  BY DEF TypeOK, Used
<1>2. entries[s] = [key |-> entries[s].key, value |-> entries[s].value]
  BY <1>1 DEF Binding
<1>3. entries[s] \in Bindings
  BY DEF Bindings
<1> QED
  BY <1>1, <1>2, <1>3 DEF ValueAt

LEMMA SlotStoreIsPut ==
  ASSUME IInv, pc = "idle", NEW s \in Used, NEW v \in Values,
         entries' = [entries EXCEPT ![s].value = v],
         size' = size, old_entries' = old_entries, cursor' = cursor
  PROVE  Map!Put(entries[s].key, v)
<1> DEFINE k == entries[s].key
           b == [key |-> k, value |-> v]
<1>0. TypeOK /\ KeysReachable /\ pc # "rehash"
  BY DEF IInv
<1>1. entries[s] \in Binding /\ s \in Slots /\ k \in Keys /\ b \in Binding
  BY <1>0 DEF TypeOK, Used, Binding
<1>2. Finds(b.key, s)
  BY <1>0 DEF KeysReachable
<1>3. entries' = [entries EXCEPT ![s] = b]
  <2>1. [entries[s] EXCEPT !.value = v] = b
    BY <1>1 DEF Binding
  <2> QED
    BY <2>1
<1>4. old_entries = NoTable
  BY <1>0 DEF TypeOK
<1>5. Unmoved' = {}
  BY <1>4 DEF Unmoved, OldSlots, NoTable
<1>6. Bindings' = BindingsIn([entries EXCEPT ![s] = b])
  BY <1>3, <1>5 DEF Bindings, BindingsIn, Used, Slots
<1>7. Bindings' = {x \in Bindings : x.key # b.key} \cup {b}
  BY <1>0, <1>1, <1>2, <1>6, WriteIsPut, IdleBindings
<1> QED
  BY <1>7 DEF Map!Put

(* A load of the slot of a name that is bound pushes what is bound to it.   *)
LEMMA LoadIsCurrent ==
  ASSUME CacheInv, NEW site \in Sites,
         \/ site \in OwnSites /\ LoadGlobal(site)
         \/ site \in ForeignSites /\ LoadFromModule(site) /\ Bound(SiteKey[site])
  PROVE  Pushes(site)
<1>0. IInv /\ TypeOK /\ KeysReachable
  BY DEF CacheInv, IInv
<1>1. PICK s : /\ FindsName(site, s) /\ acc' = ValueAt(s)
               /\ site \in OwnSites => s \in Used
  <2>1. CASE \/ LoadGlobalHit(site)
             \/ site \in ForeignSites /\ LoadFromModuleCached(site)
    <3>1. Hit(site) /\ acc' = ValueAt(ic[site].index)
      BY <2>1 DEF LoadGlobalHit, LoadFromModuleCached, CacheInv, ForeignSettled, Hit
    <3> QED
      BY <3>1 DEF CacheInv, HitsAreSound
  <2>2. CASE LoadGlobalMiss(site)
    BY <2>2 DEF LoadGlobalMiss
  <2>3. CASE site \in ForeignSites /\ LoadFromModuleFill(site)
    BY <2>3, SiteAssumption DEF LoadFromModuleFill
  <2> QED
    BY <2>1, <2>2, <2>3 DEF LoadGlobal, LoadFromModule
<1>2. s \in Used
  <2>1. CASE site \in OwnSites
    BY <1>1, <2>1
  <2>2. CASE site \in ForeignSites /\ Bound(SiteKey[site])
    <3>1. pc # "rehash" /\ SiteKey[site] \in Keys
      BY <2>2, SiteAssumption
         DEF LoadGlobal, LoadGlobalHit, LoadGlobalMiss, LoadFromModule,
             LoadFromModuleFill, LoadFromModuleCached, ImporterRuns, Running
    <3>2. PICK t \in Used : entries[t].key = SiteKey[site]
      BY <1>0, <2>2, <3>1, IdleBindings DEF Bound, BindingsIn, Used
    <3>3. s \in Slots
      BY <1>1 DEF FindsName, Finds
    <3>4. ASSUME entries[s] = Empty PROVE FALSE
      BY <1>0, <1>1, <3>1, <3>2, <3>3, <3>4, FreeSlotMeansAbsent DEF FindsName
    <3> QED
      BY <3>3, <3>4 DEF Used
  <2> QED
    BY <2>1, <2>2
<1> QED
  BY <1>0, <1>1, <1>2, ProbedSlotIsHome, SlotHoldsBinding DEF Pushes

LEMMA StoreIsPut ==
  ASSUME CacheInv, NEW site \in OwnSites, NEW v \in Values, StoreGlobal(site, v)
  PROVE  Map!Put(SiteKey[site], v)
<1>0. IInv
  BY DEF CacheInv
<1>1. PICK s \in Used :
        entries[s].key = SiteKey[site] /\ entries' = [entries EXCEPT ![s].value = v]
  <2>1. CASE StoreGlobalHit(site, v)
    <3>1. /\ ic[site].index \in Used
          /\ entries[ic[site].index].key = SiteKey[site]
      BY <2>1, ProbedSlotIsHome DEF StoreGlobalHit, CacheInv, HitsAreSound, Sites
    <3> QED
      BY <2>1, <3>1 DEF StoreGlobalHit, Written, Used
  <2>2. CASE StoreGlobalMiss(site, v)
    BY <2>2, ProbedSlotIsHome DEF StoreGlobalMiss
  <2> QED
    BY <2>1, <2>2 DEF StoreGlobal
<1>2. /\ pc = "idle" /\ size' = size
      /\ old_entries' = old_entries /\ cursor' = cursor
  BY DEF StoreGlobal, StoreGlobalHit, StoreGlobalMiss, Running
<1> QED
  BY <1>0, <1>1, <1>2, SlotStoreIsPut

(* A load pushes the value last stored under its name and a store changes   *)
(* the binding of its name only, through the cache or past it: when         *)
(* importers load after their import, and for their loads when the export   *)
(* is declared.                                                             *)
THEOREM AccessesAlwaysByName == ImportFirst /\ CacheSpec => AccessesByName
<1>1. CacheInv /\ [CacheNext]_cachevars
        => [LoadsCurrentValue /\ StoresOwnName]_cachevars
  BY LoadIsCurrent, StoreIsPut DEF LoadsCurrentValue, StoresOwnName, Sites
<1> QED
  BY <1>1, CacheInvariance, PTL DEF CacheSpec, AccessesByName
=============================================================================
