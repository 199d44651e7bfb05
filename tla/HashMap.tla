------------------------------ MODULE HashMap ------------------------------
(***************************************************************************)
(* hashmap.c: the open-addressing table behind every module's global scope *)
(* and the compiler's import set.  Keys are interned names.  The table has *)
(* no deletion.  A growth rehashes the old array one entry at a time; each *)
(* iteration of that loop is a step here, and so is the part of            *)
(* cb_hashmap_set before and after its first maybe_grow.                   *)
(***************************************************************************)
EXTENDS Integers, FiniteSets

CONSTANTS
  Keys,      \* interned names
  Values,    \* struct cb_value payloads
  Hash,      \* hash_size_t: any function of the key
  InitSize,  \* INITIAL_SIZE, 64 in the code
  Empty,     \* an entry with in_use = 0
  None       \* no cb_hashmap_set is in progress

Binding == [key : Keys, value : Values]

ASSUME HashAssumption == Hash \in [Keys -> Nat]
ASSUME SizeAssumption == InitSize \in Nat /\ InitSize > 0
ASSUME SentinelAssumption == Empty \notin Binding /\ None \notin Binding

VARIABLES
  size, num_entries, version,  \* the fields of struct cb_hashmap
  entries,      \* m->entries: 0 .. size - 1 -> Binding or Empty
  old_entries,  \* maybe_grow's old array while it is being rehashed
  cursor,       \* maybe_grow's loop variable i
  pending,      \* the arguments of the cb_hashmap_set in progress
  pc            \* where that call stands

table == <<size, num_entries, version, entries>>
vars == <<size, num_entries, version, entries, old_entries, cursor, pending, pc>>

Slots == 0 .. size - 1
OldSlots == DOMAIN old_entries
NoTable == [j \in {} |-> Empty]

-----------------------------------------------------------------------------
(* WRAP(m, idx): the slot of the d-th probe for k.  The mask is a modulus   *)
(* because sizes are powers of two.                                         *)
Probe(k, d) == (Hash[k] + d) % size

(* The probe loop of cb_hashmap_find stops on s after d steps: no earlier   *)
(* slot is free or holds k.                                                 *)
StopsAfter(k, s, d) ==
  /\ s = Probe(k, d)
  /\ entries[s] # Empty => entries[s].key = k
  /\ \A e \in 0 .. d - 1 :
       entries[Probe(k, e)] # Empty /\ entries[Probe(k, e)].key # k

(* cb_hashmap_find returns s.                                               *)
Finds(k, s) == s \in Slots /\ \E d \in 0 .. size - 1 : StopsAfter(k, s, d)

(* Mutant of NeedsGrowth: an off-by-one that waits for one entry too many.  *)
NeedsGrowthLate(n) == n > size

(* num_entries / size < MAX_LOAD_FACTOR, negated.  Both operands of the     *)
(* division are size_t, so it is an integer division; 0.75 is 3/4.          *)
NeedsGrowth(n) == ~((n \div size) * 4 < 3)

(* A grown, empty table: the part of maybe_grow its mutants share.          *)
Enlarge(e) ==
  /\ old_entries' = e
  /\ size' = 2 * size
  /\ entries' = [s \in 0 .. 2 * size - 1 |-> Empty]
  /\ cursor' = 0
  /\ pc' = "rehash"

Continue(n, e, next) ==
  /\ entries' = e
  /\ num_entries' = n
  /\ pc' = next
  /\ UNCHANGED <<size, version, old_entries, cursor>>

(* Mutant of MaybeGrow: the version is not bumped.                          *)
MaybeGrowSilently(n, e, next) ==
  IF NeedsGrowth(n)
  THEN Enlarge(e) /\ num_entries' = 0 /\ version' = version
  ELSE Continue(n, e, next)

(* maybe_grow called on a table of n entries in array e, to continue at     *)
(* next when nothing has to be done.                                        *)
MaybeGrow(n, e, next) ==
  IF NeedsGrowth(n)
  THEN Enlarge(e) /\ num_entries' = 0 /\ version' = version + 1
  ELSE Continue(n, e, next)

-----------------------------------------------------------------------------
Init ==
  /\ size = InitSize
  /\ num_entries = 0
  /\ version = 1
  /\ entries = [s \in 0 .. InitSize - 1 |-> Empty]
  /\ old_entries = NoTable
  /\ cursor = 0
  /\ pending = None
  /\ pc = "idle"

(* cb_hashmap_set up to and including its own maybe_grow.                   *)
BeginSet(k, v) ==
  /\ pc = "idle"
  /\ pending' = [key |-> k, value |-> v]
  /\ MaybeGrow(num_entries, entries, "insert")

(* The key is new: fill the free slot, then inc_num_entries.                *)
Insert ==
  /\ pc = "insert"
  /\ \E s \in Slots :
       /\ Finds(pending.key, s)
       /\ entries[s] = Empty
       /\ MaybeGrow(num_entries + 1, [entries EXCEPT ![s] = pending], "idle")
  /\ pending' = None

(* The key is there: only its value changes.                                *)
Overwrite ==
  /\ pc = "insert"
  /\ \E s \in Slots :
       /\ Finds(pending.key, s)
       /\ entries[s] # Empty
       /\ entries' = [entries EXCEPT ![s] = pending]
  /\ pending' = None
  /\ pc' = "idle"
  /\ UNCHANGED <<size, num_entries, version, old_entries, cursor>>

(* Mutants of Reinsert: the entry keeps its old index; i is not advanced.   *)
ReinsertInPlace ==
  /\ pc = "rehash"
  /\ cursor \in OldSlots
  /\ entries' = [entries EXCEPT ![cursor] = old_entries[cursor]]
  /\ num_entries' = num_entries + 1
  /\ cursor' = cursor + 1
  /\ UNCHANGED <<size, version, old_entries, pending, pc>>

ReinsertStuck ==
  /\ pc = "rehash"
  /\ cursor \in OldSlots
  /\ \E s \in Slots :
       /\ Finds(old_entries[cursor].key, s)
       /\ entries' = [entries EXCEPT ![s] = old_entries[cursor]]
  /\ UNCHANGED <<size, num_entries, version, old_entries, cursor, pending, pc>>

(* One iteration of maybe_grow's loop.  The nested cb_hashmap_set calls     *)
(* maybe_grow twice; both must return at once (the two NeedsGrowth          *)
(* conjuncts), or the old array would be rehashed from inside the loop.     *)
Reinsert ==
  /\ pc = "rehash"
  /\ cursor \in OldSlots
  /\ IF old_entries[cursor] = Empty
     THEN UNCHANGED <<entries, num_entries>>
     ELSE \E s \in Slots :
            /\ ~NeedsGrowth(num_entries)
            /\ Finds(old_entries[cursor].key, s)
            /\ entries' = [entries EXCEPT ![s] = old_entries[cursor]]
            /\ num_entries' = IF entries[s] = Empty THEN num_entries + 1
                                                    ELSE num_entries
            /\ ~NeedsGrowth(num_entries')
  /\ cursor' = cursor + 1
  /\ UNCHANGED <<size, version, old_entries, pending, pc>>

(* Mutant of EndGrow: the loop stops one entry early.                       *)
EndGrowEarly ==
  /\ pc = "rehash"
  /\ cursor + 1 \notin OldSlots
  /\ old_entries' = NoTable
  /\ cursor' = 0
  /\ pc' = IF pending = None THEN "idle" ELSE "insert"
  /\ UNCHANGED <<table, pending>>

(* The loop is over: free the old array and return to the caller.           *)
EndGrow ==
  /\ pc = "rehash"
  /\ cursor \notin OldSlots
  /\ old_entries' = NoTable
  /\ cursor' = 0
  /\ pc' = IF pending = None THEN "idle" ELSE "insert"
  /\ UNCHANGED <<table, pending>>

Next ==
  \/ \E k \in Keys, v \in Values : BeginSet(k, v)
  \/ Insert \/ Overwrite \/ Reinsert \/ EndGrow

Spec == Init /\ [][Next]_vars

-----------------------------------------------------------------------------
Used == {s \in Slots : entries[s] # Empty}

(* The bindings of the old array that the rehash has not moved yet.         *)
Unmoved == {j \in OldSlots : j >= cursor /\ old_entries[j] # Empty}

(* Types of the C fields and of the loop state.                             *)
TypeOK ==
  /\ size \in Nat /\ size > 0
  /\ num_entries \in Nat
  /\ version \in Nat
  /\ entries \in [Slots -> Binding \cup {Empty}]
  /\ cursor \in Nat
  /\ pending \in Binding \cup {None}
  /\ pc \in {"idle", "insert", "rehash"}
  /\ pc = "insert" => pending # None
  /\ IF pc = "rehash"
     THEN \E m \in 1 .. size : /\ size = 2 * m
                              /\ old_entries \in [0 .. m - 1 -> Binding \cup {Empty}]
                              /\ cursor <= m
     ELSE old_entries = NoTable /\ cursor = 0

(* hashmap.c 95-112: every stored key is where its own probe chain leads,   *)
(* so cb_hashmap_find never misses a key that was set nor meets it twice.   *)
KeysReachable == \A s \in Used : Finds(entries[s].key, s)

(* hashmap.c 103: the probe loop has no other exit than a free slot or the  *)
(* key, so the table must never be full when a probe starts.                *)
ProbeTerminates == \E s \in Slots : entries[s] = Empty

(* hashmap.c 89-93: num_entries counts the entries in use.                  *)
CountExact == num_entries = Cardinality(Used)

(* The premise of the inline caches (eval.c 682, 717): while the version is *)
(* the same, an entry stays in its slot.                                    *)
IndexStable ==
  [][version' = version =>
       \A s \in Used : entries'[s] # Empty /\ entries'[s].key = entries[s].key]_vars

(* hashmap.c 65-87: the table is a finite map, and growing, however many    *)
(* entries it has moved, is invisible.                                      *)
Bindings == {entries[s] : s \in Used} \cup {old_entries[j] : j \in Unmoved}

Map == INSTANCE FiniteMap WITH bindings <- Bindings

ImplementsMap == Map!Spec

(* hashmap.c 128-149: when the insertion is made the key is bound to the    *)
(* new value, and every other binding, wherever a growth has it, is kept.   *)
SetTakesEffect ==
  [][pending # None /\ pending' = None
       => Map!Put(pending.key, pending.value)]_vars

(* Every cb_hashmap_set returns, growth included.                           *)
SetReturns == pc # "idle" ~> pc = "idle"
==================================================
