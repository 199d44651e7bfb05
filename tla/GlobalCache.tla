---------------------------- MODULE GlobalCache ----------------------------
(***************************************************************************)
(* The inline caches of eval.c over one module's global scope.  Every      *)
(* LOAD_GLOBAL and STORE_GLOBAL instruction of the module remembers the    *)
(* slot of its name and the table version it was found at; every           *)
(* LOAD_FROM_MODULE instruction of an importing module remembers it too,   *)
(* but fills its cache once and never looks again.                         *)
(***************************************************************************)
EXTENDS HashMap

CONSTANTS
  OwnSites,      \* LOAD_GLOBAL and STORE_GLOBAL instructions of the module
  ForeignSites,  \* LOAD_FROM_MODULE instructions of its importers
  SiteKey,       \* the name in the instruction's argument
  ImportFirst    \* every importer has run its import when it loads; an
                 \* import in a branch not taken is compiled all the same

Sites == OwnSites \cup ForeignSites

ASSUME SiteAssumption ==
  /\ SiteKey \in [Sites -> Keys]
  /\ OwnSites \cap ForeignSites = {}
  /\ ImportFirst \in BOOLEAN

VARIABLES
  ic,         \* the union cb_inline_cache of each site: version and index
  acc,        \* the value the last load pushed
  evaluated   \* mod->evaluated: the module's body has run

cachevars == <<vars, ic, acc, evaluated>>

NoCache == [version |-> 0, index |-> 0]

CacheInit ==
  /\ Init
  /\ ic = [site \in Sites |-> NoCache]
  /\ acc = None
  /\ evaluated = FALSE

-----------------------------------------------------------------------------
(* cb_hashmap_get_index of a release build, which has no assert.  None is   *)
(* what an unused entry, zeroed by calloc, reads as.                        *)
ValueAt(s) == IF entries[s] = Empty THEN None ELSE entries[s].value

(* cb_hashmap_set_index.  An unused entry stays unused.                     *)
Written(s, v) ==
  IF entries[s] = Empty THEN entries ELSE [entries EXCEPT ![s].value = v]

(* An instruction runs only between two cb_hashmap_set calls.               *)
Running == pc = "idle"

Hit(site) == ic[site].version # 0 /\ ic[site].version = version

(* cb_hashmap_find of the site's name ended on slot s, in use or not.       *)
FindsName(site, s) == Finds(SiteKey[site], s)

Fill(site, s) == ic' = [ic EXCEPT ![site] = [version |-> version, index |-> s]]

LoadGlobalHit(site) ==
  /\ Running /\ Hit(site)
  /\ acc' = ValueAt(ic[site].index)
  /\ UNCHANGED <<vars, ic, evaluated>>

LoadGlobalMiss(site) ==
  /\ Running /\ ~Hit(site)
  /\ \E s \in Used :
       /\ FindsName(site, s)
       /\ acc' = ValueAt(s)
       /\ Fill(site, s)
  /\ UNCHANGED <<vars, evaluated>>

LoadGlobal(site) == LoadGlobalHit(site) \/ LoadGlobalMiss(site)

StoreGlobalHit(site, v) ==
  /\ Running /\ Hit(site)
  /\ entries' = Written(ic[site].index, v)
  /\ UNCHANGED <<size, num_entries, version, old_entries, cursor, pending, pc>>
  /\ UNCHANGED <<ic, acc, evaluated>>

(* Mutant of StoreGlobalMiss: the slot is taken by hash, the key not        *)
(* compared.                                                                *)
StoreGlobalByHash(site, v) ==
  /\ Running /\ ~Hit(site)
  /\ \E s \in Used :
       /\ s = Probe(SiteKey[site], 0)
       /\ entries' = [entries EXCEPT ![s].value = v]
       /\ Fill(site, s)
  /\ UNCHANGED <<size, num_entries, version, old_entries, cursor, pending, pc>>
  /\ UNCHANGED <<acc, evaluated>>

(* A store to a name that is not declared is ignored (not a step here).     *)
StoreGlobalMiss(site, v) ==
  /\ Running /\ ~Hit(site)
  /\ \E s \in Used :
       /\ FindsName(site, s)
       /\ entries' = [entries EXCEPT ![s].value = v]
       /\ Fill(site, s)
  /\ UNCHANGED <<size, num_entries, version, old_entries, cursor, pending, pc>>
  /\ UNCHANGED <<acc, evaluated>>

StoreGlobal(site, v) == StoreGlobalHit(site, v) \/ StoreGlobalMiss(site, v)

(* An importer's code may run: OP_IMPORT_MODULE has run the module's body,  *)
(* unless the import was in a branch not taken.                             *)
ImporterRuns == Running /\ (evaluated \/ ~ImportFirst)

(* LOAD_FROM_MODULE in a release build: the slot the probe stopped at is    *)
(* cached and read whether the export is there or not.                      *)
LoadFromModuleFill(site) ==
  /\ ImporterRuns
  /\ ic[site].version = 0
  /\ \E s \in Slots :
       /\ FindsName(site, s)
       /\ acc' = ValueAt(s)
       /\ Fill(site, s)
  /\ UNCHANGED <<vars, evaluated>>

LoadFromModuleCached(site) ==
  /\ ImporterRuns
  /\ ic[site].version # 0
  /\ acc' = ValueAt(ic[site].index)
  /\ UNCHANGED <<vars, ic, evaluated>>

LoadFromModule(site) == LoadFromModuleFill(site) \/ LoadFromModuleCached(site)

(* Mutant of DeclareGlobal: names are added to a module already evaluated.  *)
DeclareGlobalAnyTime(k, v) == BeginSet(k, v) /\ UNCHANGED <<ic, acc, evaluated>>

(* DECLARE_GLOBAL, and CB_SET_EXPORT of a builtin module: cb_hashmap_set    *)
(* while the module's body runs.                                            *)
DeclareGlobal(k, v) ==
  /\ ~evaluated
  /\ BeginSet(k, v)
  /\ UNCHANGED <<ic, acc, evaluated>>

(* The rest of that cb_hashmap_set.                                         *)
SetStep ==
  /\ Insert \/ Overwrite \/ Reinsert \/ EndGrow
  /\ UNCHANGED <<ic, acc, evaluated>>

(* OP_IMPORT_MODULE and cb_run set mod->evaluated when the body is over,    *)
(* whether it returned or threw.  It may have skipped declarations: an      *)
(* export can stand in a branch or after a throw.                           *)
BodyEnds ==
  /\ Running /\ ~evaluated
  /\ evaluated' = TRUE
  /\ UNCHANGED <<vars, ic, acc>>

CacheNext ==
  \/ \E site \in OwnSites : LoadGlobal(site)
  \/ \E site \in OwnSites, v \in Values : StoreGlobal(site, v)
  \/ \E site \in ForeignSites : LoadFromModule(site)
  \/ \E k \in Keys, v \in Values : DeclareGlobal(k, v)
  \/ SetStep
  \/ BodyEnds

CacheSpec == CacheInit /\ [][CacheNext]_cachevars

(* The C code runs to completion: once cb_hashmap_set is entered nothing    *)
(* else is scheduled until it returns.                                      *)
FairCacheSpec == CacheSpec /\ WF_cachevars(SetStep)

-----------------------------------------------------------------------------
CacheTypeOK ==
  /\ TypeOK
  /\ ic \in [Sites -> [version : Nat, index : Nat]]
  /\ acc \in Values \cup {None}
  /\ evaluated \in BOOLEAN

(* eval.c 682, 717, 841: version equality is a sufficient test.  A cache    *)
(* that passes it names the slot at which a probe for its name would stop   *)
(* now, in every state, growth included; and that slot is in use when the   *)
(* instruction is the module's own.                                         *)
HitsAreSound ==
  \A site \in Sites :
    Hit(site) => /\ FindsName(site, ic[site].index)
                 /\ site \in OwnSites => ic[site].index \in Used

(* eval.c 841: once the module's body has run, a filled LOAD_FROM_MODULE    *)
(* cache has the table's version, an assertion a release build does not     *)
(* evaluate, so the slot it reads unchecked is not out of date.             *)
ModuleCacheCurrent ==
  \A site \in ForeignSites :
    evaluated /\ ic[site].version # 0 => Hit(site)

Bound(k) == \E b \in Bindings : b.key = k

Pushes(site) == [key |-> SiteKey[site], value |-> acc'] \in Bindings

(* eval.c 674-698, 820-848: whatever the cache says, a load pushes the      *)
(* value last stored under its name; a LOAD_FROM_MODULE, when the module    *)
(* has declared the export.                                                 *)
LoadsCurrentValue ==
  /\ \A site \in OwnSites : LoadGlobal(site) => Pushes(site)
  /\ \A site \in ForeignSites :
       LoadFromModule(site) /\ Bound(SiteKey[site]) => Pushes(site)

(* eval.c 836: "Exports are verified at compile time", so what a            *)
(* LOAD_FROM_MODULE pushes is a value of the export, declared or not.       *)
ExportsBound ==
  [][\A site \in ForeignSites : LoadFromModule(site) => Pushes(site)]_cachevars

(* eval.c 711-731: a store, through the cache or not, changes the binding   *)
(* of its own name and no other.                                            *)
StoresOwnName ==
  \A site \in OwnSites, v \in Values :
    StoreGlobal(site, v) => Map!Put(SiteKey[site], v)

(* An access means its name, whether it goes through the cache or not.     *)
AccessesByName == [][LoadsCurrentValue /\ StoresOwnName]_cachevars
=============================================================================
