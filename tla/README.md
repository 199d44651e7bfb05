# c-bytecode-vm in TLA+

A verification development for `c-bytecode-vm`, a small dynamic language whose
compiler and virtual machine are written in C and whose library is written in
the language itself (`lib/*.cb`). TLC checks the models on small instances and
TLAPS proves the theorems named below for every value of the constants.

Paths below are relative to `src/`; line numbers are those of that tree.

## 1. Inventory of the system

The program is single-threaded. What makes it hard is not concurrency but
*re-entrancy* (native functions call back into the interpreter, imports and
allocations run arbitrary code or a collection in the middle of an operation),
*hand-managed memory* (a mark-and-sweep collector whose roots are the value
stack, a hand-linked list and the C programmer's discipline), *caches and
indices* that outlive the array they point into, and *non-local exits* (throw,
break, continue, return) through frames, loops and try blocks.

| Component | Files | State it keeps | Operations | What makes it correct |
|---|---|---|---|---|
| Hash tables | `hashmap.c` | entries, count, version | find, get, set, grow, indexed access | every key reachable; probes end; a finite map; indices stable per version |
| Inline caches | `eval.c` 674-731, 820-848, 1131-1212; `code.c` | per-instruction cache | LOAD/STORE_GLOBAL, LOAD_FROM_MODULE, LOAD/STORE_STRUCT | a hit names the right entry |
| Closures and upvalues | `eval.c` 76-103, 632-660, 733-818; `value.c` 22-60, 690-730 | open-upvalue array, refcounts | bind, load, store, close on return, free with the function | closures over one variable share it, for as long as any lives |
| Garbage collector | `gc.c`, `value.c` 667-786, `code.c`, `struct.c` | object list, mark flags, mark queue, root list, allocation counters | alloc, hold, release, mark, sweep | nothing reachable is freed, everything unreachable is, a collection ends |
| Value stack, frames, errors | `eval.c`, `error.c`, `opcode.c` | stack, sp, bp, frames, try stack, pending error | every opcode, call, native call, throw, unwind | the stack is balanced and within `stack_size`; handlers match the blocks they guard |
| Bytecode and labels | `compiler.c` 532-693, `opcode.c`, `disassemble.c` | code array, labels, pending jumps | emit, mark label, patch | every jump lands on its label |
| Scopes and names | `compiler.c` 424-525, 701-945, 1602-1760 | binding chains, free variables, local slots | declare, resolve, push/pop scope | a name means the innermost declaration that encloses it |
| Statements and expressions | `compiler.c` 1198-3063 | loop state, try depth | code generation for each construct | the code generated does what the construct means |
| Lexer | `compiler.c` 122-422 | position, line, column | next token | tokens partition the source |
| Agent, modules, imports | `agent.c`, `module.c`, `eval.c` 116-139, 1282-1322, `builtin_modules.c`, `modules/module.c` | string table, modspec table, module array, `evaluated` | intern, reserve, add, import, run | one module per name, evaluated once, exports bound |
| Structs and methods | `struct.c`, `eval.c` 1095-1265 | specs, fields, methods, cache | declare, instantiate, load, store, call | a member means the field or method of that name |
| Strings, bytes, arrays | `str.c`, `bytes.c`, `value.c` | payloads | create, compare, slice, index | values |
| Intrinsics and native modules | `intrinsics.c`, `modules/*.c` | file and socket handles | calls into libc | arguments checked, errors reported |
| Library | `lib/*.cb` | arrays, lists, hash tables, iterators, parsers written in the language | container and iterator operations | each is its mathematical counterpart |
| Command line and REPL | `cbcvm.c`, `repl.c` | root code held from the GC | run a file, run a line | order of set-up, run and tear-down |

How they interact: the compiler fills a *modspec* (agent) with code (a GC
object); `cb_run` and `OP_IMPORT_MODULE` evaluate it, creating the module's
global scope (a hash table). The interpreter's instructions read the scope
through inline caches; calls push frames and may re-enter `cb_eval` through
native functions; allocations may run a collection, whose roots are the stack
below the current frame's `sp`, the module scopes, the pending error and the
held objects. Functions keep upvalues that point into the stack while the frame
that owns the variable is live.

## 2. Plan

The order is that of the damage a mistake does to programs that contain none:
memory that is freed or reused, then values that are wrong, then constructs of
the language, then the library written in it.

| # | Module | What it is | Composes | State |
|---|---|---|---|---|
| 1 | `FiniteMap` | abstract: a map that sets change one key at a time | | done |
| 2 | `HashMap` | `hashmap.c`; implements `FiniteMap` | | done, proved |
| 3 | `GlobalCache` | inline caches over a module's table | `HashMap` | done, proved |
| 4 | `LexicalScope` | abstract: variables and closures as README.md promises them | | done |
| 5 | `Upvalues` | frames, upvalues, closures at run time; implements `LexicalScope` | | done, proved |
| 6 | `Gc` | the collector | | done, proved |
| 7 | `Bytecode` | code, labels, pending jumps | | done |
| 8 | `Statements` | statements compiled and run | `Bytecode` | done, proved |
| 9 | `Imports` | modspecs, modules, the compiler's recursion, evaluation | | done, proved |
| 10 | `Scopes` | names to slots, upvalues, globals | | done |
| 11 | `Expressions` | precedence parser and operand stack, against the tree an expression means | `Bytecode` | done |
| 12 | `Records` | abstract: what README.md promises of structs | | done |
| 13 | `Structs` | specifications, fields, methods, struct caches, the structs module; implements `Records` | | done, proved |
| 14 | `Activations` | abstract: calls with variables and operands of their own, errors to the nearest handler | | done |
| 15 | `Calls` | frames in one array of slots, native functions that call back, `apply`, bound methods, tracebacks; implements `Activations` | | done, proved |
| 16 | `Values` | printing, equality, order and arithmetic of `value.c` and `eval.c` | | done, proved |
| 17 | `Lexer` | tokens, line and column | | planned |
| 18 | library | lists, array lists, hash maps, iterators of `lib/*.cb` against sequences and maps | | planned |
| 19 | temporaries | the C locals of allocating functions under the collector, module::import_ and collections | `Gc`, `Imports` | planned |

Proofs planned: the slots of `Scopes`.

The runs are one per question, with bounds that keep each within a minute or two;
the remaining modules each get one.

## 3. The modules and the code

### 3.1 Hash tables: `FiniteMap`, `HashMap` (`hashmap.c`)

`size`, `num_entries`, `version` and `entries` are the fields of `struct
cb_hashmap`; an entry is `Empty` or a binding. `Hash` is any function of the
key. `Probe` is the index arithmetic of `cb_hashmap_find`, and `Finds(k, s)`
says that the loop started for `k` stops at slot `s`; so `Insert` and
`Overwrite` need no loop variable, but a slot nothing leads to stays unreachable.
`maybe_grow` is not atomic here: `old_entries` and `cursor` are its local array
and loop variable, and each iteration is an action (`Reinsert`), because it calls
the function that may grow the table again. `BeginSet` is `cb_hashmap_set` up to
the end of its first `maybe_grow` test, `Insert`/`Overwrite` the rest.
`FiniteMap` is what the callers need: `Put` changes one key and there is no other
step. `HashMap` implements it with `bindings` mapped to the union of the new
array and of the part of the old one still to be moved, so a growth must be a
stutter.

### 3.2 Inline caches: `GlobalCache` (`eval.c` 674-731, 820-848)

EXTENDS `HashMap` with `ic`, the `union cb_inline_cache` of each instruction
(site), and `acc`, the value pushed last. A site is one instruction of the code;
its action has a hit and a miss case. The build modelled is the release build:
`LoadFromModuleCached` has no version test and `LoadFromModuleFill` takes the slot
that the search ends at, used or not, since both tests are `assert`s in the source.
`DeclareGlobal` only happens while the module's body runs. With `ImportFirst`,
importers' sites only run after that body has ended, by its end or by an error;
without it, also before, as an import in a branch allows.

### 3.3 Closures: `LexicalScope`, `Upvalues` (`eval.c`, `value.c`)

`stack`, `frames`, `open` (the `upvalues` array of cb_eval's state), `upvals`
(`struct cb_upvalue`) and `closures` are the code's; `holder` (the variable a slot
stands for) and `captured` are history variables used by the properties and by
the refinement mapping to `LexicalScope`. `aborted` stands for a failed
assertion. `building` is the closure between OP_LOAD_CONST and its last
OP_BIND. The constant `Features` admits programs beyond the plain case:
`"reorder"`, captures that are not in the order the locals were declared;
`"blocks"`, a block that ends with a captured local; `"throws"`, a frame left by
an error; `"drops"`, a closure collected while the frame of a variable it closes
over runs. Lexical scoping holds without them and fails with each of them (§6).

### 3.4 The collector: `Gc` (`gc.c`, `value.c`, `struct.c`, `code.c`)

A collection is the loop over the roots (`MarkRoot`), the mark queue
(`EvaluateQueue`) and the sweep, an object at a time (`SweepFree`, `SweepKeep`);
it starts inside an allocation, `pending`, whose operands the program still
holds. Between collections the program allocates, stores and drops references
and roots (`Mutate`), and once enables the collector. Whether a mark function
returns early on a marked object (`TestsMark`) is as in each kind's function:
arrays and code do not. `refs` is the heap as a graph; `Reach(S)` is
reachability, as the least closed superset.

### 3.5 Statements: `Bytecode`, `Statements` (`compiler.c` 532-693, 1097-1130, 1671-2210; `eval.c`)

A behaviour is a program. First the compiler's single pass over it, one action
per construct, with every choice of the next construct; `bc` is `struct
cb_bytecode` and `loops`, `try_depth`, `max_try_depth` are as in `struct
cstate`. Then `cb_eval` over the code that came out, with every outcome of the
tests and calls. Expressions are calls, so that one may fail at every place.
`handlers` and `starts` are history: the try blocks that textually enclose each
statement, against which the run-time `try_stack` is compared.

### 3.6 Imports: `Imports` (`agent.c`, `module.c`, `compiler.c` 1919-2045, `eval.c` 116-139 and 1282-1322, `modules/module.c`)

`program` is the text of the files, constant. The compiler recurses into the
files a file imports (`compiling` is its C stack), fills `specs`, and the machine
runs the bodies (`frames`). `modules` is `cb_vm_state.modules`, an array that may
move: `Leave` may write through a pointer taken before it did. Which programs are meant
is said by predicates on their text, since each of the properties fails for some
other program (§6): no cycles (`Acyclic`); a file that an import statement names does not call
`module::import_` (`Separate`); one that `module::import_` names is named in one place
(`OneWay`), and shares with another such file only what `<main>` imports too (`Shared`);
an import in a branch is not relied on outside (`Branches`); and there are fewer files
than the limit on the depth (`Small`).

### 3.7 Names: `Scopes` (`compiler.c` 424-525, 700-760, 903-945, 1256-1670)

A behaviour is again a program, parsed a construct at a time. `fstates` is the
chain of `function_state`s with their scopes, bindings and free variables. `env`
is history, the declarations in scope by README.md's rules, each with an
identity; whenever a name is compiled, and whenever the captures of a closure are
emitted, the variable the code reaches is compared with the one meant. A name
that resolves to an upvalue is compared when its function ends, where the
closure is bound; if it is bound to an upvalue in turn, one function further
out (`meant`). The name of a nested function statement is one variable with two
slots (`twice`): the second binding is marked `copy`, and `reached` keeps which of the two each
use, load or store, has come to. `Forms` with `"assigned"` admits stores to such a name,
with `"through"` functions that capture variables and hand others on.

### 3.8 Expressions: `Expressions` (`compiler.c` 2203-2455, 2567-3063; `opcode.c`; `eval.c` 503-630, 850-1065, 1093-1278)

A behaviour is an expression, read token by token: `Peek` chooses the next token
among those that let the text compile, and each parsing function is cut where it
calls another, with the pending calls of `compile_expression_inner` in `callers`.
Then the code runs on `stack`, with every outcome of the tests, and logs what it
does to what. The reference is declarative: `Tree` splits the whole text at its
loosest operator, by rank and association, and `Evaluated` says what a tree does;
neither knows of binding powers, code or a stack. One token stands for all
operators treated alike (`!` for the prefix operators, `-=` for the compound
assignments, `++` for `--`). No operation fails here: a failure leaves the
expression, which is `Statements`' subject.

### 3.9 Calls: `Activations`, `Calls` (`eval.c` 107-253, 301-463, 613-672, 1067-1129, 1280-1358; `error.c`; `intrinsics.c` 465-483)

`Statements` and `Expressions` look at one frame. Here are all of them, in the
one array of slots that `cb_vm_state.stack` is: `stack` holds the slots up to the
innermost stack pointer, and a frame its `bp`, `sp` and number of arguments. What
is above that stack pointer is `Junk` until it is written, and so is the result
a failed native function did not set. The code is any code the compiler could
have made: the guards (`Statement`, `Holds`, `HasRoom`) are what it sees to, and
`open`, `tries` and `left` are history that they and the refinement need: `tries`
counts the try statements that a frame is in (`MaxTry` bounds how deep they are nested), and
`left` is the end of what the errors it caught have left on its stack, after any number of try
statements (a try begins only where they left at most `MaxLeft` slots). `StackSize` is what
`create_code` counts, no more. `Eval` is the entry of
`cb_eval` with its depth limit; it is reached from `CallUser`, `Apply` (through
`cb_vm_call`), `CallBound` (through `method_caller`) and `ImportModule`, each with its
own `ensure_stack`, whose effect a frame keeps in `room`. A native function that
calls back has a frame of its own while it does. `Unwind` is the end of `cb_eval` with an error:
through the native frame, if there is one, into `RetWithTrace` of the caller.

`Activations` knows no slots: an activation has variables, operands, its `this`
and the try statements it is in. After a catch it promises the operands that were
there at the try statement, then anything, then the error: the operands a failed
call leaves behind are thus no departure. Between CATCH and the store or POP that
the compiler emits right after it nothing is called: hence `HasRoom(0)` in `Call`. What is
left out: `apply` of a bound method (its upvalues are looked up in the frame of `apply`) and
of `apply` itself, extra arguments read by `arguments()` after locals were stored
over them, and closures.

### 3.10 Structs: `Records`, `Structs` (`struct.c`; `eval.c` 1075-1241; `modules/structs.c`)

A spec stands at an address: the compiler's, one for each declaration, for ever,
and those of `structs::new`, which the collector frees (`Collect`) when no
variable and no struct refers to them, and whose addresses come back. `caches` is
`struct cb_load_struct_cache` of each instruction, with a miss, a hit, a second
spec (`Deopt`) and a refill (`Fill`), which the index -1 forbids. `FieldAt` is `s->fields[i]` for any `i`:
outside of the fields it reads `Junk`. Names, in `Records`, are all there is: a
struct maps its fields' names to values, its methods' to functions, and a step
of a cache or of the collector is none; `named`, the name the last access used, keeps an access
to one name from passing for one to another. `Features` admits the programs for which
this fails, see section 6.

### 3.11 Values: `Values` (`value.c` 97-608; `eval.c` 503-570, 850-984, 1028-1050)

The heap has a few arrays and structs, filled and linked in all ways, cyclic
ones too. `cb_value_eq` and `cb_value_to_string` recurse: `work` is their C stack, with
one step for each element they come to, so that recursion without end is a
`Crash` at the depth `CStack`. `out` is what was printed, as a sequence of
values, openings and closings; `repr` is `repr_stack`. Scalars have a type and a
rank in their order; strings in the heap and interned ones are two types. Integers go from
`-Half` to `Half - 1`: sums are checked as `__builtin_add_overflow` does, differences in
`cb_value_cmp` and the negative of the least one wrap, and a division without a quotient is a
`Crash`. Doubles are whole numbers, bytes, characters, functions and bitwise
operators are left out.

## 4. What the runs show

| Run | Bounds | Why they are enough |
|---|---|---|
| `global_cache` | 4 names, 3 of them colliding; initial size 2; 2 own sites and an importer's | the table grows twice, wraps, and a growth nested in a growth is possible; every site can be stale, fresh or unfilled against each growth; importers run after the import |
| `upvalues` | 2 nested frames of 2 locals, 2 closures of 2 captures, 3 upvalues and variables, no features | two closures share, one is nested in the other, and either outlives the frame or the other |
| `gc` | an array, a function and its code; 2 references each | all ways to link three objects; each kind that tests its mark and each that does not; the threshold is met at each object, so collections run in every heap |
| `gc_cycles` | two arrays | the shortest cycles |
| `statements` | programs of 6 parsing steps; 2 operands left | a try in a loop in a try, with breaks out of both; loops nested with else branches; 4 pending jumps at a time |
| `imports` | main and two modules; main has up to 3 statements, the others 2 and 1; or three modules, two of which share the third; depth 6 | both ways to import, before and after each other, in and out of branches, through a second module and around it, with failures at each place |
| `scopes` | 2 names, 6 constructs, functions nested 3 deep; statements and anonymous functions | a name captured across two functions; shadowing by blocks, parameters, patterns and function names |
| `expressions` | 6 tokens, and those that close brackets; five infix operators | operators of five ranks, two at a time with a prefix, assignments to each kind of place, brackets inside brackets; both short circuits, one in the operand of the other. With 7 tokens, three operators at a time, the same holds (two minutes) |
| `calls` | two nested `cb_eval` calls (the third is refused); a function of one optional parameter and a local, a method, a native function, `apply`, a bound method; 3 operands, 2 arguments, one try statement at a time, any number one after another, one slot left over by them | a call in the arguments of a call or of a method; arguments too few, too many and just enough; an error from each kind of callee, through a native frame, to a handler in the same, the next or no frame. Every combination of two adjacent frames occurs |
| `calls_bound` | the method has a parameter | a counterexample of three steps |
| `structs` | two declarations, one spec at a time made at run time, of one of two layouts; 2 structs; one load and one store instruction; names that are a field of one spec, a method of another and twice in a third | an instruction needs three specs to go through all its states; each cache meets all of them in any order, and an address with two layouts in turn |
| `values` | an array of two elements, one of one, a struct of one field; a C stack as deep as there are cells; all integers of 4 bits | all ways to link three cells, all pairs compared and all printed; every sum, product and quotient of two integers, and those that do not fit |

The properties, by component:

* **Hash tables.** `KeysReachable`: the probe for every key present ends at its
  entry. `ProbeTerminates`: a free entry is left, so the probe for an absent key
  ends; the growth test divides integers, `(n / size) * 4 < 3`, and therefore lets
  the table fill up completely before it grows, which is why this is not
  obvious. `SetReturns` (liveness): growth ends. `IndexStable`: while the version
  is the same, no entry moves. `ImplementsMap`.
* **Caches.** `HitsAreSound`: a cache whose version matches names the slot that a probe for its
  own name would stop at now, which for the module's own instructions is in use.
  `ModuleCacheCurrent`: the assertion of LOAD_FROM_MODULE on the version holds, when
  importers load after their import; where they need not (§6), it fails.
  `AccessesByName`: a load gives the value last stored under its name, if there is one
  (`LoadsCurrentValue`), a store changes that binding only (`StoresOwnName`). That there
  is one for each export is `ExportsBound`, which fails (§6).
* **Closures.** `ClosuresSound`, which is `UpdatesShared`, `VariablesSeparate`,
  `RefcountExact` and `NeverAborts`; `ImplementsLexicalScope`: for programs without
  features. Each part but the second last fails with some feature (§6).
* **Collector.** `ReachableKept`, `GarbageFreed`, `CodeOutlivesFunction`,
  `AccountsExact` (`ListExact` and `AmountExact`), `CollectionEnds` (liveness).
* **Statements.** `JumpsLand`, `HandlersMatchBlocks`, `StatementsBalanced`; with the
  types, `TryStackInBounds` and `OperandsFit`: beyond what caught errors left, the
  operands fit in `stack_size`.
* **Imports.** `EvaluatedOnce`, `ImportsRunFirst`, `Ends` (liveness); with the types,
  `OneModulePerName` and `NeverAborts`.
* **Names.** `ResolvesLexically`: each use is compiled to the variable it means, and a slot
  that is stored to is the one all other uses of the variable reach. It fails
  with the forms `"assigned"` and `"through"` (§6). `WellFormed`, the types and `LocalsInPlace`.
* **Expressions.** `MeansItsTree`; `WellFormed`, the types and `OperandsFit`: the
  operands of one expression fit in `stack_size`, although that is a sum over the
  code and not over its paths.
* **Calls.** `ImplementsActivations`; `RoomSuffices`: whatever `ensure_stack` was asked
  for is enough for what the frame pushes, nested calls and native frames
  included, but for as many slots as caught errors have left in it. That the room is enough with
  those is `StackSizeSuffices`, which fails (§6): so a frame can overrun its room, by what
  they left and no more. In `calls_bound`, `ArgumentsArrive`, which fails.
* **Structs.** `ImplementsRecords`, which fails with each feature (§6); `CachesAgree`: a cache that names a spec has the index
  a search of that spec finds, or that of no field when it is a method.
* **Values.** `StackSuffices`: only comparing two cyclic values recurses without end, and
  nothing else but a division crashes; `DotsOnlyInside`: `...` stands for a value inside itself and nothing else;
  `OperatorsRight`: comparisons agree with the structural equality of possibly
  infinite trees wherever the difference of two integers is one (`ComparesRight`), integer
  results are exact or an error (`ArithmeticExact`); `EvaluationEnds` (liveness). `IntegersOrdered`,
  the same for all integers, fails (§6).

Fairness. The program is one thread; once a C function has started nothing else
runs until it returns. Hence `FairCacheSpec` is weak fairness of the steps of a
`cb_hashmap_set` in progress, `Gc!FairSpec` of the steps of a collection in
progress and `Imports!FairSpec` of `Next` (programs without loops are compiled
and run as far as they go), and `Values!Spec` of the steps of a comparison or a
printing in progress. No fairness is assumed of the program being run.

`CHECK_DEADLOCK FALSE` stands where a behaviour has an end: a program that is
compiled, has run or has failed, or one that reached the bound of its length; a
module whose names are all bound.

## 5. What is proved

The proof modules EXTEND the module they are about. The theorems hold for every
value of the constants that satisfies the modules' assumptions: any set of names
and values, any hash function and any initial size of at least one
(`HashAssumption`, `SizeAssumption`, `SentinelAssumption`); any set of
instructions, each with a name of its own module (`SiteAssumption`); any set of
objects of any kinds and sizes, any threshold and growth factor, with or without
cycles (`ObjAssumption`); any declarations, layouts, instructions, structs and
addresses (`ConstantsAssumption`, `NoneAssumption`); any number of frames, locals,
captures, closures and upvalues (`BoundsAssumption` of `Upvalues`); programs of any
length, with any number of operands (`StepsAssumption`); any functions with any numbers of
parameters, defaults, locals and operands, any arrays and bound methods, any limits
(`BoundsAssumption` and `ConstantsAssumption` of `Calls`: a function requires no more
arguments than it has parameters, `apply` requires two, a method is a function reached through
its struct, and a bound method is a method of its receiver); any
files with any statements (`ProgramsAssumption`); any set of arrays and structs of any lengths,
finite or not, any scalars, any width of integers and depth of the C stack (`BoundsAssumption`
and `ScalarsAssumption` of `Values`).

**`TableProofs`, the tables.** `TypeCorrect`, `KeysAlwaysReachable`, `CountAlwaysExact`,
`ProbesAlwaysTerminate`, `TableImplementsMap`, `SetsTakeEffect`,
`IndicesStable`. `KeysReachable` alone is not inductive. A set needs a free entry
to stop at, and the growth test, with its integer division, lets the table fill
to the last entry before it grows. A reinsertion needs the growth it calls not to
lose what is still in the old array. The inductive invariant is
`IInv == TypeOK /\ RoomLeft /\ RehashInv /\ KeysReachable`. `RoomLeft`: an entry
is free. `RehashInv`: during a growth, the new array holds no more entries than
the old array had slots before `cursor` (so the growth inside the growth never
happens), the old array holds no key twice, and what is still to be moved is not
yet in the new one. `TableImplementsMap` is the refinement, proved step by step: a set's last
step is a `Put`, every other step leaves the bindings alone.

**`TableProofs`, the caches.** `CacheHitsSound`, `ModuleCachesCurrent`,
`AccessesAlwaysByName`. `CacheInv` adds
to `IInv` that no cache is ahead of the table's version (`NeverAhead`), so that a
growth makes every cache stale; that a cache of the table's version names the slot where
a probe for its own name stops, in use or not; that no set is in progress once the module is
evaluated (`Settled`); and that an importer's cache, filled only then, has the
table's version (`ForeignSettled`): an evaluated module declares no more names, so
its table grows no more. The last needs, and the theorems about importers assume, `ImportFirst`;
that the export is there is assumed nowhere: where it is not, the cache names the free
slot that the probe for it stops at, and `AccessesByName` says nothing of what is loaded.
`AccessesAlwaysByName` follows from it step by step: the slot that an access uses,
found by the cache or by the probe, holds the access's own name, so its content is a
binding of the abstract map (`SlotHoldsBinding`), and writing its value is the map's
`Put` (`SlotStoreIsPut`, from the lemma `WriteIsPut`).

**`GcProofs`.** `TypeCorrect`, `ReachableAlwaysKept`, `AccountsAlwaysExact`,
`MarksAlwaysCleared`, `GarbageAlwaysFreed`, `CodeAlwaysOutlives`. The inductive
invariant has one conjunct per concern: `PhaseInv` (what each phase leaves
empty), `ListInv` (the two parts of the list are disjoint, without duplicates,
and hold the allocated objects), `CodeInv` (the first reference of a function is
its code), `PendingInv` (the operands of the allocation are reachable),
`NoDangling` (except during a sweep, an allocated object, garbage or not, refers
to allocated ones), `MarkInv` (what is marked or queued is reachable, every root is
marked or not yet visited, and what a marked object refers to is marked or
queued), `SweepInv` (what is marked or swept already is what is reachable) and
`OrderInv` (a function stands before its code in the list, since it was allocated
after it and the list has the newest first). Reachability is a least
fixed point given by its closed supersets, so the only induction needed is the
lemma `ReachLocal`: two heaps that agree on what is reachable in the first have
the same reachable objects.
`AccountsExact` counts the units of the allocated objects one by one, as elements of a
set, so that its sum needs no recursion either: `UnitsAdd` and `UnitsRemove`.

**`StructsProofs`.** `TypeCorrect`, `CachesAlwaysAgree`,
`StructsImplementRecords`. `IInv` adds to `TypeOK` what specs, structs and caches are
(`SpecsInv`, `StructsInv`, `CachesInv`): a declared spec keeps its fields and
methods, one made at run time has no methods, and a spec that a cache names has a
function for each method. It holds whatever the `Features`. `AgreeInv` says what
`CachesAgree` says by name rather than by function, so that it survives the evaluation of a
declaration, and that an instruction that stores never caches the index -1, without which a
hit could write outside of the struct. It needs `"reuse_address" \notin Features`: the theorem
is conditional on what §6 shows to be necessary. The refinement, for
`Features = {}`, shows each access to be the one of `Records` with the same name; the lemma
`SearchFinds` (a search returns a place that holds the name) rests on the
well-foundedness of the natural numbers, and gives that two names never share a place.

**`UpvaluesProofs`.** `TypeCorrect`, `RefcountAlwaysExact`, `ClosuresAlwaysSound`,
`ImplementsScoping`. `IInv` is inductive whatever the `Features`: frames follow one another in
the stack and the slots in use are those of their variables (`FrameInv`), the
closure that a BIND instruction is filling is not running yet (`BuildInv`), an entry of the
open array names an upvalue that exists (`OpenInv`), and an upvalue exists exactly
while some capture of some closure uses it, as many as its count (`CountInv`). So
`RefcountAlwaysExact` needs no condition: what goes wrong under the `Features` of §6
is which variable an upvalue stands for, never when it is freed. `ClosuresSound` is
false under those features, and is proved for `Features = {}` with `PlainInv`: the open
array is sorted by slot (`Sorted`), without which the search of BIND_LOCAL stops too
early; it holds every upvalue that is not closed and nothing else (`OpenExact`), each
of a slot in scope (`OpenHeld`); and captures of the same upvalue are those of the same
variable (`CellsInv`). The refinement of `LexicalScope` follows: the value of a
variable is that of its slot while it has one, of its upvalue after, and each action changes
the value of the variable that the action of `LexicalScope` changes.

**`StatementsProofs`.** `TypeCorrect`, `JumpsAlwaysLand`, `HandlersAlwaysMatch`,
`StatementsAlwaysBalanced`. The properties speak of a run, whose every step depends on what the
compiler emitted long before, at a time when most labels had no address. The
argument is that of a bytecode verifier. `Typed` gives each address of the code the list of
handlers in force there and the number of operands, such that every instruction
leads from the type of its address to those of its successors; `L` gives each label the handlers
where it is, or will be, marked. The compiler's invariant (`CompileInv`) says that
the code so far has such a typing and ends in the type of what comes next; that the labels
not yet marked are those that the open blocks wait for (`LabelInv`); that the last label of a
block comes back to the handlers outside of it (`BlockInv`); and that the `try_depth` of a
loop counts the handlers between it and the next loop inside (`LoopInv`), which is what makes
`break` and `continue` emit as many POP_TRYs as they must. When the program ends, no block
waits, so every label is marked: `JumpsLand`. At run time (`RunInv`) the state has the type of
its address, each instruction keeps it so, and a statement's address has the handlers
of the blocks around it and no operand. That `stack_size` suffices compares the
typing with the running sum of stack effects that `create_code` computes in the order of
the addresses, and is shown by the least address that would refute it.

**`CallsProofs`.** `TypeCorrect`, `RoomAlwaysSuffices`. The room `ensure_stack` makes is
not enough for what caught errors leave (§6); what is proved is that nothing else
overruns it: `RoomSuffices` allows a frame `Low - Base` slots more, those they left. That is only
inductive together with where the operands are, since a caller goes on where its callee's result
was left, however the callee ended. `IInv` says of each frame (`FrameOK`) that its
operands lie between `Low`, the end of the arguments, locals and defaults evaluated so far and of
what is left above them, and `High`, the number `create_code` counted above `Low`; that where there
is a try statement it counted a slot at least, for the error; and that the methods whose arguments
are being computed stand two slots apart, each above its receiver. Of each two adjacent frames (`PairOK`) it says
how the outer one called the inner one: a script starts at the caller's stack pointer, a function in one of
the caller's operands (`CallsAt`), a function called back above the native one. So whatever leaves
frames, one (RETURN, HALT), a pair (through a native function) or one after another (an
unwinding error), finds a caller that can take the result. `SlotsOK` has one more fact: the
first slot of all holds no method, except while the failure of a bound method called by the main
script unwinds; a method reads its receiver from the slot below its own, and would find
none there. With `ConstantsAssumption` the proof found two omissions of the model: a second
error could be raised on top of a caught one that no instruction had stored yet, for
`MaxTry = 2`; and a `CASE` of `Base` had overlapping guards.

`CallsImplementActivations` is the refinement, for any functions and any stack. It holds of
programs whose bound methods take no arguments (`BoundTakeNone`), since `method_caller`
loses those that there are, as the run `calls_bound` shows. The mapping (`ActsOf`)
makes an activation of each frame that is not native (`EvaluatorAt` finds it) and of the
slots between its `bp` and where its callee begins; what an error finds above the operands of the
innermost frame is not part of it. `IInv` says which slots are whose but little of what is in them. So `CInv`
adds `CleanAll`: the slot below the variables of a function holds that function, a method has
a struct below it, and among variables and operands there is no method, except one that LOAD_METHOD has
put above its receiver (`open`). A struct is therefore what LOAD_THIS finds, and what an
abstract call of a method takes off is what `do_call` takes off. Each action has a lemma
(`PushView`, `CallView` ... `UnwindView`) that it keeps `CleanAll` and that its image is a step of `Activations`;
they rest on what a change of the innermost frame, a frame on top and a return do to
the sequence of activations (`MovesView`, `AboveActs`, `CallersView`), for which the slots
under the innermost frame must be left as they are (`Under`). ALLOCATE_LOCALS is a stutter, since
the locals it makes room for are no variables yet; an error passes one activation with each step
of `Unwind`, with its native frame if it has one, until one has a handler (`CaughtView`).

**`ImportsProofs`.** `NameHasOneModule` (of any files), `EvaluatedAtMostOnce`,
`ImportsAlwaysFirst`, `TypeCorrect`. `IInv` says what a modspec, a file being compiled and a
running body are to each other, whatever the program: the code of a module is made of
the statements of its file, in order, each import of a name with an instruction at or before it (`Translates`);
a name has one modspec (`Table`); a file being compiled waits at the import of the next
(`Compiled`); a running body stands at the instruction that runs the next (`Framed`), and
while a file is compiled, at a call of `module::import_` that names it (`StageInv`). The other theorems
assume what they need of the programs, and no more, as named above. `OnceInv`: a body that was
entered is running or its module is marked; no pointer into the array of modules is stale where it is written through, because the
bodies that import statements run stand above all those that `cb_run` runs, and only the latter
add modules. `FirstInv`: the imports that a body is past have finished; fewer files than the
limit on the depth keeps the pigeonhole from marking a module that did not run. That no assertion
fails is the deepest: `CallInv` says that what a body, running or not run yet, will
import with `module::import_` has no modspec; `CodeInv` that what compiled code imports has
code, and that a modspec without code is being compiled, or was left by a call of
`module::import_` whose compilation failed (`Leftover`). A file being compiled can therefore meet a known
module without code only if two such calls reach it; by `Shared`, `<main>` imports it, so it
was compiled before.

**`ValuesProofs`.** `TypesKept`, `StackAlwaysSuffices`, `DotsAlwaysInside`,
`OperatorsAlwaysRight`. Two values are the same (`Same`) when some relation pairs them whose pairs
agree element by element; what is below a cell is the least set closed under its elements. So
neither needs recursion, and cyclic and shared values are nothing special. `IInv` says that the C
calls follow a path through the heap, in both operands (`PathOK`); by the pigeonhole principle
a path longer than there are cells comes back to a cell, in both of them (`LongPath`), which is
`StackSuffices`. Of a comparison it says (`ComparesOK`) that all elements seen so far are the
same, so that when the calls have all returned the operands are (`ElementsSame` adds the pair to the
union of the relations of its elements), and that if the operands are the same so is each pair
of cells on the way, so that one difference decides. Of printing it says (`PrintsOK`) that
`repr_stack` is the path in reverse, without repetition, and that all its cells are open: what is
met again is therefore below itself. `OperatorExact` is integer arithmetic with every overflow,
and C's division from that of the natural numbers (`DivisionIs`).

Not proved because it fails, or for programs that the theorems exclude: `ExportsBound`,
`StackSizeSuffices`, `ArgumentsArrive`, `IntegersOrdered`, and the properties under `Features`
or program sets that §6 lists. Only model-checked: liveness (`SetReturns`, `CollectionEnds`, `Ends`, `EvaluationEnds`), which needs
fairness and ENABLED; `Scopes`, whose proofs are planned;
`Expressions`, whose reference is recursive.

## 6. Where the code departs from its documentation

Two have a run that shows them, listed under "findings" in `PROJECT.json` with the lines
of the code and of the document:

* `gc_cycles`: the collector never returns from an array that contains itself.
* `calls_bound`: a method that is read from a struct and then called loses its first argument.

The runs of `PROJECT.json` ask one question of each component. For those that follow there
is a configuration instead, with one property that TLC finds violated within seconds:
`tlc -config MCCallsRoom.cfg MCCalls`, and so on.

* `MCCallsRoom.cfg` (`MCCalls`, `StackSizeSuffices`): RET_WITH_TRACE does not reset `sp`, and `do_call` leaves the slot of a callee
  that failed (eval.c:200-204). So the error that CATCH pushes lies above the operands of the call
  that failed, which `create_code` does not count (compiler.c:1107): the frame overruns `stack_size`,
  as in `function h() { try { f(g()); } catch {} }` when a native `g` fails. Each
  round of `while (c) { try { g() } catch {} }` leaves an operand more, where compiler.c:1104
  assumes "that a loop cannot have positive stack effect".
* `MCGlobalCacheExports.cfg` (`MCGlobalCache`, `ExportsBound`): a module that threw, or whose exported declaration stood in a
  branch not taken, is evaluated without all its exports; the importer's
  LOAD_FROM_MODULE then takes a free slot of its table, where eval.c:836 says "Exports are
  verified at compile time".
* `MCGlobalCacheBranch.cfg` (`MCGlobalCache`, `ModuleCacheCurrent`): a LOAD_FROM_MODULE that runs before the import it relies on
  caches a slot of the empty table, and its version is out of date ever after (eval.c:841).
* `MCUpvaluesReorder.cfg` (`MCUpvalues`, `UpdatesShared`): two closures that capture the locals of a
  function in different orders get separate copies of one variable: BIND_LOCAL stops its
  search of the open array at the first entry below.
* `MCUpvaluesBlocks.cfg` (`VariablesSeparate`): `scope_pop_child` lets the slots of a block be reused
  (compiler.c:471 "Locals will be reused") and emits nothing that closes their
  upvalues, so a closure made in the block reads the variable that has the slot
  next, where README.md:224 says "Variables are lexically scoped".
* `MCUpvaluesThrows.cfg` (`VariablesSeparate`): an error that leaves a frame closes none of its upvalues.
* `MCUpvaluesDrops.cfg` (`NeverAborts`): `cb_function_deinit` overwrites the open entry of
  every upvalue of a collected closure with NULL, shared or not; the next RETURN or BIND_LOCAL
  of that frame that reaches the entry fails `assert(uv)` (eval.c:642), or in a release build
  goes through NULL. Reference counts stay exact under all the features together
  (`RefcountAlwaysExact`).
* `MCImportsNested.cfg` (`MCImports`, `EvaluatedOnce`): OP_IMPORT_MODULE sets `mod->evaluated` through a
  pointer taken before `cb_eval` (eval.c:1315). If the imported body calls
  `module::import_`, the array may have moved, and the body runs again. `cb_run` says why it does
  the opposite, eval.c:136.
* `MCScopesAssigned.cfg` (`Scopes`, `ResolvesLexically`): a nested function statement binds its name to two slots
  (compiler.c:1490 and 1666): in `function a() { function b() { b = 1; } b(); return b; }` the
  store reaches the first and the return reads the second.
* `MCScopesThrough.cfg` (`Scopes`, `ResolvesLexically`): compiler.c:1647 counts the
  upvalue of a variable that only an inner function uses from 0, whatever free
  variables the function around it has: in `function a(x, y) { return function()
  { x; return function() { return y; }; }; }`, the inner function returns `x`.
* `MCStructsReadAgain.cfg` (`MCStructs`, `ImplementsRecords`): LOAD_STRUCT fills its cache also when the
  name is a method, with the index -1 of the failed search (eval.c:1173); the next
  time it reads what is in front of the fields.
* `MCStructsReuse.cfg` (`ImplementsRecords`): a cache outlives its spec, and a spec made later at the same
  address hits it: a field that the later spec does not have is read, where README.md:142 says
  that it throws.
* `MCValuesOrder.cfg` (`MCValues`, `IntegersOrdered`): `cb_value_cmp` takes the sign of a difference that overflows (value.c:568).

Others were met on the way. They are what the constants and the program sets of
the runs leave out, and setting those in the configuration shows them:

* `HashMap`: the load factor of 3/4 is exceeded, up to a full table less one.
* `Gc`: `cb_gc_release` must be called in the reverse order of `cb_gc_hold`; the
  mark function of code does not test the mark, so that modules that import each
  other are marked for ever, like cyclic arrays.
* `Imports`, `Programs <- MCShared`: a file that does not compile leaves its modspec in the
  table, without code (compiler.c:1987). If `module::import_` failed on it, or on a file that
  imports it, and the error was caught, another file that imports it later finds the modspec, and
  OP_IMPORT_MODULE fails `assert(spec->code)` (`NeverAborts` fails).
* `Imports`: modules that import each other run again and again up to the limit of
  the depth; an import in a branch that is not taken makes the later ones of the
  file emit nothing (`ImportsRunFirst` fails); `module::import_` of a module that is
  there already aborts.
* `Scopes`, `Forms` with `"named"`: a named function expression binds its name in
  the enclosing function, where README.md:173 says that it does not; in a default
  argument it also takes the slot of the next parameter. `"method"`: a method
  leaves its name bound, to a slot never written, in the function around the struct.
* `Structs`, `Features = {"declare_again"}`: SET_METHOD writes to the
  one spec of a declaration, so evaluating it again changes the methods of the
  structs made before (`ImplementsRecords` fails).
* `Values`: NEG does not check the least integer, which `ArithmeticExact` excludes.
  Division and remainder by zero, and of the least integer by -1, kill the program,
  and so does the unbounded recursion of `cb_value_eq` on two cyclic values (value.c:498): these
  are the crashes that `StackSuffices` allows.
* `Values`: `1 == 1.0` is false and `1 <= 1.0` is true, where value.c:545 says that
  zero means equal; `**` reads any operand as a double (eval.c:577). Two bound
  methods are always equal: they have one C function (value.c:515).
* `Calls`: a failed native function's unset result is on the stack when the handler
  runs (eval.c:188), where a collection may look at it. `apply` of a bound method
  reads upvalues that `apply` does not have.

## 7. What is not modelled

Native modules that only call the C library (files, sockets, time, mathematics),
the disassembler, the command line's options and the REPL's line editing: input
and output, with no state of their own. Strings are ranks in an order and
doubles whole numbers in `Values`, and both are values without structure
elsewhere. Struct, bytes and string payloads do not appear in `Gc` except
as objects with a size. Destructuring assignments, anonymous struct literals and the
encoding of constants are left out of `Expressions`. `realloc` and
`malloc` never fail: the code does not test them either.

The lexer and the library written in the language (`lib/*.cb`) are planned, not
modelled: tokens are the constants of `Expressions` and `Statements`, and no run calls a
library function.

The map in `PROJECT.json` gives, for each definition, the lines it stands for.
