------------------------------ MODULE Imports ------------------------------
(***************************************************************************)
(* Modules: the agent's table of modspecs, the compiler's recursion into    *)
(* the files a file imports, the VM's array of modules and the evaluation  *)
(* of their bodies by cb_run, OP_IMPORT_MODULE and module::import_.        *)
(***************************************************************************)
EXTENDS Integers, Sequences, FiniteSets

CONSTANTS
  Names,     \* interned module names
  Main,      \* <main>
  Programs,  \* the programs considered: for each file, its statements
  MaxDepth   \* 1000: the limit on eval_depth

(* "try" is a statement in a try block, "if" one in a branch that may not   *)
(* be taken; "import_" is a call of module::import_, "use" one of a name   *)
(* of the module, "error" a line that does not parse.                      *)
Statement == [op : {"import", "import_", "use", "throw", "error"}, arg : Names,
              guard : {"plain", "try", "if"}]

ASSUME ProgramsAssumption ==
  /\ Main \in Names /\ MaxDepth \in Nat /\ MaxDepth > 1
  /\ \A p \in Programs : /\ Main \in DOMAIN p /\ DOMAIN p \subseteq Names
                         /\ \A f \in DOMAIN p : p[f] \in Seq(Statement)

VARIABLES
  program,    \* the files, by name; the same for ever
  specs,      \* agent.modules; code holds the instructions modelled
  modules,    \* cb_vm_state.modules, empty before cb_vm_init
  compiling,  \* the files being compiled, innermost last
  frames,     \* the modules' bodies being run, innermost last
  status,     \* "running", or "raising" an error, or how the program ended
  started,    \* history: how many times each module's body was entered
  finished    \* history: the modules whose body was run to its end

vars == <<program, specs, modules, compiling, frames, status, started, finished>>

Ids == DOMAIN specs
Named(n) == {id \in Ids : specs[id].name = n}

NotCompiled(n) == [name |-> n, compiled |-> FALSE, code |-> <<>>]
Zeroed == [inited |-> FALSE, evaluated |-> FALSE]
Inited == [inited |-> TRUE, evaluated |-> FALSE]

CompileFrame(id) == [id |-> id, pos |-> 1, imported |-> {}, code |-> <<>>]
Compiler == compiling[Len(compiling)]
Source == program[specs[Compiler.id].name]
Top == frames[Len(frames)]
Front(s) == SubSeq(s, 1, Len(s) - 1)

Compiles == status = "running" /\ compiling # <<>>
Parses(op) ==
  Compiles /\ Compiler.pos <= Len(Source) /\ Source[Compiler.pos].op = op

-----------------------------------------------------------------------------
(* The next statement of the file cs[Len(cs)], compiled to one instruction  *)
(* that refers to module id.                                               *)
Append1(cs, op, id) ==
  LET c == cs[Len(cs)]  s == program[specs[c.id].name][c.pos] IN
  [cs EXCEPT ![Len(cs)].pos = @ + 1,
             ![Len(cs)].code = Append(@, [op |-> op, id |-> id, arg |-> s.arg,
                                          guard |-> s.guard, at |-> c.pos])]
AppendImport(cs, id) ==
  [Append1(cs, "import", id) EXCEPT ![Len(cs)].imported = @ \cup {specs[id].name}]

(* The import statement: the file is found but its module may already be   *)
(* imported here, or known to the agent, or new.                           *)
ImportAgain ==
  /\ Parses("import") /\ Source[Compiler.pos].arg \in Compiler.imported
  /\ compiling' = [compiling EXCEPT ![Len(compiling)].pos = @ + 1]
  /\ UNCHANGED <<program, specs, modules, frames, status, started, finished>>

(* Mutant of ImportKnown: a known module is not imported again.             *)
ImportKnownSilent ==
  /\ Parses("import")
  /\ LET n == Source[Compiler.pos].arg IN
       /\ n \in DOMAIN program \ Compiler.imported /\ Named(n) # {}
       /\ compiling' = [compiling EXCEPT ![Len(compiling)].pos = @ + 1,
                                          ![Len(compiling)].imported = @ \cup {n}]
  /\ UNCHANGED <<program, specs, modules, frames, status, started, finished>>

ImportKnown ==
  /\ Parses("import")
  /\ LET n == Source[Compiler.pos].arg IN
       /\ n \in DOMAIN program \ Compiler.imported /\ Named(n) # {}
       /\ compiling' = AppendImport(compiling, CHOOSE id \in Named(n) :
                                                 \A other \in Named(n) : id <= other)
  /\ UNCHANGED <<program, specs, modules, frames, status, started, finished>>

(* cb_vm_grow_modules_array: the array may move, and a pointer into it that *)
(* an OP_IMPORT_MODULE holds is then stale.                                *)
GrowModules(moved) ==
  /\ modules' = IF modules = <<>> THEN modules ELSE Append(modules, Zeroed)
  /\ frames' = [i \in DOMAIN frames |->
                  [frames[i] EXCEPT !.stale = @ \/ moved]]

(* Mutant of NewModspec: the VM's array is not grown.                      *)
NewModspecAlone(n, moved) ==
  /\ specs' = Append(specs, NotCompiled(n))
  /\ UNCHANGED <<modules, frames>>

(* cb_modspec_new and cb_agent_add_modspec                                 *)
NewModspec(n, moved) ==
  /\ specs' = Append(specs, NotCompiled(n))
  /\ GrowModules(moved)

ImportNew ==
  /\ Parses("import")
  /\ LET n == Source[Compiler.pos].arg IN
       /\ n \in DOMAIN program \ Compiler.imported /\ Named(n) = {}
       /\ \E moved \in BOOLEAN : NewModspec(n, moved)
       /\ compiling' = Append(compiling, CompileFrame(Len(specs')))
  /\ UNCHANGED <<program, status, started, finished>>

CompileCall ==
  /\ Parses("import_") \/ Parses("throw")
  /\ compiling' = Append1(compiling, Source[Compiler.pos].op, 0)
  /\ UNCHANGED <<program, specs, modules, frames, status, started, finished>>

(* name::export, of a module this file imports.                            *)
CompileUse ==
  /\ Parses("use") /\ Source[Compiler.pos].arg \in Compiler.imported
  /\ compiling' = Append1(compiling, "use",
                    CHOOSE id \in Named(Source[Compiler.pos].arg) : TRUE)
  /\ UNCHANGED <<program, specs, modules, frames, status, started, finished>>

(* An error ends the compilation of this file and of those that import it; *)
(* their modspecs stay in the table, without code.                         *)
CompileFails ==
  /\ \/ Parses("error")
     \/ Parses("use") /\ Source[Compiler.pos].arg \notin Compiler.imported
     \/ /\ Parses("import")
        /\ Source[Compiler.pos].arg \notin DOMAIN program \cup Compiler.imported
  /\ compiling' = <<>>
  /\ status' = IF frames = <<>> THEN "failed" ELSE "raising"
  /\ UNCHANGED <<program, specs, modules, frames, started, finished>>

-----------------------------------------------------------------------------
(* cb_eval of module id's body, called by `by`; beyond the limit on         *)
(* eval_depth it fails at once.                                            *)
Evaluate(id, by, ms) ==
  IF Len(frames) + 1 < MaxDepth
  THEN /\ frames' = Append(frames, [id |-> id, pc |-> 1, by |-> by, stale |-> FALSE])
       /\ started' = [i \in DOMAIN started \cup {id} |->
                        IF i \in DOMAIN started
                        THEN started[i] + (IF i = id THEN 1 ELSE 0) ELSE 1]
       /\ modules' = ms
       /\ UNCHANGED <<status, finished>>
  ELSE /\ modules' = [ms EXCEPT ![id].evaluated = TRUE]
       /\ status' = "raising"
       /\ UNCHANGED <<frames, started, finished>>

Initialised(ms, id) == IF ms[id] = Zeroed THEN [ms EXCEPT ![id] = Inited] ELSE ms

(* cb_run, of <main> once cb_vm_init has made the modules, or in import_.   *)
Run(id) ==
  IF frames = <<>>
  THEN Evaluate(id, "run", [i \in Ids |-> Inited])
  ELSE Evaluate(id, "run", Initialised(modules, id))

(* The end of a file: cb_modspec_set_code; the importing file goes on with  *)
(* its import, or the outermost file is run.                               *)
CompileEnd ==
  /\ Compiles /\ Compiler.pos > Len(Source)
  /\ IF specs[Compiler.id].compiled
     THEN /\ status' = "aborted"
          /\ UNCHANGED <<specs, compiling, modules, frames, started, finished>>
     ELSE /\ specs' = [specs EXCEPT ![Compiler.id].compiled = TRUE,
                                    ![Compiler.id].code = Compiler.code]
          /\ IF Len(compiling) = 1
             THEN compiling' = <<>> /\ Run(Compiler.id)
             ELSE /\ compiling' = AppendImport(Front(compiling), Compiler.id)
                  /\ UNCHANGED <<modules, frames, status, started, finished>>
  /\ UNCHANGED program

-----------------------------------------------------------------------------
Code(f) == specs[f.id].code
Runs == status = "running" /\ compiling = <<>> /\ frames # <<>>
Instr == Code(Top)[Top.pc]
Executes(op) == Runs /\ Top.pc <= Len(Code(Top)) /\ Instr.op = op

Step == frames' = [frames EXCEPT ![Len(frames)].pc = @ + 1]

(* The branch the statement is in is not taken.                            *)
NotTaken ==
  /\ Runs /\ Top.pc <= Len(Code(Top)) /\ Instr.guard = "if"
  /\ Step
  /\ UNCHANGED <<program, specs, modules, compiling, status, started, finished>>

(* Mutant of ImportEvaluated: ip stays on the instruction.                 *)
ImportEvaluatedStays ==
  /\ Executes("import") /\ modules[Instr.id].evaluated
  /\ UNCHANGED vars

ImportEvaluated ==
  /\ Executes("import") /\ modules[Instr.id].evaluated
  /\ Step
  /\ UNCHANGED <<program, specs, modules, compiling, status, started, finished>>

(* Mutant of ImportModule: the flag is not looked at.                      *)
ImportModuleAlways ==
  /\ Executes("import")
  /\ Evaluate(Instr.id, "import", Initialised(modules, Instr.id))
  /\ UNCHANGED <<program, specs, compiling>>

(* OP_IMPORT_MODULE of a module not evaluated yet; cb_modspec_code asserts  *)
(* that it has code.                                                       *)
ImportModule ==
  /\ Executes("import") /\ ~modules[Instr.id].evaluated
  /\ IF specs[Instr.id].compiled
     THEN Evaluate(Instr.id, "import", Initialised(modules, Instr.id))
     ELSE status' = "aborted" /\ UNCHANGED <<modules, frames, started, finished>>
  /\ UNCHANGED <<program, specs, compiling>>

(* module::import_ compiles the file, whether its name is known or not.    *)
DynamicImport ==
  /\ Executes("import_") /\ Instr.arg \in DOMAIN program
  /\ LET n == Instr.arg IN
       IF Named(n) = {}
       THEN /\ \E moved \in BOOLEAN : NewModspec(n, moved)
            /\ compiling' = <<CompileFrame(Len(specs'))>>
       ELSE /\ \E id \in Named(n) : compiling' = <<CompileFrame(id)>>
            /\ UNCHANGED <<specs, modules, frames>>
  /\ UNCHANGED <<program, status, started, finished>>

(* A throw, or an import_ of a file that does not exist.                   *)
Throw ==
  /\ Executes("throw") \/ (Executes("import_") /\ Instr.arg \notin DOMAIN program)
  /\ status' = "raising"
  /\ UNCHANGED <<program, specs, modules, compiling, frames, started, finished>>

Use ==
  /\ Executes("use") /\ Step
  /\ UNCHANGED <<program, specs, modules, compiling, status, started, finished>>

Catch ==
  /\ status = "raising" /\ Top.pc <= Len(Code(Top)) /\ Instr.guard = "try"
  /\ Step
  /\ status' = "running"
  /\ UNCHANGED <<program, specs, modules, compiling, started, finished>>

(* The body is over: cb_run sets the flag of the module, OP_IMPORT_MODULE   *)
(* that of the place its pointer names; the caller goes on, or fails.      *)
Leave(failed) ==
  /\ modules' = IF Top.by = "import" /\ Top.stale THEN modules
                ELSE [modules EXCEPT ![Top.id].evaluated = TRUE]
  /\ finished' = finished \cup {Top.id}
  /\ frames' = LET rest == Front(frames) IN
       IF rest = <<>> \/ failed THEN rest
       ELSE [rest EXCEPT ![Len(rest)].pc = @ + 1]
  /\ status' = IF Len(frames) > 1 THEN status ELSE IF failed THEN "failed" ELSE "done"
  /\ UNCHANGED <<program, specs, compiling, started>>

Halt == Runs /\ Top.pc > Len(Code(Top)) /\ Leave(FALSE)

Unwind ==
  /\ status = "raising"
  /\ Top.pc <= Len(Code(Top)) /\ Instr.guard # "try"
  /\ Leave(TRUE)

-----------------------------------------------------------------------------
Init ==
  /\ program \in Programs
  /\ specs = <<NotCompiled(Main)>> /\ compiling = <<CompileFrame(1)>>
  /\ modules = <<>> /\ frames = <<>> /\ status = "running"
  /\ started = <<>> /\ finished = {}

Compile ==
  \/ ImportAgain \/ ImportKnown \/ ImportNew \/ CompileCall \/ CompileUse
  \/ CompileFails \/ CompileEnd

Execute ==
  \/ NotTaken \/ ImportEvaluated \/ ImportModule \/ DynamicImport
  \/ Throw \/ Use \/ Catch \/ Halt \/ Unwind

Next == Compile \/ Execute

Spec == Init /\ [][Next]_vars

(* Nothing but the program itself runs: it goes on until it ends.          *)
FairSpec == Spec /\ WF_vars(Next)
-----------------------------------------------------------------------------
(* What programs do with imports: those that do otherwise break some of the *)
(* properties below, and MCImports has examples.                           *)
Statements(p, f, op) == {i \in DOMAIN p[f] : p[f][i].op = op}
Files(p, f, op) == {p[f][i].arg : i \in Statements(p, f, op)}
ByStatement(p) == UNION {Files(p, f, "import") : f \in DOMAIN p}
Calls(p, n) == UNION {{<<f, i>> : i \in {j \in Statements(p, f, "import_") : p[f][j].arg = n}} :
                      f \in DOMAIN p}
(* What compiling a file compiles, or would if all of it did compile.       *)
Reach(p, f) ==
  {n \in Names : \A S \in SUBSET Names :
     (f \in S /\ \A g \in S \cap DOMAIN p : Files(p, g, "import") \subseteq S) => n \in S}

(* No files import each other, directly or not.                            *)
Acyclic(p) == \A S \in SUBSET DOMAIN p : S # {} =>
  \E f \in S : (Files(p, f, "import") \cup Files(p, f, "import_")) \cap S = {}
(* A file that an import statement imports does not call module::import_.   *)
Separate(p) == \A f \in ByStatement(p) \cap DOMAIN p : Files(p, f, "import_") = {}
(* A file that module::import_ imports is imported in that one place.       *)
OneWay(p) == \A n \in DOMAIN p : Calls(p, n) # {} =>
  /\ n \notin ByStatement(p) \cup {Main}
  /\ \A c, d \in Calls(p, n) : c = d
(* What the files of two calls of module::import_ import, <main> does too.  *)
Shared(p) == \A m, n \in DOMAIN p : Calls(p, m) # {} /\ Calls(p, n) # {} /\ m # n =>
  Reach(p, m) \cap Reach(p, n) \subseteq Reach(p, Main)
(* An import in a branch is not relied on outside of branches.              *)
Branches(p) == \A f \in DOMAIN p : \A i, j \in Statements(p, f, "import") :
  i < j /\ p[f][i].arg = p[f][j].arg /\ p[f][i].guard = "if" => p[f][j].guard = "if"
(* The limit on the depth is out of reach.                                  *)
Small(p) == IsFiniteSet(DOMAIN p) /\ Cardinality(DOMAIN p) < MaxDepth

(* README.md 305: any import of a name gives the same module.              *)
OneModulePerName == \A i, j \in Ids : specs[i].name = specs[j].name => i = j

(* assert(spec->code) in cb_modspec_code, assert(!spec->code) in            *)
(* cb_modspec_set_code.                                                    *)
NeverAborts == status # "aborted"

(* Type invariant: the VM has a module for each modspec once it runs, a    *)
(* name has one module, and no assertion about their code fails.           *)
TypeOK ==
  /\ DOMAIN program \subseteq Names
  /\ \A id \in Ids : specs[id].name \in Names /\ specs[id].compiled \in BOOLEAN
  /\ frames # <<>> => DOMAIN modules = Ids
  /\ \A i \in DOMAIN frames : frames[i].id \in Ids
  /\ \A i \in DOMAIN compiling : compiling[i].id \in Ids
  /\ status \in {"running", "raising", "done", "failed", "aborted"}
  /\ DOMAIN started \subseteq Ids /\ finished \subseteq Ids
  /\ OneModulePerName /\ NeverAborts

(* A module's body is run at most once, however many files import it.      *)
EvaluatedOnce == \A id \in DOMAIN started : started[id] <= 1

(* Past an import statement of its source, whether it was compiled to an   *)
(* instruction or not, a body may rely on the imported module: it has run.  *)
ImportsRunFirst ==
  \A i \in DOMAIN frames : frames[i].pc <= Len(Code(frames[i])) =>
    \A j \in 1 .. Code(frames[i])[frames[i].pc].at - 1 :
      LET s == program[specs[frames[i].id].name][j] IN
        (s.op = "import" /\ s.guard # "if") => \E id \in finished : specs[id].name = s.arg

(* The program ends: no chain of imports compiles or runs for ever.        *)
Ends == <>(status \in {"done", "failed"})
=============================================================================
