--------------------------- MODULE ImportsProofs ---------------------------
(***************************************************************************)
(* What holds of imports for every set of files and every program over      *)
(* them: a name has one module; and if no files import each other and each *)
(* file is imported in one way, a body runs once, after those it imports,   *)
(* and no assertion about the code of a module fails.                      *)
(***************************************************************************)
EXTENDS Imports, SequenceTheorems, FiniteSetTheorems, TLAPS

Pos == Nat \ {0}
Instruction == [op : {"import", "import_", "use", "throw"}, id : Nat, arg : Names,
                guard : {"plain", "try", "if"}, at : Pos]
Modspec == [name : Names, compiled : BOOLEAN, code : Seq(Instruction)]
Module == [inited : BOOLEAN, evaluated : BOOLEAN]
File == [id : Pos, pos : Pos, imported : SUBSET Names, code : Seq(Instruction)]
Frame == [id : Pos, pc : Pos, by : {"run", "import"}, stale : BOOLEAN]

Types ==
  /\ program \in Programs /\ specs \in Seq(Modspec) /\ modules \in Seq(Module)
  /\ compiling \in Seq(File) /\ frames \in Seq(Frame)
  /\ status \in {"running", "raising", "done", "failed", "aborted"}
  /\ started \in [DOMAIN started -> Nat] /\ DOMAIN started \subseteq Ids /\ finished \subseteq Ids

(* The instructions code are those of the statements before pos of n.      *)
Translates(p, sp, n, code, pos) ==
  /\ \A k \in DOMAIN code :
       /\ code[k].at \in DOMAIN p[n] /\ code[k].at < pos
       /\ code[k].op = p[n][code[k].at].op /\ code[k].arg = p[n][code[k].at].arg
       /\ code[k].guard = p[n][code[k].at].guard
       /\ code[k].op = "import" =>
            code[k].id \in DOMAIN sp /\ sp[code[k].id].name = code[k].arg
  /\ \A k, l \in DOMAIN code : k < l => code[k].at < code[l].at
  /\ \A j \in DOMAIN p[n] : j < pos /\ p[n][j].op = "import" =>
       \E k \in DOMAIN code : /\ code[k].op = "import" /\ code[k].arg = p[n][j].arg
                              /\ code[k].at <= j

Table(p, sp) ==
  /\ sp # <<>> /\ sp[1].name = Main
  /\ \A id \in DOMAIN sp :
       /\ sp[id].name \in DOMAIN p
       /\ sp[id].compiled => Translates(p, sp, sp[id].name, sp[id].code, Len(p[sp[id].name]) + 1)
  /\ \A i, j \in DOMAIN sp : sp[i].name = sp[j].name => i = j

FileOk(p, sp, c) ==
  /\ c.id \in DOMAIN sp /\ c.pos <= Len(p[sp[c.id].name]) + 1
  /\ Translates(p, sp, sp[c.id].name, c.code, c.pos)
  /\ \A n \in c.imported : \E k \in DOMAIN c.code : c.code[k].op = "import" /\ c.code[k].arg = n
WaitsFor(p, sp, c, id) == LET n == sp[c.id].name IN
  c.pos \in DOMAIN p[n] /\ p[n][c.pos].op = "import" /\ p[n][c.pos].arg = sp[id].name

(* A file waits at the import statement of the next, made for it.           *)
Compiled(p, sp, cs) ==
  /\ \A i \in DOMAIN cs : FileOk(p, sp, cs[i])
  /\ \A i, j \in DOMAIN cs : i < j => cs[i].id < cs[j].id /\ ~sp[cs[j].id].compiled
  /\ \A i \in DOMAIN cs : i + 1 \in DOMAIN cs => WaitsFor(p, sp, cs[i], cs[i + 1].id)

(* Frame f stands at an instruction that runs module id.                   *)
At(sp, f) == sp[f.id].code[f.pc]
CallsIt(sp, f, id, by) ==
  /\ f.pc \in DOMAIN sp[f.id].code
  /\ IF by = "import" THEN At(sp, f).op = "import" /\ At(sp, f).id = id
                      ELSE At(sp, f).op = "import_" /\ At(sp, f).arg = sp[id].name

Framed(sp, fs) ==
  /\ \A i \in DOMAIN fs : fs[i].id \in DOMAIN sp /\ sp[fs[i].id].compiled
  /\ fs # <<>> => fs[1].by = "run"
  /\ \A i \in DOMAIN fs : i + 1 \in DOMAIN fs => CallsIt(sp, fs[i], fs[i + 1].id, fs[i + 1].by)

StageInv ==
  /\ frames # <<>> => Len(modules) = Len(specs) /\ specs[1].compiled
  /\ frames = <<>> /\ status = "running" => compiling # <<>>
  /\ frames = <<>> /\ status = "running" => started = <<>> /\ finished = {}
  /\ status = "raising" => frames # <<>> /\ compiling = <<>>
  /\ compiling # <<>> => status \in {"running", "aborted"}
  /\ frames = <<>> /\ compiling # <<>> => compiling[1].id = 1
  /\ frames # <<>> /\ compiling # <<>> => CallsIt(specs, Top, compiling[1].id, "run")

IInv ==
  /\ Types /\ Table(program, specs) /\ Compiled(program, specs, compiling)
  /\ Framed(specs, frames) /\ StageInv

(* A body that was entered was entered once, and either is still running or *)
(* marked evaluated; and those that cb_run runs are all the outer ones.    *)
OnceInv ==
  /\ \A id \in DOMAIN started :
       /\ started[id] = 1 /\ specs[id].compiled
       /\ \/ id \in DOMAIN modules /\ modules[id].evaluated
          \/ \E i \in DOMAIN frames : frames[i].id = id
  /\ \A i \in DOMAIN frames : frames[i].id \in DOMAIN started
  /\ \A i, j \in DOMAIN frames : i # j => frames[i].id # frames[j].id
  /\ \A i, j \in DOMAIN frames : i < j /\ frames[j].by = "run" => frames[i].by = "run"
  /\ \A i \in DOMAIN frames : frames[i].by = "import" => ~frames[i].stale

(* Frame f will import n with module::import_, with instruction m.           *)
CallAhead(sp, f, n, m) ==
  /\ m \in DOMAIN sp[f.id].code /\ m >= f.pc
  /\ sp[f.id].code[m].op = "import_" /\ sp[f.id].code[m].arg = n

(* What a running body, or one not run yet, will import with               *)
(* module::import_ has no modspec.                                         *)
CallInv ==
  /\ \A id \in Ids : \A k \in DOMAIN frames : \A m \in DOMAIN Code(frames[k]) :
       CallAhead(specs, frames[k], specs[id].name, m) =>
         m = frames[k].pc /\ (k < Len(frames) \/ compiling # <<>> \/ status # "running")
  /\ \A id \in Ids : \A c \in Calls(program, specs[id].name) :
       \E s \in DOMAIN started : specs[s].name = c[1]

(* The modules whose bodies code runs with import instructions have code.   *)
Uses(sp, code) == \A k \in DOMAIN code : code[k].op = "import" => sp[code[k].id].compiled
Compiling(cs, id) == \E i \in DOMAIN cs : cs[i].id = id

(* A file whose compilation failed, or one that was for such a file r.      *)
Leftover(p, sp, cs, id) ==
  \E r \in DOMAIN sp : /\ ~sp[r].compiled /\ ~Compiling(cs, r) /\ Calls(p, sp[r].name) # {}
                       /\ sp[id].name \in Reach(p, sp[r].name)
Accounted(p, sp, cs, id) == sp[id].compiled \/ Compiling(cs, id) \/ Leftover(p, sp, cs, id)

Chain(p, sp, cs) == \A i \in DOMAIN cs :
  /\ ~sp[cs[i].id].compiled /\ Uses(sp, cs[i].code)
  /\ sp[cs[i].id].name \in Reach(p, sp[cs[1].id].name)

CodeInv ==
  /\ \A id \in Ids : specs[id].compiled => Uses(specs, specs[id].code)
  /\ Chain(program, specs, compiling)
  /\ status \in {"running", "raising"} =>
       \A id \in Ids : Accounted(program, specs, compiling, id)
  /\ status # "aborted"

(* The imports that frame f is past, but for those in branches, are done.   *)
Passed(sp, f, done) == \A k \in DOMAIN sp[f.id].code :
  k < f.pc /\ sp[f.id].code[k].op = "import" /\ sp[f.id].code[k].guard # "if" =>
    sp[f.id].code[k].id \in done

FirstInv ==
  /\ \A id \in DOMAIN modules : modules[id].evaluated => id \in finished
  /\ \A i \in DOMAIN frames : Passed(specs, frames[i], finished)
  /\ status = "raising" =>
       /\ Top.pc \in DOMAIN Code(Top)
       /\ Instr.op = "import" => Instr.id \in finished
-----------------------------------------------------------------------------
USE DEF Pos

LEMMA Grow ==
  ASSUME NEW p, NEW sp, NEW sp2, NEW n, NEW code, NEW pos,
         Translates(p, sp, n, code, pos), DOMAIN sp \subseteq DOMAIN sp2,
         \A id \in DOMAIN sp : sp2[id].name = sp[id].name
  PROVE  Translates(p, sp2, n, code, pos)
BY DEF Translates

(* One more statement, compiled to one more instruction.                   *)
LEMMA OneMore ==
  ASSUME NEW p, NEW sp, NEW n, NEW code \in Seq(Instruction), NEW pos \in Pos,
         p[n] \in Seq(Statement), Translates(p, sp, n, code, pos), pos \in DOMAIN p[n],
         NEW i \in Instruction, i.at = pos, i.op = p[n][pos].op, i.arg = p[n][pos].arg,
         i.guard = p[n][pos].guard,
         i.op = "import" => i.id \in DOMAIN sp /\ sp[i.id].name = i.arg
  PROVE  Translates(p, sp, n, Append(code, i), pos + 1)
<1> DEFINE c2 == Append(code, i)
<1>1. /\ DOMAIN code = 1 .. Len(code) /\ Len(code) \in Nat
      /\ DOMAIN c2 = 1 .. Len(code) + 1 /\ c2[Len(code) + 1] = i
      /\ \A k \in DOMAIN code : k \in DOMAIN c2 /\ c2[k] = code[k]
  OBVIOUS
<1> HIDE DEF c2
<1>2. \A k \in DOMAIN code : code[k].at \in Pos /\ code[k].at < pos
  BY DEF Translates, Instruction
<1>3. ASSUME NEW k \in DOMAIN c2
      PROVE  /\ c2[k].at \in DOMAIN p[n] /\ c2[k].at < pos + 1
             /\ c2[k].op = p[n][c2[k].at].op /\ c2[k].arg = p[n][c2[k].at].arg
             /\ c2[k].guard = p[n][c2[k].at].guard
             /\ c2[k].op = "import" =>
                  c2[k].id \in DOMAIN sp /\ sp[c2[k].id].name = c2[k].arg
  <2>1. CASE k \in DOMAIN code
    BY <2>1, <1>1, <1>2 DEF Translates
  <2>2. CASE k = Len(code) + 1
    BY <2>2, <1>1
  <2> QED
    BY <1>1, <2>1, <2>2
<1>4. ASSUME NEW k \in DOMAIN c2, NEW l \in DOMAIN c2, k < l
      PROVE  c2[k].at < c2[l].at
  <2>1. k \in DOMAIN code
    BY <1>4, <1>1
  <2>2. CASE l \in DOMAIN code
    BY <1>4, <2>1, <2>2, <1>1 DEF Translates
  <2>3. CASE l = Len(code) + 1
    BY <2>1, <2>3, <1>1, <1>2
  <2> QED
    BY <1>1, <2>2, <2>3
<1>5. ASSUME NEW j \in DOMAIN p[n], j < pos + 1, p[n][j].op = "import"
      PROVE  \E k \in DOMAIN c2 : /\ c2[k].op = "import" /\ c2[k].arg = p[n][j].arg
                                  /\ c2[k].at <= j
  <2>1. CASE j < pos
    <3>1. PICK k \in DOMAIN code : /\ code[k].op = "import" /\ code[k].arg = p[n][j].arg
                                   /\ code[k].at <= j
      BY <1>5, <2>1 DEF Translates
    <3> QED
      BY <3>1, <1>1
  <2>2. CASE j = pos
    BY <1>5, <2>2, <1>1
  <2> QED
    BY <1>5, <2>1, <2>2
<1> QED
  BY <1>3, <1>4, <1>5 DEF Translates, c2

(* An import statement whose file is imported already: nothing more.        *)
LEMMA NoneMore ==
  ASSUME NEW p, NEW sp, NEW n, NEW code \in Seq(Instruction), NEW pos \in Pos,
         p[n] \in Seq(Statement), Translates(p, sp, n, code, pos),
         NEW k \in DOMAIN code, code[k].op = "import", code[k].arg = p[n][pos].arg
  PROVE  Translates(p, sp, n, code, pos + 1)
<1>1. \A l \in DOMAIN code : code[l].at \in Pos /\ code[l].at < pos /\ code[l].at < pos + 1
  <2>1. \A l \in DOMAIN code : code[l].at \in Pos /\ code[l].at < pos
    BY DEF Translates, Instruction
  <2> QED
    BY <2>1
<1>2. ASSUME NEW j \in DOMAIN p[n], j < pos + 1, p[n][j].op = "import"
      PROVE  \E l \in DOMAIN code : /\ code[l].op = "import" /\ code[l].arg = p[n][j].arg
                                    /\ code[l].at <= j
  <2>1. CASE j < pos
    BY <1>2, <2>1 DEF Translates
  <2>2. CASE j = pos
    BY <2>2, <1>1
  <2> QED
    BY <1>2, <2>1, <2>2
<1> QED
  BY <1>1, <1>2 DEF Translates

LEMMA Nothing ==
  ASSUME NEW p, NEW sp, NEW n, p[n] \in Seq(Statement)
  PROVE  Translates(p, sp, n, <<>>, 1)
<1>1. \A j \in DOMAIN p[n] : ~(j < 1)
  OBVIOUS
<1> QED
  BY <1>1 DEF Translates
-----------------------------------------------------------------------------
(* The file being compiled, one statement further.                         *)
With(cs, c) == [cs EXCEPT ![Len(cs)] = c]

LEMMA WithIs ==
  ASSUME NEW cs \in Seq(File), cs # <<>>, NEW c \in File
  PROVE  /\ With(cs, c) \in Seq(File) /\ DOMAIN With(cs, c) = DOMAIN cs
         /\ With(cs, c)[Len(cs)] = c
         /\ \A i \in DOMAIN cs : i = Len(cs) \/ With(cs, c)[i] = cs[i]
BY DEF With

LEMMA FileSteps ==
  ASSUME NEW p, NEW sp, NEW cs \in Seq(File), Compiled(p, sp, cs), cs # <<>>,
         NEW c \in File, c.id = cs[Len(cs)].id, FileOk(p, sp, c)
  PROVE  Compiled(p, sp, With(cs, c))
<1> DEFINE n == Len(cs)
           cs2 == With(cs, c)
<1>1. n \in Pos /\ DOMAIN cs = 1 .. n /\ DOMAIN cs2 = 1 .. n
  BY WithIs
<1>2. cs2[n] = c /\ \A i \in 1 .. n : i # n => cs2[i] = cs[i]
  BY <1>1, WithIs
<1> HIDE DEF n, cs2
<1>3. \A i \in 1 .. n : cs2[i].id = cs[i].id
  BY <1>1, <1>2 DEF n
<1>4. \A i \in 1 .. n : i + 1 \in 1 .. n => cs2[i] = cs[i]
  BY <1>1, <1>2
<1>5. \A i \in 1 .. n : FileOk(p, sp, cs2[i])
  BY <1>1, <1>2 DEF Compiled
<1>6. \A i, j \in 1 .. n : i < j => cs2[i].id < cs2[j].id /\ ~sp[cs2[j].id].compiled
  BY <1>1, <1>3 DEF Compiled
<1>7. ASSUME NEW i \in 1 .. n, i + 1 \in 1 .. n
      PROVE  WaitsFor(p, sp, cs2[i], cs2[i + 1].id)
  <2>1. WaitsFor(p, sp, cs[i], cs[i + 1].id)
    BY <1>7, <1>1 DEF Compiled
  <2> QED
    BY <2>1, <1>3, <1>4, <1>7
<1>8. Compiled(p, sp, cs2)
  BY <1>1, <1>5, <1>6, <1>7 DEF Compiled
<1> QED
  BY <1>8 DEF cs2

LEMMA FileGrows ==
  ASSUME NEW p, NEW sp, NEW sp2, NEW c, FileOk(p, sp, c),
         DOMAIN sp \subseteq DOMAIN sp2, \A id \in DOMAIN sp : sp2[id].name = sp[id].name
  PROVE  FileOk(p, sp2, c)
<1>1. c.id \in DOMAIN sp2 /\ sp2[c.id].name = sp[c.id].name
  BY DEF FileOk
<1>2. Translates(p, sp, sp2[c.id].name, c.code, c.pos)
  BY <1>1 DEF FileOk
<1>3. Translates(p, sp2, sp2[c.id].name, c.code, c.pos)
  BY <1>2, Grow
<1> QED
  BY <1>1, <1>3 DEF FileOk

(* Modspecs that were added, or whose code was set, change nothing for the  *)
(* files being compiled.                                                   *)
LEMMA FilesGrow ==
  ASSUME NEW p, NEW sp, NEW sp2, NEW cs, Compiled(p, sp, cs),
         DOMAIN sp \subseteq DOMAIN sp2, \A id \in DOMAIN sp : sp2[id].name = sp[id].name,
         \A i \in DOMAIN cs : sp2[cs[i].id].compiled = sp[cs[i].id].compiled
  PROVE  Compiled(p, sp2, cs)
<1>1. \A i \in DOMAIN cs : cs[i].id \in DOMAIN sp
  BY DEF Compiled, FileOk
<1>2. \A i \in DOMAIN cs : FileOk(p, sp2, cs[i])
  BY FileGrows DEF Compiled
<1>3. ASSUME NEW i \in DOMAIN cs, i + 1 \in DOMAIN cs
      PROVE  WaitsFor(p, sp2, cs[i], cs[i + 1].id)
  <2>1. WaitsFor(p, sp, cs[i], cs[i + 1].id)
    BY <1>3 DEF Compiled
  <2> QED
    BY <2>1, <1>1, <1>3 DEF WaitsFor
<1>4. \A i, j \in DOMAIN cs : i < j => cs[i].id < cs[j].id /\ ~sp2[cs[j].id].compiled
  BY DEF Compiled
<1> QED
  BY <1>2, <1>3, <1>4 DEF Compiled

Pushed(cs, id) == Append(cs, CompileFrame(id))

LEMMA PushedIs ==
  ASSUME NEW cs \in Seq(File), NEW id \in Pos
  PROVE  /\ Pushed(cs, id) \in Seq(File) /\ Pushed(cs, id) # <<>>
         /\ DOMAIN Pushed(cs, id) = DOMAIN cs \cup {Len(cs) + 1}
         /\ Pushed(cs, id)[Len(cs) + 1] = CompileFrame(id)
         /\ \A i \in DOMAIN cs : Pushed(cs, id)[i] = cs[i]
<1>1. CompileFrame(id) \in File
  BY DEF CompileFrame, File
<1> DEFINE n == Len(cs)
           cs2 == Pushed(cs, id)
<1>2. /\ n \in Nat /\ DOMAIN cs = 1 .. n /\ cs2 \in Seq(File) /\ DOMAIN cs2 = 1 .. n + 1
      /\ cs2[n + 1] = CompileFrame(id) /\ \A i \in 1 .. n : cs2[i] = cs[i]
  BY <1>1 DEF Pushed
<1> HIDE DEF n, cs2
<1>3. (1 .. n) \cup {n + 1} = 1 .. n + 1 /\ cs2 # <<>>
  BY <1>2
<1> QED
  BY <1>2, <1>3 DEF n, cs2

LEMMA FilesPush ==
  ASSUME NEW p, NEW sp, NEW cs \in Seq(File), Compiled(p, sp, cs),
         NEW id \in DOMAIN sp, id \in Pos, p[sp[id].name] \in Seq(Statement),
         \A i \in DOMAIN cs : cs[i].id < id,
         cs # <<>> => ~sp[id].compiled /\ WaitsFor(p, sp, cs[Len(cs)], id)
  PROVE  Compiled(p, sp, Pushed(cs, id))
<1> DEFINE n == Len(cs)
           c == CompileFrame(id)
           cs2 == Pushed(cs, id)
<1>1. c \in File /\ c.id = id /\ c.pos = 1 /\ c.code = <<>> /\ c.imported = {}
  BY DEF CompileFrame, File
<1>2. FileOk(p, sp, c)
  <2>1. Translates(p, sp, sp[id].name, <<>>, 1)
    BY Nothing
  <2>2. 1 <= Len(p[sp[id].name]) + 1
    OBVIOUS
  <2> HIDE DEF c
  <2> QED
    BY <2>1, <2>2, <1>1 DEF FileOk
<1> HIDE DEF c
<1>3. n \in Nat /\ DOMAIN cs = 1 .. n /\ cs2 \in Seq(File) /\ DOMAIN cs2 = 1 .. n + 1
  BY <1>1 DEF c, Pushed
<1>4. cs2[n + 1] = c /\ \A i \in 1 .. n : cs2[i] = cs[i]
  BY <1>3, PushedIs DEF c
<1> HIDE DEF n, cs2
<1>5. \A i \in 1 .. n + 1 : i \in 1 .. n \/ i = n + 1
  BY <1>3
<1>6. \A i \in 1 .. n + 1 : FileOk(p, sp, cs2[i])
  BY <1>2, <1>3, <1>4, <1>5 DEF Compiled
<1>7. \A i \in 1 .. n : cs # <<>>
  BY <1>3
<1>8. ASSUME NEW i \in 1 .. n + 1, NEW j \in 1 .. n + 1, i < j
      PROVE  cs2[i].id < cs2[j].id /\ ~sp[cs2[j].id].compiled
  <2>1. i \in 1 .. n
    BY <1>8, <1>3
  <2>2. CASE j = n + 1
    BY <2>1, <2>2, <1>1, <1>3, <1>4, <1>7
  <2>3. CASE j \in 1 .. n
    BY <2>1, <2>3, <1>3, <1>4, <1>8 DEF Compiled
  <2> QED
    BY <2>2, <2>3, <1>5
<1>9. ASSUME NEW i \in 1 .. n + 1, i + 1 \in 1 .. n + 1
      PROVE  WaitsFor(p, sp, cs2[i], cs2[i + 1].id)
  <2>1. i \in 1 .. n /\ cs2[i] = cs[i]
    BY <1>9, <1>3, <1>4
  <2>2. CASE i = n
    BY <2>1, <2>2, <1>1, <1>4, <1>7 DEF n
  <2>3. CASE i # n
    <3>1. i + 1 \in 1 .. n
      BY <2>1, <2>3, <1>3
    <3> QED
      BY <3>1, <2>1, <1>3, <1>4 DEF Compiled
  <2> QED
    BY <2>2, <2>3
<1>10. Compiled(p, sp, cs2)
  BY <1>3, <1>6, <1>8, <1>9 DEF Compiled
<1> QED
  BY <1>10 DEF cs2

(* The innermost file is done: its importer is at the import of it.         *)
LEMMA FrontOfFiles ==
  ASSUME NEW cs \in Seq(File), cs # <<>>
  PROVE  /\ Front(cs) \in Seq(File)
         /\ Len(Front(cs)) \in Nat /\ Len(cs) = Len(Front(cs)) + 1
         /\ DOMAIN Front(cs) = 1 .. Len(Front(cs)) /\ DOMAIN cs = 1 .. Len(Front(cs)) + 1
         /\ \A i \in DOMAIN Front(cs) : Front(cs)[i] = cs[i]
<1> DEFINE n == Len(cs) - 1
           cs2 == Front(cs)
<1>0. Len(cs) \in Nat /\ Len(cs) # 0
  OBVIOUS
<1>1. n \in Nat /\ DOMAIN cs = 1 .. n + 1 /\ Len(cs) = n + 1
  BY <1>0
<1> HIDE DEF n
<1>2. cs2 = SubSeq(cs, 1, n)
  BY DEF Front, n
<1> HIDE DEF cs2
<1>3. cs2 \in Seq(File) /\ Len(cs2) = n /\ \A i \in 1 .. n : cs2[i] = cs[i]
  BY <1>1, <1>2, SubSeqProperties
<1> QED
  BY <1>1, <1>3 DEF cs2

LEMMA FilesPop ==
  ASSUME NEW p, NEW sp, NEW cs \in Seq(File), Compiled(p, sp, cs), cs # <<>>, Len(cs) # 1
  PROVE  /\ Compiled(p, sp, Front(cs))
         /\ WaitsFor(p, sp, Front(cs)[Len(Front(cs))], cs[Len(cs)].id)
<1> DEFINE n == Len(Front(cs))
           cs2 == Front(cs)
<1>1. /\ cs2 \in Seq(File) /\ n \in Nat /\ Len(cs) = n + 1
      /\ DOMAIN cs2 = 1 .. n /\ DOMAIN cs = 1 .. n + 1
      /\ \A i \in 1 .. n : cs2[i] = cs[i]
  BY FrontOfFiles
<1> HIDE DEF n, cs2
<1>3. n \in 1 .. n /\ n + 1 \in 1 .. n + 1
  BY <1>1
<1>4. \A i \in 1 .. n : i \in 1 .. n + 1
  BY <1>1
<1>5. \A i \in 1 .. n : i + 1 \in 1 .. n => WaitsFor(p, sp, cs2[i], cs2[i + 1].id)
  BY <1>1, <1>4 DEF Compiled
<1>6. Compiled(p, sp, cs2)
  BY <1>1, <1>3, <1>4, <1>5 DEF Compiled
<1>7. WaitsFor(p, sp, cs2[n], cs[n + 1].id)
  BY <1>1, <1>3, <1>4 DEF Compiled
<1> QED
  BY <1>1, <1>6, <1>7 DEF n, cs2
-----------------------------------------------------------------------------
(* The table of modspecs only grows, and code that was set stays.           *)
Grows(sp, sp2) ==
  /\ DOMAIN sp \subseteq DOMAIN sp2
  /\ \A id \in DOMAIN sp : /\ sp2[id].name = sp[id].name
                           /\ sp[id].compiled => sp2[id] = sp[id]

LEMMA TableGrows ==
  ASSUME NEW p, NEW sp, NEW sp2, Table(p, sp), Grows(sp, sp2),
         NEW id \in DOMAIN sp, sp[id].compiled
  PROVE  Translates(p, sp2, sp2[id].name, sp2[id].code, Len(p[sp2[id].name]) + 1)
<1>1. sp2[id] = sp[id] /\ Translates(p, sp, sp[id].name, sp[id].code, Len(p[sp[id].name]) + 1)
  BY DEF Table, Grows
<1> QED
  BY <1>1, Grow DEF Grows

Adding(sp, n) == Append(sp, NotCompiled(n))

LEMMA AddingIs ==
  ASSUME NEW sp \in Seq(Modspec), sp # <<>>, NEW n \in Names
  PROVE  /\ Adding(sp, n) \in Seq(Modspec) /\ Grows(sp, Adding(sp, n))
         /\ Len(Adding(sp, n)) = Len(sp) + 1
         /\ DOMAIN Adding(sp, n) = DOMAIN sp \cup {Len(sp) + 1}
         /\ Adding(sp, n)[Len(sp) + 1] = NotCompiled(n)
         /\ \A id \in DOMAIN sp : Adding(sp, n)[id] = sp[id]
         /\ Adding(sp, n)[1] = sp[1]
<1>1. NotCompiled(n) \in Modspec
  BY DEF NotCompiled, Modspec
<1> DEFINE k == Len(sp)
           sp2 == Adding(sp, n)
<1>2. /\ k \in Nat /\ k # 0 /\ DOMAIN sp = 1 .. k /\ sp2 \in Seq(Modspec) /\ DOMAIN sp2 = 1 .. k + 1
      /\ sp2[k + 1] = NotCompiled(n) /\ Len(sp2) = k + 1 /\ \A id \in 1 .. k : sp2[id] = sp[id]
  BY <1>1 DEF Adding
<1> HIDE DEF k, sp2
<1>3. (1 .. k) \cup {k + 1} = 1 .. k + 1 /\ 1 \in 1 .. k
  BY <1>2
<1>4. Grows(sp, sp2)
  BY <1>2, <1>3 DEF Grows
<1> QED
  BY <1>2, <1>3, <1>4 DEF k, sp2

LEMMA SpecAdded ==
  ASSUME NEW p, NEW sp \in Seq(Modspec), Table(p, sp), NEW n \in DOMAIN p, n \in Names,
         \A id \in DOMAIN sp : sp[id].name # n
  PROVE  Table(p, Adding(sp, n))
<1> DEFINE sp2 == Adding(sp, n)
           new == Len(sp) + 1
<1>1. NotCompiled(n).name = n /\ ~NotCompiled(n).compiled
  BY DEF NotCompiled
<1>2. sp # <<>> /\ sp[1].name = Main
  BY DEF Table
<1>3. /\ Grows(sp, sp2) /\ sp2 \in Seq(Modspec) /\ DOMAIN sp2 = DOMAIN sp \cup {new}
      /\ sp2[new] = NotCompiled(n) /\ \A id \in DOMAIN sp : sp2[id] = sp[id]
      /\ sp2[1] = sp[1] /\ Len(sp2) = new
  BY <1>2, AddingIs
<1>8. new # 0
  OBVIOUS
<1> HIDE DEF sp2, new
<1>4. \A id \in DOMAIN sp2 : /\ sp2[id].name \in DOMAIN p
                             /\ sp2[id].compiled => id \in DOMAIN sp /\ sp[id].compiled
  BY <1>1, <1>3 DEF Table
<1>5. \A i, j \in DOMAIN sp2 : sp2[i].name = sp2[j].name => i = j
  BY <1>1, <1>3 DEF Table
<1>6. sp2 # <<>> /\ sp2[1].name = Main
  BY <1>2, <1>3, <1>8
<1>7. Table(p, sp2)
  BY <1>3, <1>4, <1>5, <1>6, TableGrows DEF Table
<1> QED
  BY <1>7 DEF sp2

Coded(sp, id, code) == [sp EXCEPT ![id].compiled = TRUE, ![id].code = code]

LEMMA CodedIs ==
  ASSUME NEW sp \in Seq(Modspec), NEW id \in DOMAIN sp, ~sp[id].compiled,
         NEW code \in Seq(Instruction)
  PROVE  /\ Coded(sp, id, code) \in Seq(Modspec) /\ Grows(sp, Coded(sp, id, code))
         /\ DOMAIN Coded(sp, id, code) = DOMAIN sp /\ Len(Coded(sp, id, code)) = Len(sp)
         /\ Coded(sp, id, code)[id].compiled /\ Coded(sp, id, code)[id].code = code
         /\ Coded(sp, id, code)[id].name = sp[id].name
         /\ \A i \in DOMAIN sp : i # id => Coded(sp, id, code)[i] = sp[i]
<1> DEFINE sp2 == Coded(sp, id, code)
           s == [sp[id] EXCEPT !.compiled = TRUE, !.code = code]
<1>1. sp[id] \in Modspec
  OBVIOUS
<1>2. s \in Modspec /\ s.name = sp[id].name /\ s.compiled /\ s.code = code
  BY <1>1 DEF Modspec
<1>3. DOMAIN sp2 = DOMAIN sp /\ sp2[id] = s /\ \A i \in DOMAIN sp : i # id => sp2[i] = sp[i]
  BY <1>1 DEF Modspec, Coded
<1>f. sp2 = [i \in DOMAIN sp |-> sp2[i]]
  BY DEF Coded
<1> HIDE DEF s, sp2
<1>4. Len(sp) \in Nat /\ DOMAIN sp = 1 .. Len(sp)
  OBVIOUS
<1>a. sp2 = [i \in 1 .. Len(sp) |-> sp2[i]]
  BY <1>4, <1>f
<1>b. \A i \in 1 .. Len(sp) : sp2[i] \in Modspec
  BY <1>2, <1>3, <1>4
<1>5. sp2 \in Seq(Modspec) /\ Len(sp2) = Len(sp)
  <2> DEFINE n == Len(sp)
  <2> HIDE DEF n
  <2>1. n \in Nat /\ sp2 = [i \in 1 .. n |-> sp2[i]] /\ \A i \in 1 .. n : sp2[i] \in Modspec
    BY <1>4, <1>a, <1>b DEF n
  <2>2. sp2 \in [1 .. n -> Modspec]
    BY <2>1
  <2>3. sp2 \in Seq(Modspec)
    <3>1. sp2 \in UNION {[1 .. m -> Modspec] : m \in Nat}
      BY <2>1, <2>2
    <3> QED
      BY <3>1, SeqDef
  <2>4. Len(sp2) \in Nat /\ DOMAIN sp2 = 1 .. Len(sp2) /\ DOMAIN sp2 = 1 .. n
    BY <2>2, <2>3
  <2>5. Len(sp2) = n
    BY <2>1, <2>4
  <2> QED
    BY <2>3, <2>5 DEF n
<1>6. Grows(sp, sp2)
  <2>1. ASSUME NEW i \in DOMAIN sp
        PROVE  sp2[i].name = sp[i].name /\ (sp[i].compiled => sp2[i] = sp[i])
    <3>1. CASE i = id
      BY <3>1, <1>2, <1>3
    <3>2. CASE i # id
      BY <3>2, <1>3
    <3> QED
      BY <3>1, <3>2
  <2> QED
    BY <2>1, <1>3 DEF Grows
<1> QED
  BY <1>2, <1>3, <1>5, <1>6 DEF sp2

LEMMA CodeSet ==
  ASSUME NEW p, NEW sp \in Seq(Modspec), Table(p, sp), NEW id \in DOMAIN sp, ~sp[id].compiled,
         NEW code \in Seq(Instruction),
         Translates(p, sp, sp[id].name, code, Len(p[sp[id].name]) + 1)
  PROVE  Table(p, Coded(sp, id, code))
<1> DEFINE sp2 == Coded(sp, id, code)
<1>1. /\ sp2 \in Seq(Modspec) /\ Grows(sp, sp2) /\ DOMAIN sp2 = DOMAIN sp
      /\ sp2[id].compiled /\ sp2[id].code = code /\ sp2[id].name = sp[id].name
      /\ \A i \in DOMAIN sp : i # id => sp2[i] = sp[i]
  BY CodedIs
<1> HIDE DEF sp2
<1>7. Translates(p, sp2, sp2[id].name, code, Len(p[sp2[id].name]) + 1)
  <2>1. sp2[id].name = sp[id].name
    BY <1>1
  <2>2. DOMAIN sp \subseteq DOMAIN sp2 /\ \A i \in DOMAIN sp : sp2[i].name = sp[i].name
    BY <1>1 DEF Grows
  <2>3. Translates(p, sp2, sp[id].name, code, Len(p[sp[id].name]) + 1)
    BY <2>2, Grow
  <2> QED
    BY <2>1, <2>3
<1>8. \A i \in DOMAIN sp2 : /\ sp2[i].name \in DOMAIN p
                            /\ sp2[i].compiled => i = id \/ sp[i].compiled
  BY <1>1 DEF Table
<1>9. \A i, j \in DOMAIN sp2 : sp2[i].name = sp2[j].name => i = j
  BY <1>1 DEF Table
<1>10. sp2 # <<>> /\ sp2[1].name = Main
  <2>1. sp # <<>> /\ sp[1].name = Main /\ Len(sp) \in Nat /\ DOMAIN sp = 1 .. Len(sp)
    BY DEF Table
  <2>2. 1 \in DOMAIN sp
    BY <2>1
  <2> QED
    BY <2>1, <2>2, <1>1
<1>11. \A i \in DOMAIN sp2 : sp2[i].compiled =>
         Translates(p, sp2, sp2[i].name, sp2[i].code, Len(p[sp2[i].name]) + 1)
  BY <1>1, <1>7, <1>8, TableGrows
<1>12. Table(p, sp2)
  BY <1>8, <1>9, <1>10, <1>11 DEF Table
<1> QED
  BY <1>12 DEF sp2
-----------------------------------------------------------------------------
LEMMA FramesGrow ==
  ASSUME NEW sp, NEW sp2, NEW fs, Framed(sp, fs), Grows(sp, sp2)
  PROVE  Framed(sp2, fs)
<1>1. \A i \in DOMAIN fs : fs[i].id \in DOMAIN sp2 /\ sp2[fs[i].id] = sp[fs[i].id]
  BY DEF Framed, Grows
<1>2. ASSUME NEW i \in DOMAIN fs, i + 1 \in DOMAIN fs
      PROVE  CallsIt(sp2, fs[i], fs[i + 1].id, fs[i + 1].by)
  <2>1. CallsIt(sp, fs[i], fs[i + 1].id, fs[i + 1].by)
    BY <1>2 DEF Framed
  <2>2. sp2[fs[i].id] = sp[fs[i].id] /\ sp2[fs[i + 1].id] = sp[fs[i + 1].id]
    BY <1>1, <1>2
  <2> QED
    BY <2>1, <2>2 DEF CallsIt, At
<1> QED
  BY <1>1, <1>2 DEF Framed

(* Where the innermost frame stands, and what pointers hold, does not       *)
(* matter to the chain.                                                    *)
LEMMA FramesStep ==
  ASSUME NEW sp, NEW fs \in Seq(Frame), Framed(sp, fs), NEW fs2 \in Seq(Frame),
         Len(fs2) = Len(fs), \A i \in DOMAIN fs : fs2[i].id = fs[i].id /\ fs2[i].by = fs[i].by,
         \A i \in DOMAIN fs : i = Len(fs) \/ fs2[i].pc = fs[i].pc
  PROVE  Framed(sp, fs2)
<1> DEFINE n == Len(fs)
<1>1. n \in Nat /\ DOMAIN fs = 1 .. n /\ DOMAIN fs2 = 1 .. n
  OBVIOUS
<1>2. fs2 # <<>> => fs # <<>> /\ 1 \in 1 .. n
  OBVIOUS
<1>3. \A i \in 1 .. n : i + 1 \in 1 .. n => fs2[i].pc = fs[i].pc
  BY <1>1
<1> HIDE DEF n
<1>4. ASSUME NEW i \in 1 .. n, i + 1 \in 1 .. n
      PROVE  CallsIt(sp, fs2[i], fs2[i + 1].id, fs2[i + 1].by)
  <2>1. CallsIt(sp, fs[i], fs[i + 1].id, fs[i + 1].by)
    BY <1>1, <1>4 DEF Framed
  <2>2. fs2[i].pc = fs[i].pc /\ fs2[i].id = fs[i].id
    BY <1>1, <1>3, <1>4
  <2>3. fs2[i + 1].id = fs[i + 1].id /\ fs2[i + 1].by = fs[i + 1].by
    BY <1>1, <1>4
  <2> QED
    BY <2>1, <2>2, <2>3 DEF CallsIt, At
<1> QED
  BY <1>1, <1>2, <1>4 DEF Framed

LEMMA FramesPush ==
  ASSUME NEW sp, NEW fs \in Seq(Frame), Framed(sp, fs), NEW f \in Frame,
         f.id \in DOMAIN sp, sp[f.id].compiled, fs = <<>> => f.by = "run",
         fs # <<>> => CallsIt(sp, fs[Len(fs)], f.id, f.by),
         NEW fs2, fs2 = Append(fs, f)
  PROVE  /\ fs2 \in Seq(Frame) /\ fs2 # <<>> /\ Framed(sp, fs2) /\ Len(fs2) = Len(fs) + 1
         /\ Len(fs) \in Nat /\ DOMAIN fs = 1 .. Len(fs) /\ DOMAIN fs2 = 1 .. Len(fs) + 1
         /\ fs2[Len(fs) + 1] = f /\ \A i \in DOMAIN fs : fs2[i] = fs[i]
<1> DEFINE n == Len(fs)
<1>1. /\ n \in Nat /\ DOMAIN fs = 1 .. n /\ fs2 \in Seq(Frame) /\ DOMAIN fs2 = 1 .. n + 1
      /\ fs2[n + 1] = f /\ Len(fs2) = n + 1 /\ \A i \in 1 .. n : fs2[i] = fs[i]
  OBVIOUS
<1> HIDE DEF n
<1>2. \A i \in 1 .. n + 1 : i \in 1 .. n \/ i = n + 1
  BY <1>1
<1>3. fs2 # <<>> /\ fs2[1].by = "run"
  <2>1. CASE n = 0
    BY <2>1, <1>1 DEF n
  <2>2. CASE n # 0
    <3>1. 1 \in 1 .. n /\ fs # <<>> /\ 1 \in DOMAIN fs2
      BY <2>2, <1>1
    <3> QED
      BY <3>1, <1>1 DEF Framed
  <2> QED
    BY <2>1, <2>2
<1>4. ASSUME NEW i \in 1 .. n + 1, i + 1 \in 1 .. n + 1
      PROVE  CallsIt(sp, fs2[i], fs2[i + 1].id, fs2[i + 1].by)
  <2>1. i \in 1 .. n /\ fs2[i] = fs[i] /\ fs # <<>>
    BY <1>1, <1>4
  <2>2. CASE i = n
    BY <2>1, <2>2, <1>1 DEF n
  <2>3. CASE i # n
    <3>1. i + 1 \in 1 .. n
      BY <2>1, <2>3, <1>1
    <3> QED
      BY <3>1, <2>1, <1>1 DEF Framed
  <2> QED
    BY <2>2, <2>3
<1>5. Framed(sp, fs2)
  BY <1>1, <1>2, <1>3, <1>4 DEF Framed
<1> QED
  BY <1>1, <1>3, <1>5 DEF n

LEMMA FramesPop ==
  ASSUME NEW sp, NEW fs \in Seq(Frame), Framed(sp, fs), fs # <<>>, NEW fs2, fs2 = Front(fs)
  PROVE  /\ fs2 \in Seq(Frame) /\ Framed(sp, fs2)
         /\ Len(fs2) \in Nat /\ Len(fs) = Len(fs2) + 1
         /\ DOMAIN fs2 = 1 .. Len(fs2) /\ DOMAIN fs = 1 .. Len(fs2) + 1
         /\ \A i \in DOMAIN fs2 : fs2[i] = fs[i]
         /\ fs2 # <<>> => CallsIt(sp, fs2[Len(fs2)], fs[Len(fs)].id, fs[Len(fs)].by)
<1> DEFINE n == Len(fs) - 1
<1>0. Len(fs) \in Nat /\ Len(fs) # 0
  OBVIOUS
<1>1. n \in Nat /\ DOMAIN fs = 1 .. n + 1 /\ Len(fs) = n + 1
  BY <1>0
<1> HIDE DEF n
<1>s. fs2 = SubSeq(fs, 1, n)
  BY DEF Front, n
<1>2. fs2 \in Seq(Frame) /\ Len(fs2) = n /\ \A i \in 1 .. n : fs2[i] = fs[i]
  BY <1>1, <1>s, SubSeqProperties
<1>3. /\ DOMAIN fs2 = 1 .. n /\ n + 1 \in 1 .. n + 1
      /\ fs2 # <<>> => 1 \in 1 .. n /\ n \in 1 .. n
  BY <1>1, <1>2
<1>4. \A i \in 1 .. n : i \in 1 .. n + 1
  BY <1>1
<1>5. \A i \in 1 .. n : i + 1 \in 1 .. n => CallsIt(sp, fs2[i], fs2[i + 1].id, fs2[i + 1].by)
  BY <1>1, <1>2, <1>4 DEF Framed
<1>6. Framed(sp, fs2)
  BY <1>1, <1>2, <1>3, <1>4, <1>5 DEF Framed
<1>7. fs2 # <<>> => CallsIt(sp, fs2[n], fs[n + 1].id, fs[n + 1].by)
  BY <1>1, <1>2, <1>3, <1>4 DEF Framed
<1> QED
  BY <1>1, <1>2, <1>3, <1>6, <1>7
-----------------------------------------------------------------------------
LEMMA Facts ==
  ASSUME IInv
  PROVE  /\ specs \in Seq(Modspec) /\ Ids = 1 .. Len(specs) /\ Len(specs) \in Pos
         /\ \A id \in Ids : /\ specs[id] \in Modspec /\ specs[id].name \in DOMAIN program
                            /\ program[specs[id].name] \in Seq(Statement)
         /\ DOMAIN program \subseteq Names /\ Main \in DOMAIN program
         /\ program \in Programs
<1>1. program \in Programs /\ specs \in Seq(Modspec) /\ Table(program, specs)
  BY DEF IInv, Types
<1>2. /\ DOMAIN program \subseteq Names /\ Main \in DOMAIN program
      /\ \A f \in DOMAIN program : program[f] \in Seq(Statement)
  BY <1>1, ProgramsAssumption
<1>3. Ids = 1 .. Len(specs) /\ Len(specs) \in Pos /\ \A id \in Ids : specs[id] \in Modspec
  BY <1>1 DEF Table, Ids
<1>4. \A id \in Ids : specs[id].name \in DOMAIN program
  BY <1>1 DEF Table, Ids
<1> QED
  BY <1>1, <1>2, <1>3, <1>4

LEMMA LastFile ==
  ASSUME IInv, NEW cs \in Seq(File), Compiled(program, specs, cs), cs # <<>>
  PROVE  /\ Len(cs) \in DOMAIN cs /\ Len(cs) \in Pos /\ cs[Len(cs)] \in File
         /\ FileOk(program, specs, cs[Len(cs)]) /\ cs[Len(cs)].id \in Ids
         /\ program[specs[cs[Len(cs)].id].name] \in Seq(Statement)
<1>1. Len(cs) \in DOMAIN cs /\ Len(cs) \in Pos /\ cs[Len(cs)] \in File
  OBVIOUS
<1>2. FileOk(program, specs, cs[Len(cs)])
  BY <1>1 DEF Compiled
<1>3. cs[Len(cs)].id \in Ids
  BY <1>2 DEF FileOk, Ids
<1> QED
  BY <1>1, <1>2, <1>3, Facts

(* File c after one more of its statements, compiled to an instruction.     *)
Extended(p, sp, c, op, id) ==
  LET s == p[sp[c.id].name][c.pos] IN
  [id |-> c.id, pos |-> c.pos + 1,
   imported |-> c.imported \cup (IF op = "import" THEN {sp[id].name} ELSE {}),
   code |-> Append(c.code, [op |-> op, id |-> id, arg |-> s.arg, guard |-> s.guard,
                            at |-> c.pos])]

LEMMA FileExtends ==
  ASSUME NEW p, NEW sp, NEW c \in File, FileOk(p, sp, c),
         p[sp[c.id].name] \in Seq(Statement), c.pos \in DOMAIN p[sp[c.id].name],
         NEW op \in {"import", "import_", "use", "throw"}, p[sp[c.id].name][c.pos].op = op,
         NEW id \in Nat,
         op = "import" => id \in DOMAIN sp /\ sp[id].name = p[sp[c.id].name][c.pos].arg
  PROVE  FileOk(p, sp, Extended(p, sp, c, op, id)) /\ Extended(p, sp, c, op, id) \in File
<1> DEFINE n == sp[c.id].name
           src == p[n]
           pos == c.pos
           old == c.code
           imp == c.imported \cup (IF op = "import" THEN {sp[id].name} ELSE {})
           i == [op |-> op, id |-> id, arg |-> src[pos].arg, guard |-> src[pos].guard, at |-> pos]
           code == Append(old, i)
           d == Extended(p, sp, c, op, id)
<1>1. /\ src[pos] \in Statement /\ pos \in Pos /\ old \in Seq(Instruction)
      /\ c.imported \subseteq Names /\ c.id \in Pos
  BY DEF File
<1>2. i \in Instruction
  BY <1>1 DEF Instruction, Statement
<1>3. /\ i.at = pos /\ i.op = src[pos].op /\ i.arg = src[pos].arg /\ i.guard = src[pos].guard
      /\ i.op = "import" => i.id \in DOMAIN sp /\ sp[i.id].name = i.arg
  OBVIOUS
<1>4. /\ d.id = c.id /\ d.pos = pos + 1 /\ d.imported = imp /\ d.code = code
      /\ d = [id |-> c.id, pos |-> pos + 1, imported |-> imp, code |-> code]
  BY DEF Extended
<1>5. imp \subseteq Names /\ \A m \in imp : m \in c.imported \/ (op = "import" /\ m = i.arg)
  BY <1>1 DEF Statement
<1>6. i.op = op
  OBVIOUS
<1> HIDE DEF i, imp, d
<1>7. code \in Seq(Instruction)
  BY <1>1, <1>2
<1>8. d \in File
  BY <1>1, <1>4, <1>5, <1>7 DEF File
<1>9. /\ src \in Seq(Statement) /\ Translates(p, sp, n, old, pos) /\ pos \in DOMAIN p[n]
      /\ c.id \in DOMAIN sp
  BY DEF FileOk
<1>10. pos + 1 <= Len(src) + 1
  BY <1>1, <1>9
<1>11. /\ DOMAIN code = 1 .. Len(old) + 1 /\ code[Len(old) + 1] = i /\ Len(old) \in Nat
       /\ DOMAIN old = 1 .. Len(old) /\ \A k \in DOMAIN old : code[k] = old[k]
  BY <1>1, <1>2
<1>12. Translates(p, sp, n, code, pos + 1)
  <2> HIDE DEF n, pos, old
  <2> QED
    BY <1>1, <1>2, <1>3, <1>9, OneMore
<1> HIDE DEF code
<1>13. ASSUME NEW m \in imp
       PROVE  \E k \in DOMAIN code : code[k].op = "import" /\ code[k].arg = m
  <2>1. CASE m \in c.imported
    <3>1. PICK k \in DOMAIN old : old[k].op = "import" /\ old[k].arg = m
      BY <2>1 DEF FileOk
    <3> QED
      BY <3>1, <1>11
  <2>2. CASE m \notin c.imported
    <3>1. op = "import" /\ m = i.arg
      BY <2>2, <1>5
    <3> QED
      BY <3>1, <1>6, <1>11
  <2> QED
    BY <2>1, <2>2
<1>14. FileOk(p, sp, d)
  BY <1>4, <1>9, <1>10, <1>12, <1>13 DEF FileOk
<1> QED
  BY <1>8, <1>14 DEF d

LEMMA Fields ==
  ASSUME NEW id, NEW pos, NEW imported, NEW code, NEW x,
         NEW f, f = [id |-> id, pos |-> pos, imported |-> imported, code |-> code]
  PROVE  /\ [f EXCEPT !.pos = x]
              = [id |-> id, pos |-> x, imported |-> imported, code |-> code]
         /\ [f EXCEPT !.imported = x]
              = [id |-> id, pos |-> pos, imported |-> x, code |-> code]
         /\ [f EXCEPT !.code = x]
              = [id |-> id, pos |-> pos, imported |-> imported, code |-> x]
OBVIOUS

Appended(p, sp, cs, op, id) ==
  LET c == cs[Len(cs)]  s == p[sp[c.id].name][c.pos] IN
  [cs EXCEPT ![Len(cs)].pos = @ + 1,
             ![Len(cs)].code = Append(@, [op |-> op, id |-> id, arg |-> s.arg,
                                          guard |-> s.guard, at |-> c.pos])]

Marked(cs, n, t) == [cs EXCEPT ![n].imported = @ \cup t]

LEMMA AppendIs ==
  ASSUME NEW p, NEW sp, NEW cs \in Seq(File), cs # <<>>, NEW op, op # "import", NEW id
  PROVE  Appended(p, sp, cs, op, id) = With(cs, Extended(p, sp, cs[Len(cs)], op, id))
<1> DEFINE n == Len(cs)
           c == cs[n]
           s == p[sp[c.id].name][c.pos]
           code == Append(c.code, [op |-> op, id |-> id, arg |-> s.arg, guard |-> s.guard,
                                   at |-> c.pos])
           a == Appended(p, sp, cs, op, id)
           e == [c EXCEPT !.pos = c.pos + 1]
           f == [e EXCEPT !.code = code]
<1>1. c \in File /\ n \in DOMAIN cs
  OBVIOUS
<1>2. c = [id |-> c.id, pos |-> c.pos, imported |-> c.imported, code |-> c.code]
  BY <1>1 DEF File
<1>3. a = [cs EXCEPT ![n].pos = @ + 1, ![n].code = code]
  BY <1>1 DEF Appended
<1>4. Extended(p, sp, c, op, id) =
        [id |-> c.id, pos |-> c.pos + 1,
         imported |-> c.imported \cup (IF op = "import" THEN {sp[id].name} ELSE {}), code |-> code]
  BY DEF Extended
<1> HIDE DEF code, a, n, c
<1>5. e = [id |-> c.id, pos |-> c.pos + 1, imported |-> c.imported, code |-> c.code]
  BY <1>2, Fields
<1>6. a = [cs EXCEPT ![n] = [c EXCEPT !.pos = c.pos + 1, !.code = code]]
  BY <1>1, <1>3 DEF c
<1>7. [c EXCEPT !.pos = c.pos + 1, !.code = code] = f
  OBVIOUS
<1> HIDE DEF e
<1>8. f = [id |-> c.id, pos |-> c.pos + 1, imported |-> c.imported, code |-> code]
  BY <1>5, Fields
<1>9. a = [cs EXCEPT ![n] = f]
  BY <1>6, <1>7
<1> HIDE DEF f
<1>10. f = Extended(p, sp, c, op, id)
  BY <1>4, <1>8
<1> QED
  BY <1>9, <1>10 DEF With, a, c, n

LEMMA ImportIs ==
  ASSUME NEW p, NEW sp, NEW cs \in Seq(File), cs # <<>>, NEW id
  PROVE  Marked(Appended(p, sp, cs, "import", id), Len(cs), {sp[id].name}) =
           With(cs, Extended(p, sp, cs[Len(cs)], "import", id))
<1> DEFINE n == Len(cs)
           c == cs[n]
           s == p[sp[c.id].name][c.pos]
           code == Append(c.code, [op |-> "import", id |-> id, arg |-> s.arg, guard |-> s.guard,
                                   at |-> c.pos])
           t == {sp[id].name}
           a == Appended(p, sp, cs, "import", id)
           e == [c EXCEPT !.pos = c.pos + 1]
           f == [e EXCEPT !.code = code]
           g == [f EXCEPT !.imported = f.imported \cup t]
<1>1. c \in File /\ n \in DOMAIN cs
  OBVIOUS
<1>2. c = [id |-> c.id, pos |-> c.pos, imported |-> c.imported, code |-> c.code]
  BY <1>1 DEF File
<1>3. a = [cs EXCEPT ![n].pos = @ + 1, ![n].code = code]
  BY <1>1 DEF Appended
<1>4. Extended(p, sp, c, "import", id) =
        [id |-> c.id, pos |-> c.pos + 1,
         imported |-> c.imported \cup t, code |-> code]
  BY DEF Extended
<1> HIDE DEF code, t, a, n, c
<1>5. e = [id |-> c.id, pos |-> c.pos + 1, imported |-> c.imported, code |-> c.code]
  BY <1>2, Fields
<1>6. a = [cs EXCEPT ![n] = [c EXCEPT !.pos = c.pos + 1, !.code = code]]
  BY <1>1, <1>3 DEF c
<1>7. [c EXCEPT !.pos = c.pos + 1, !.code = code] = f
  OBVIOUS
<1> HIDE DEF e
<1>8. f = [id |-> c.id, pos |-> c.pos + 1, imported |-> c.imported, code |-> code]
  BY <1>5, Fields
<1>9. a = [cs EXCEPT ![n] = f]
  BY <1>6, <1>7
<1> HIDE DEF f
<1>10. f.imported = c.imported
  BY <1>8
<1>11. g = [id |-> c.id, pos |-> c.pos + 1, imported |-> c.imported \cup t, code |-> code]
  <2> DEFINE x == c.imported \cup t
  <2>1. g = [f EXCEPT !.imported = x]
    BY <1>10
  <2> HIDE DEF x, g
  <2>2. g = [id |-> c.id, pos |-> c.pos + 1, imported |-> x, code |-> code]
    BY <2>1, <1>8, Fields
  <2> QED
    BY <2>2 DEF x
<1>12. Marked(a, n, t) = [cs EXCEPT ![n] = g]
  BY <1>1, <1>9 DEF Marked
<1> HIDE DEF g
<1>13. g = Extended(p, sp, c, "import", id)
  BY <1>4, <1>11
<1>14. Marked(a, n, t) = With(cs, Extended(p, sp, c, "import", id))
  BY <1>12, <1>13 DEF With, n
<1> QED
  BY <1>14 DEF a, c, n, t

-----------------------------------------------------------------------------
(* The current file goes on to its next statement, with at most one more    *)
(* instruction, for that statement.                                        *)
Advances(c) ==
  /\ c \in File /\ c.id = Compiler.id /\ FileOk(program, specs, c)
  /\ \/ c.code = Compiler.code
     \/ \E op \in {"import", "import_", "use", "throw"}, id \in Nat :
          /\ c = Extended(program, specs, Compiler, op, id)
          /\ op = "import" => /\ Compiler.pos \in DOMAIN Source /\ Source[Compiler.pos].op = op
                              /\ id \in Ids /\ specs[id].name = Source[Compiler.pos].arg
  /\ compiling' = With(compiling, c)

LEMMA CurrentFile ==
  ASSUME IInv, Compiles
  PROVE  /\ compiling \in Seq(File) /\ compiling # <<>> /\ Compiled(program, specs, compiling)
         /\ Len(compiling) \in DOMAIN compiling /\ Len(compiling) \in Pos
         /\ Compiler = compiling[Len(compiling)] /\ Compiler \in File /\ Compiler.id \in Ids
         /\ FileOk(program, specs, Compiler)
         /\ Source = program[specs[Compiler.id].name] /\ Source \in Seq(Statement)
         /\ status = "running"
<1>1. compiling \in Seq(File) /\ compiling # <<>> /\ Compiled(program, specs, compiling)
  BY DEF Compiles, IInv, Types
<1> QED
  BY <1>1, LastFile DEF Compiler, Source, Compiles

LEMMA NextStatement ==
  ASSUME IInv, NEW op, Parses(op)
  PROVE  /\ Compiles /\ Compiler.pos \in DOMAIN Source /\ Source[Compiler.pos] \in Statement
         /\ Source[Compiler.pos].op = op
         /\ Compiler.pos + 1 \in Pos /\ Compiler.pos + 1 <= Len(Source) + 1
<1>1. Compiles /\ Compiler.pos <= Len(Source) /\ Source[Compiler.pos].op = op
  BY DEF Parses
<1>2. Source \in Seq(Statement) /\ Compiler.pos \in Pos
  BY <1>1, CurrentFile DEF File
<1> QED
  BY <1>1, <1>2

(* The modspec that Named(n) finds.                                        *)
LEMMA Finds ==
  ASSUME IInv, NEW n, Named(n) # {}
  PROVE  /\ (CHOOSE id \in Named(n) : TRUE) \in Ids /\ Ids \subseteq Nat
         /\ specs[CHOOSE id \in Named(n) : TRUE].name = n
         /\ (CHOOSE id \in Named(n) : \A other \in Named(n) : id <= other) \in Ids
         /\ specs[CHOOSE id \in Named(n) : \A other \in Named(n) : id <= other].name = n
<1>1. Ids \subseteq Nat
  BY Facts
<1>2. PICK k \in Ids : specs[k].name = n
  BY DEF Named
<1>3. Named(n) = {k}
  BY <1>2 DEF IInv, Table, Named, Ids
<1>4. k <= k
  BY <1>1, <1>2
<1>5. \A other \in Named(n) : k <= other
  BY <1>3, <1>4
<1>6. (CHOOSE id \in Named(n) : TRUE) \in Named(n)
  BY <1>3
<1>7. (CHOOSE id \in Named(n) : \A other \in Named(n) : id <= other) \in Named(n)
  BY <1>3, <1>5
<1> QED
  BY <1>1, <1>2, <1>3, <1>6, <1>7

LEMMA AgainAdvances ==
  ASSUME IInv, ImportAgain
  PROVE  \E c : Advances(c)
<1> DEFINE c == [Compiler EXCEPT !.pos = Compiler.pos + 1]
<1>1. /\ Compiles /\ Compiler.pos \in DOMAIN Source /\ Source[Compiler.pos].op = "import"
      /\ Compiler.pos + 1 \in Pos /\ Compiler.pos + 1 <= Len(Source) + 1
  BY NextStatement DEF ImportAgain
<1>2. /\ compiling \in Seq(File) /\ Len(compiling) \in DOMAIN compiling
      /\ Compiler = compiling[Len(compiling)] /\ Compiler \in File
      /\ FileOk(program, specs, Compiler) /\ Source = program[specs[Compiler.id].name]
      /\ Source \in Seq(Statement)
  BY <1>1, CurrentFile
<1>3. compiling' = With(compiling, c)
  BY <1>2 DEF With, ImportAgain
<1>4. c \in File /\ c.id = Compiler.id /\ c.pos = Compiler.pos + 1 /\ c.code = Compiler.code
      /\ c.imported = Compiler.imported
  BY <1>1, <1>2 DEF File
<1>5. PICK k \in DOMAIN Compiler.code :
        Compiler.code[k].op = "import" /\ Compiler.code[k].arg = Source[Compiler.pos].arg
  BY <1>2 DEF ImportAgain, FileOk
<1>6. Translates(program, specs, specs[Compiler.id].name, Compiler.code, Compiler.pos)
      /\ Compiler.code \in Seq(Instruction) /\ Compiler.pos \in Pos
  BY <1>2 DEF FileOk, File
<1>7. Translates(program, specs, specs[Compiler.id].name, Compiler.code, Compiler.pos + 1)
  BY <1>2, <1>5, <1>6, NoneMore
<1> HIDE DEF c
<1>8. FileOk(program, specs, c)
  BY <1>1, <1>2, <1>4, <1>7 DEF FileOk
<1> QED
  BY <1>3, <1>4, <1>8 DEF Advances

LEMMA Appends ==
  ASSUME IInv, NEW op \in {"import", "import_", "use", "throw"}, Parses(op),
         NEW id \in Nat, op = "import" => id \in Ids /\ specs[id].name = Source[Compiler.pos].arg,
         op = "import" => compiling' = AppendImport(compiling, id),
         op # "import" => compiling' = Append1(compiling, op, id)
  PROVE  \E c : Advances(c)
<1> DEFINE c == Extended(program, specs, Compiler, op, id)
<1>1. /\ Compiles /\ Compiler.pos \in DOMAIN Source /\ Source[Compiler.pos].op = op
  BY NextStatement
<1>2. /\ compiling \in Seq(File) /\ compiling # <<>>
      /\ Compiler = compiling[Len(compiling)] /\ Compiler \in File
      /\ FileOk(program, specs, Compiler) /\ Source = program[specs[Compiler.id].name]
      /\ Source \in Seq(Statement)
  BY <1>1, CurrentFile
<1>3. compiling' = With(compiling, c)
  <2> DEFINE d == compiling[Len(compiling)]
  <2>0. op # "import" => Appended(program, specs, compiling, op, id) =
                           With(compiling, Extended(program, specs, d, op, id))
    BY <1>2, AppendIs
  <2>5. op = "import" =>
          Marked(Appended(program, specs, compiling, op, id), Len(compiling), {specs[id].name}) =
            With(compiling, Extended(program, specs, d, op, id))
    BY <1>2, ImportIs
  <2>4. Extended(program, specs, d, op, id) = c
    BY <1>2
  <2> HIDE DEF d
  <2>1. /\ op # "import" => Appended(program, specs, compiling, op, id) = With(compiling, c)
        /\ op = "import" => [Appended(program, specs, compiling, op, id) EXCEPT
                ![Len(compiling)].imported = @ \cup {specs[id].name}] = With(compiling, c)
    BY <2>0, <2>4, <2>5 DEF Marked
  <2> HIDE DEF c
  <2>2. Appended(program, specs, compiling, op, id) = Append1(compiling, op, id)
    BY DEF Appended, Append1
  <2>3. op = "import" => [Append1(compiling, op, id) EXCEPT
                ![Len(compiling)].imported = @ \cup {specs[id].name}] = AppendImport(compiling, id)
    BY DEF AppendImport
  <2> QED
    BY <2>1, <2>2, <2>3
<1>4. op = "import" => id \in DOMAIN specs /\ specs[id].name = Source[Compiler.pos].arg
  BY DEF Ids
<1>5. FileOk(program, specs, c) /\ c \in File
  BY <1>1, <1>2, <1>4, FileExtends
<1>6. c.id = Compiler.id
  BY DEF Extended
<1>7. \E o \in {"import", "import_", "use", "throw"}, k \in Nat :
          /\ c = Extended(program, specs, Compiler, o, k)
          /\ o = "import" => /\ Compiler.pos \in DOMAIN Source /\ Source[Compiler.pos].op = o
                             /\ k \in Ids /\ specs[k].name = Source[Compiler.pos].arg
  BY <1>1
<1> HIDE DEF c
<1> QED
  BY <1>3, <1>5, <1>6, <1>7 DEF Advances

LEMMA StatementAdvances ==
  ASSUME IInv, ImportAgain \/ ImportKnown \/ CompileCall \/ CompileUse
  PROVE  /\ \E c : Advances(c)
         /\ UNCHANGED <<program, specs, modules, frames, status, started, finished>> /\ Compiles
<1>1. CASE ImportAgain
  BY <1>1, AgainAdvances DEF ImportAgain, Parses
<1>2. CASE ImportKnown
  <2> DEFINE n == Source[Compiler.pos].arg
             k == CHOOSE id \in Named(n) : \A other \in Named(n) : id <= other
  <2>1. Parses("import") /\ Named(n) # {} /\ compiling' = AppendImport(compiling, k)
    BY <1>2 DEF ImportKnown
  <2>2. k \in Ids /\ specs[k].name = n /\ Ids \subseteq Nat
    BY <2>1, Finds
  <2> HIDE DEF k
  <2>3. \E c : Advances(c)
    BY <2>1, <2>2, Appends
  <2> QED
    BY <1>2, <2>3 DEF ImportKnown, Parses
<1>3. CASE CompileCall
  <2>1. PICK op \in {"import_", "throw"} : Parses(op)
    BY <1>3 DEF CompileCall
  <2>2. Source[Compiler.pos].op = op
    BY <2>1, NextStatement
  <2>3. compiling' = Append1(compiling, op, 0)
    BY <1>3, <2>2 DEF CompileCall
  <2>4. \E c : Advances(c)
    BY <2>1, <2>3, Appends
  <2> QED
    BY <1>3, <2>1, <2>4 DEF CompileCall, Parses
<1>4. CASE CompileUse
  <2> DEFINE n == Source[Compiler.pos].arg
             k == CHOOSE id \in Named(n) : TRUE
  <2>1. Parses("use") /\ n \in Compiler.imported /\ compiling' = Append1(compiling, "use", k)
    BY <1>4 DEF CompileUse
  <2>2. Compiler \in File /\ FileOk(program, specs, Compiler)
    BY <2>1, CurrentFile, NextStatement
  <2>3. PICK j \in DOMAIN Compiler.code :
          Compiler.code[j].op = "import" /\ Compiler.code[j].arg = n
    BY <2>1, <2>2 DEF FileOk
  <2>4. Compiler.code[j].id \in Ids /\ specs[Compiler.code[j].id].name = n
    BY <2>2, <2>3 DEF FileOk, Translates, Ids
  <2>5. Named(n) # {}
    BY <2>4 DEF Named
  <2>6. k \in Nat
    BY <2>5, Finds
  <2> HIDE DEF k
  <2>7. \E c : Advances(c)
    BY <2>1, <2>6, Appends
  <2> QED
    BY <1>4, <2>1, <2>7 DEF CompileUse, Parses
<1> QED
  BY <1>1, <1>2, <1>3, <1>4
-----------------------------------------------------------------------------
LEMMA InitInv == ASSUME Init PROVE IInv
<1>1. /\ program \in Programs /\ specs = <<NotCompiled(Main)>>
      /\ compiling = <<CompileFrame(1)>> /\ modules = <<>> /\ frames = <<>>
      /\ status = "running" /\ started = <<>> /\ finished = {}
  BY DEF Init
<1>2. Main \in DOMAIN program /\ DOMAIN program \subseteq Names
      /\ program[Main] \in Seq(Statement)
  BY <1>1, ProgramsAssumption
<1>3. NotCompiled(Main) \in Modspec /\ NotCompiled(Main).name = Main
      /\ ~NotCompiled(Main).compiled
  BY <1>2 DEF NotCompiled, Modspec
<1>4. CompileFrame(1) \in File /\ CompileFrame(1).id = 1 /\ CompileFrame(1).pos = 1
      /\ CompileFrame(1).code = <<>> /\ CompileFrame(1).imported = {}
  BY DEF CompileFrame, File
<1>5. specs \in Seq(Modspec) /\ DOMAIN specs = {1} /\ specs[1] = NotCompiled(Main)
      /\ specs # <<>> /\ Len(specs) = 1
  BY <1>1, <1>3
<1>6. compiling \in Seq(File) /\ DOMAIN compiling = {1} /\ compiling[1] = CompileFrame(1)
      /\ compiling # <<>>
  BY <1>1, <1>4
<1>7. Table(program, specs)
  BY <1>2, <1>3, <1>5 DEF Table
<1>8. FileOk(program, specs, compiling[1])
  <2>1. Translates(program, specs, Main, <<>>, 1)
    BY <1>2, Nothing
  <2>2. 1 <= Len(program[Main]) + 1
    BY <1>2
  <2> QED
    BY <2>1, <2>2, <1>3, <1>4, <1>5, <1>6 DEF FileOk
<1>9. Compiled(program, specs, compiling)
  BY <1>6, <1>8 DEF Compiled
<1>10. Framed(specs, frames)
  BY <1>1 DEF Framed
<1>11. StageInv
  BY <1>1, <1>4, <1>6 DEF StageInv
<1>12. Types
  BY <1>1, <1>5, <1>6 DEF Types, Ids
<1> QED
  BY <1>7, <1>9, <1>10, <1>11, <1>12 DEF IInv

(* What a step of the compiler leaves of the table and of the frames.       *)
LEMMA AdvanceInv ==
  ASSUME IInv, Compiles, NEW c, Advances(c),
         UNCHANGED <<program, specs, modules, frames, status, started, finished>>
  PROVE  /\ IInv' /\ DOMAIN compiling' = DOMAIN compiling
         /\ \A i \in DOMAIN compiling : compiling'[i].id = compiling[i].id
         /\ \A i \in DOMAIN compiling : i = Len(compiling) \/ compiling'[i] = compiling[i]
         /\ compiling'[Len(compiling)] = c /\ 1 \in DOMAIN compiling
<1>1. /\ compiling \in Seq(File) /\ compiling # <<>> /\ Compiled(program, specs, compiling)
      /\ Compiler = compiling[Len(compiling)]
  BY CurrentFile
<1>2. c \in File /\ c.id = compiling[Len(compiling)].id /\ FileOk(program, specs, c)
      /\ compiling' = With(compiling, c)
  BY <1>1 DEF Advances
<1>3. /\ compiling' \in Seq(File) /\ Compiled(program, specs, compiling')
      /\ DOMAIN compiling' = DOMAIN compiling
      /\ \A i \in DOMAIN compiling : compiling'[i].id = compiling[i].id
      /\ \A i \in DOMAIN compiling : i = Len(compiling) \/ compiling'[i] = compiling[i]
      /\ compiling'[Len(compiling)] = c /\ 1 \in DOMAIN compiling
  <2>1. Compiled(program, specs, With(compiling, c))
    BY <1>1, <1>2, FileSteps
  <2>2. /\ With(compiling, c) \in Seq(File) /\ DOMAIN With(compiling, c) = DOMAIN compiling
        /\ With(compiling, c)[Len(compiling)] = c
        /\ \A i \in DOMAIN compiling : i = Len(compiling) \/ With(compiling, c)[i] = compiling[i]
    BY <1>1, <1>2, WithIs
  <2>3. 1 \in DOMAIN compiling
    BY <1>1
  <2> QED
    BY <2>1, <2>2, <2>3, <1>2
<1>4. Types'
  BY <1>3 DEF IInv, Types, Ids
<1>5. Table(program, specs)' /\ Compiled(program, specs, compiling)' /\ Framed(specs, frames)'
  BY <1>3 DEF IInv
<1>6. StageInv'
  <2>1. compiling' # <<>> /\ compiling'[1].id = compiling[1].id /\ status = "running"
    BY <1>1, <1>3 DEF Compiles
  <2> QED
    BY <2>1, <1>1 DEF IInv, StageInv, Top
<1> QED
  BY <1>3, <1>4, <1>5, <1>6 DEF IInv

LEMMA CompileFailsInv == ASSUME IInv, CompileFails PROVE IInv'
<1>1. /\ compiling' = <<>> /\ UNCHANGED <<program, specs, modules, frames, started, finished>>
      /\ status' = IF frames = <<>> THEN "failed" ELSE "raising"
  BY DEF CompileFails
<1>2. Types'
  BY <1>1 DEF IInv, Types, Ids
<1>3. Table(program, specs)' /\ Compiled(program, specs, compiling)' /\ Framed(specs, frames)'
  BY <1>1 DEF IInv, Compiled
<1>4. StageInv'
  BY <1>1 DEF IInv, StageInv
<1> QED
  BY <1>2, <1>3, <1>4 DEF IInv

LEMMA CallsGrow ==
  ASSUME NEW sp, NEW sp2, Grows(sp, sp2), NEW f, f.id \in DOMAIN sp, sp[f.id].compiled,
         NEW id \in DOMAIN sp, NEW by, CallsIt(sp, f, id, by)
  PROVE  CallsIt(sp2, f, id, by)
BY DEF CallsIt, At, Grows

LEMMA FrameFacts ==
  ASSUME IInv, frames # <<>>
  PROVE  /\ frames \in Seq(Frame) /\ Framed(specs, frames) /\ Len(frames) \in DOMAIN frames
         /\ Len(frames) \in Pos /\ DOMAIN frames = 1 .. Len(frames)
         /\ Top \in Frame /\ Top.id \in Ids /\ specs[Top.id].compiled
         /\ Top = frames[Len(frames)] /\ Top.id \in Pos /\ Top.pc \in Pos
         /\ Code(Top) \in Seq(Instruction)
         /\ Len(modules) = Len(specs) /\ DOMAIN modules = Ids /\ modules \in Seq(Module)
         /\ specs[1].compiled
<1>1. frames \in Seq(Frame) /\ Framed(specs, frames)
  BY DEF IInv, Types
<1>2. Len(frames) \in DOMAIN frames /\ Len(frames) \in Pos /\ DOMAIN frames = 1 .. Len(frames)
  BY <1>1
<1>3. Top \in Frame /\ Top = frames[Len(frames)]
  BY <1>1, <1>2 DEF Top
<1>4. Top.id \in Ids /\ specs[Top.id].compiled /\ Top.id \in Pos /\ Top.pc \in Pos
  BY <1>1, <1>2, <1>3 DEF Framed, Ids, Frame
<1>5. Code(Top) \in Seq(Instruction)
  BY <1>4, Facts DEF Code, Modspec
<1>6. Len(modules) = Len(specs) /\ modules \in Seq(Module) /\ specs \in Seq(Modspec)
      /\ specs[1].compiled
  BY DEF IInv, StageInv, Types
<1>7. DOMAIN modules = Ids
  BY <1>6 DEF Ids
<1> QED
  BY <1>1, <1>2, <1>3, <1>4, <1>5, <1>6, <1>7

(* A new modspec: the table, the files and the frames are as they were.      *)
LEMMA NewModspecKeeps ==
  ASSUME IInv, NEW n \in DOMAIN program, Named(n) = {}, NEW moved \in BOOLEAN,
         NewModspec(n, moved)
  PROVE  /\ specs' \in Seq(Modspec) /\ Table(program, specs') /\ Grows(specs, specs')
         /\ Len(specs') = Len(specs) + 1 /\ DOMAIN specs' = Ids \cup {Len(specs')}
         /\ Len(specs') \in Pos /\ Len(specs') \notin Ids
         /\ specs'[Len(specs')] = NotCompiled(n) /\ \A id \in Ids : specs'[id] = specs[id]
         /\ Compiled(program, specs', compiling)
         /\ frames' \in Seq(Frame) /\ Framed(specs', frames') /\ Len(frames') = Len(frames)
         /\ DOMAIN frames' = DOMAIN frames /\ (frames' = <<>> <=> frames = <<>>)
         /\ \A i \in DOMAIN frames :
              /\ frames'[i].id = frames[i].id /\ frames'[i].pc = frames[i].pc
              /\ frames'[i].by = frames[i].by /\ frames'[i].stale = (frames[i].stale \/ moved)
         /\ modules' \in Seq(Module)
         /\ modules' = IF modules = <<>> THEN modules ELSE Append(modules, Zeroed)
         /\ frames # <<>> => Len(modules') = Len(specs')
<1>1. specs \in Seq(Modspec) /\ Table(program, specs) /\ n \in Names
      /\ \A id \in DOMAIN specs : specs[id].name # n
  BY Facts DEF IInv, Named, Ids
<1>2. specs' = Append(specs, NotCompiled(n)) /\ GrowModules(moved)
  BY DEF NewModspec
<1>3. /\ specs' \in Seq(Modspec) /\ Table(program, specs') /\ Grows(specs, specs')
      /\ Len(specs') = Len(specs) + 1 /\ DOMAIN specs' = DOMAIN specs \cup {Len(specs) + 1}
      /\ specs'[Len(specs) + 1] = NotCompiled(n) /\ \A id \in DOMAIN specs : specs'[id] = specs[id]
      /\ Len(specs) \in Nat /\ DOMAIN specs = 1 .. Len(specs) /\ specs # <<>>
  <2>1. specs' = Adding(specs, n)
    BY <1>2 DEF Adding
  <2>2. specs # <<>> /\ Len(specs) \in Nat /\ DOMAIN specs = 1 .. Len(specs)
    BY <1>1 DEF Table
  <2>3. Table(program, Adding(specs, n))
    BY <1>1, SpecAdded
  <2> QED
    BY <2>1, <2>2, <2>3, <1>1, AddingIs
<1>4. Len(specs') \in Pos /\ Len(specs') \notin Ids
  BY <1>3 DEF Ids
<1>5. Compiled(program, specs', compiling)
  <2>1. Compiled(program, specs, compiling)
    BY DEF IInv
  <2>2. \A i \in DOMAIN compiling : compiling[i].id \in DOMAIN specs
    BY <2>1 DEF Compiled, FileOk
  <2> QED
    BY <2>1, <2>2, <1>3, FilesGrow DEF Grows
<1>6. frames \in Seq(Frame) /\ modules \in Seq(Module) /\ Framed(specs, frames)
  BY DEF IInv, Types
<1>7. /\ frames' \in Seq(Frame) /\ Len(frames') = Len(frames) /\ DOMAIN frames' = DOMAIN frames
      /\ \A i \in DOMAIN frames :
              /\ frames'[i].id = frames[i].id /\ frames'[i].pc = frames[i].pc
              /\ frames'[i].by = frames[i].by /\ frames'[i].stale = (frames[i].stale \/ moved)
  <2>1. /\ frames' = [i \in DOMAIN frames |-> [frames[i] EXCEPT !.stale = @ \/ moved]]
        /\ Len(frames) \in Nat /\ DOMAIN frames = 1 .. Len(frames)
    BY <1>2, <1>6 DEF GrowModules
  <2>2. ASSUME NEW i \in DOMAIN frames
        PROVE  /\ frames'[i] \in Frame
               /\ frames'[i].id = frames[i].id /\ frames'[i].pc = frames[i].pc
               /\ frames'[i].by = frames[i].by /\ frames'[i].stale = (frames[i].stale \/ moved)
    <3>1. frames[i] \in Frame /\ frames'[i] = [frames[i] EXCEPT !.stale = @ \/ moved]
      BY <2>1, <1>6
    <3>2. (frames[i].stale \/ moved) \in BOOLEAN
      OBVIOUS
    <3> QED
      BY <3>1, <3>2 DEF Frame
  <2>3. frames' \in Seq(Frame) /\ Len(frames') = Len(frames) /\ DOMAIN frames' = DOMAIN frames
    <3> DEFINE k == Len(frames)
               fs == frames'
    <3>1. fs \in [1 .. k -> Frame] /\ k \in Nat
      BY <2>1, <2>2
    <3> HIDE DEF k, fs
    <3>2. fs \in Seq(Frame) /\ Len(fs) = k
      BY <3>1
    <3> QED
      BY <3>2, <2>1 DEF k, fs
  <2> QED
    BY <2>2, <2>3
<1>8. Framed(specs', frames')
  <2>1. Framed(specs, frames')
    BY <1>6, <1>7, FramesStep
  <2> QED
    BY <2>1, <1>3, FramesGrow
<1>9. frames' = <<>> <=> frames = <<>>
  BY <1>6, <1>7
<1>10. /\ modules' = IF modules = <<>> THEN modules ELSE Append(modules, Zeroed)
       /\ modules' \in Seq(Module)
  <2>1. Zeroed \in Module
    BY DEF Zeroed, Module
  <2> QED
    BY <2>1, <1>2, <1>6 DEF GrowModules
<1>11. frames # <<>> => Len(modules') = Len(specs')
  <2> HAVE frames # <<>>
  <2>1. Len(modules) = Len(specs) /\ Len(specs) # 0
    BY <1>3, FrameFacts
  <2> QED
    BY <2>1, <1>3, <1>6, <1>10
<1> QED
  BY <1>3, <1>4, <1>5, <1>7, <1>8, <1>9, <1>10, <1>11 DEF Ids
-----------------------------------------------------------------------------
LEMMA ImportNewKeeps ==
  ASSUME IInv, ImportNew
  PROVE  \E n \in DOMAIN program, moved \in BOOLEAN :
           /\ Parses("import") /\ n = Source[Compiler.pos].arg
           /\ Named(n) = {} /\ NewModspec(n, moved)
           /\ compiling' = Append(compiling, CompileFrame(Len(specs')))
           /\ UNCHANGED <<program, status, started, finished>>
BY DEF ImportNew

LEMMA ImportNewInv ==
  ASSUME IInv, ImportNew
  PROVE  /\ IInv'
         /\ DOMAIN compiling' = DOMAIN compiling \cup {Len(compiling) + 1}
         /\ compiling'[Len(compiling) + 1].id = Len(specs')
         /\ compiling'[Len(compiling) + 1].code = <<>>
         /\ \A i \in DOMAIN compiling : compiling'[i] = compiling[i]
<1>1. PICK n \in DOMAIN program, moved \in BOOLEAN :
           /\ Parses("import") /\ n = Source[Compiler.pos].arg
           /\ Named(n) = {} /\ NewModspec(n, moved)
           /\ compiling' = Append(compiling, CompileFrame(Len(specs')))
           /\ UNCHANGED <<program, status, started, finished>>
  BY ImportNewKeeps
<1>2. /\ specs' \in Seq(Modspec) /\ Table(program, specs') /\ Grows(specs, specs')
      /\ DOMAIN specs' = Ids \cup {Len(specs')} /\ Len(specs') \in Pos
      /\ specs'[Len(specs')] = NotCompiled(n) /\ \A id \in Ids : specs'[id] = specs[id]
      /\ Compiled(program, specs', compiling) /\ Len(specs') = Len(specs) + 1
  BY <1>1, NewModspecKeeps
<1>3. /\ frames' \in Seq(Frame) /\ Framed(specs', frames') /\ Len(frames') = Len(frames)
      /\ DOMAIN frames' = DOMAIN frames /\ (frames' = <<>> <=> frames = <<>>)
      /\ \A i \in DOMAIN frames : frames'[i].id = frames[i].id /\ frames'[i].pc = frames[i].pc
      /\ modules' \in Seq(Module)
      /\ frames # <<>> => Len(modules') = Len(specs')
  BY <1>1, NewModspecKeeps
<1>4. /\ Compiles /\ Compiler.pos \in DOMAIN Source /\ Source[Compiler.pos].op = "import"
  BY <1>1, NextStatement
<1>5. /\ compiling \in Seq(File) /\ compiling # <<>> /\ Compiled(program, specs, compiling)
      /\ Compiler = compiling[Len(compiling)] /\ Compiler.id \in Ids
      /\ Source = program[specs[Compiler.id].name] /\ status = "running"
  BY <1>4, CurrentFile
<1>6. /\ Ids = 1 .. Len(specs) /\ Len(specs) \in Pos /\ DOMAIN program \subseteq Names
      /\ program[n] \in Seq(Statement)
  BY Facts, ProgramsAssumption
<1>7. \A i \in DOMAIN compiling : compiling[i].id \in Ids
  BY <1>5 DEF Compiled, FileOk, Ids
<1>8. \A i \in DOMAIN compiling : compiling[i].id < Len(specs')
  BY <1>2, <1>6, <1>7
<1>9. NotCompiled(n).name = n /\ ~NotCompiled(n).compiled
  BY DEF NotCompiled
<1>10. WaitsFor(program, specs', compiling[Len(compiling)], Len(specs'))
  BY <1>1, <1>2, <1>4, <1>5, <1>9 DEF WaitsFor
<1>11. /\ compiling' \in Seq(File) /\ Compiled(program, specs', compiling')
       /\ DOMAIN compiling' = DOMAIN compiling \cup {Len(compiling) + 1}
       /\ compiling'[Len(compiling) + 1].id = Len(specs')
       /\ compiling'[Len(compiling) + 1].code = <<>>
       /\ \A i \in DOMAIN compiling : compiling'[i] = compiling[i]
  <2> DEFINE sp == specs'
             id == Len(specs')
             cs == compiling'
  <2>1. /\ id \in DOMAIN sp /\ id \in Pos /\ program[sp[id].name] \in Seq(Statement)
        /\ ~sp[id].compiled /\ cs = Pushed(compiling, id)
        /\ compiling \in Seq(File) /\ Compiled(program, sp, compiling)
        /\ \A i \in DOMAIN compiling : compiling[i].id < id
        /\ WaitsFor(program, sp, compiling[Len(compiling)], id)
    BY <1>1, <1>2, <1>5, <1>6, <1>8, <1>9, <1>10 DEF Pushed
  <2> HIDE DEF sp, id, cs
  <2>2. Compiled(program, sp, cs)
    BY <2>1, FilesPush
  <2>3. /\ cs \in Seq(File) /\ DOMAIN cs = DOMAIN compiling \cup {Len(compiling) + 1}
        /\ cs[Len(compiling) + 1] = CompileFrame(id)
        /\ \A i \in DOMAIN compiling : cs[i] = compiling[i]
    BY <2>1, PushedIs
  <2>4. CompileFrame(id).id = id /\ CompileFrame(id).code = <<>>
    BY DEF CompileFrame
  <2>5. /\ cs \in Seq(File) /\ Compiled(program, sp, cs)
        /\ DOMAIN cs = DOMAIN compiling \cup {Len(compiling) + 1}
        /\ cs[Len(compiling) + 1].id = id /\ cs[Len(compiling) + 1].code = <<>>
        /\ \A i \in DOMAIN compiling : cs[i] = compiling[i]
    BY <2>2, <2>3, <2>4
  <2> QED
    BY <2>5 DEF sp, id, cs
<1>12. Types'
  BY <1>1, <1>2, <1>3, <1>11 DEF IInv, Types, Ids
<1>13. Table(program, specs)' /\ Compiled(program, specs, compiling)' /\ Framed(specs, frames)'
  BY <1>1, <1>2, <1>3, <1>11
<1>14. StageInv'
  <2>1. 1 \in DOMAIN compiling /\ 1 \in Ids
    BY <1>5, <1>6
  <2>2. compiling'[1] = compiling[1] /\ compiling' # <<>> /\ status' = "running"
        /\ specs'[1] = specs[1]
    <3>1. DOMAIN compiling' # {} /\ compiling'[1] = compiling[1]
      BY <2>1, <1>11
    <3>2. compiling' # <<>>
      BY <3>1
    <3>3. specs'[1] = specs[1] /\ status' = "running"
      BY <2>1, <1>1, <1>2, <1>5
    <3> QED
      BY <3>1, <3>2, <3>3
  <2>3. frames # <<>> => CallsIt(specs', Top', compiling[1].id, "run")
    <3> HAVE frames # <<>>
    <3>1. CallsIt(specs, Top, compiling[1].id, "run")
      BY <1>5 DEF IInv, StageInv
    <3>2. Top.id \in Ids /\ specs[Top.id].compiled /\ Len(frames) \in DOMAIN frames
          /\ Top = frames[Len(frames)]
      BY FrameFacts
    <3>3. CallsIt(specs', Top, compiling[1].id, "run")
      BY <3>1, <3>2, <2>1, <1>2, <1>7, CallsGrow DEF Ids
    <3>4. Top'.id = Top.id /\ Top'.pc = Top.pc
      BY <3>2, <1>3 DEF Top
    <3> QED
      BY <3>3, <3>4 DEF CallsIt, At
  <2> QED
    BY <2>2, <2>3, <1>1, <1>3 DEF IInv, StageInv
<1> QED
  BY <1>11, <1>12, <1>13, <1>14 DEF IInv
-----------------------------------------------------------------------------
(* The instruction the innermost frame stands at.                          *)
LEMMA InstrFacts ==
  ASSUME IInv, frames # <<>>, Top.pc <= Len(Code(Top))
  PROVE  /\ Top.pc \in DOMAIN Code(Top) /\ Instr \in Instruction
         /\ Instr = Code(Top)[Top.pc] /\ Instr = At(specs, Top)
         /\ Instr.op = "import" => Instr.id \in Ids /\ specs[Instr.id].name = Instr.arg
<1>1. Code(Top) \in Seq(Instruction) /\ Top.pc \in Pos /\ Top.id \in Ids /\ specs[Top.id].compiled
  BY FrameFacts
<1>2. Top.pc \in DOMAIN Code(Top)
  BY <1>1
<1>3. Instr = Code(Top)[Top.pc] /\ Instr \in Instruction /\ Instr = At(specs, Top)
  BY <1>1, <1>2 DEF Instr, At, Code
<1>4. Translates(program, specs, specs[Top.id].name, Code(Top), Len(program[specs[Top.id].name]) + 1)
  BY <1>1 DEF IInv, Table, Ids, Code
<1>5. Instr.op = "import" => Instr.id \in Ids /\ specs[Instr.id].name = Instr.arg
  BY <1>2, <1>3, <1>4 DEF Translates, Ids
<1> QED
  BY <1>2, <1>3, <1>5

(* The first file of a compilation, known or new.                          *)
LEMMA FirstFile ==
  ASSUME NEW p, NEW sp, NEW id \in DOMAIN sp, id \in Pos, p[sp[id].name] \in Seq(Statement)
  PROVE  Compiled(p, sp, <<CompileFrame(id)>>)
<1>1. <<CompileFrame(id)>> = Pushed(<<>>, id)
  <2> DEFINE c == CompileFrame(id)
  <2>1. c \in File
    BY DEF CompileFrame, File
  <2> HIDE DEF c
  <2>2. <<c>> = Append(<<>>, c)
    BY <2>1
  <2> QED
    BY <2>2 DEF Pushed, c
<1>3. Compiled(p, sp, <<>>) /\ <<>> \in Seq(File) /\ DOMAIN <<>> = {}
  BY DEF Compiled
<1>4. Compiled(p, sp, Pushed(<<>>, id))
  BY <1>3, FilesPush
<1> QED
  BY <1>1, <1>4

LEMMA DynamicImportInv ==
  ASSUME IInv, DynamicImport
  PROVE  /\ IInv' /\ DOMAIN compiling' = {1} /\ compiling'[1].id \in DOMAIN specs'
         /\ compiling'[1].code = <<>> /\ specs'[compiling'[1].id].name = Instr.arg
<1>1. /\ Runs /\ Top.pc <= Len(Code(Top)) /\ Instr.op = "import_" /\ Instr.arg \in DOMAIN program
      /\ status = "running" /\ compiling = <<>> /\ frames # <<>>
      /\ UNCHANGED <<program, status, started, finished>>
  BY DEF DynamicImport, Executes, Runs
<1>2. /\ Top.pc \in DOMAIN Code(Top) /\ Instr = At(specs, Top) /\ Len(frames) \in DOMAIN frames
      /\ Top = frames[Len(frames)] /\ Top.id \in Ids /\ specs[Top.id].compiled
      /\ specs[1].compiled
  BY <1>1, InstrFacts, FrameFacts
<1>3. Ids = 1 .. Len(specs) /\ Len(specs) \in Pos /\ program[Instr.arg] \in Seq(Statement)
  BY <1>1, Facts, ProgramsAssumption
<1>4. /\ \E id \in DOMAIN specs' : /\ specs'[id].name = Instr.arg
                                   /\ id \in Pos /\ compiling' = <<CompileFrame(id)>>
      /\ specs' \in Seq(Modspec) /\ Table(program, specs') /\ Grows(specs, specs')
      /\ modules' \in Seq(Module) /\ Len(modules') = Len(specs')
      /\ frames' \in Seq(Frame) /\ Framed(specs', frames')
      /\ Len(frames') = Len(frames) /\ frames' # <<>>
      /\ \A i \in DOMAIN frames : frames'[i].id = frames[i].id /\ frames'[i].pc = frames[i].pc
  <2>1. CASE Named(Instr.arg) = {}
    <3>1. PICK moved \in BOOLEAN : NewModspec(Instr.arg, moved)
      BY <1>1, <2>1 DEF DynamicImport
    <3>2. compiling' = <<CompileFrame(Len(specs'))>>
      BY <2>1 DEF DynamicImport
    <3>3. /\ specs' \in Seq(Modspec) /\ Table(program, specs') /\ Grows(specs, specs')
          /\ DOMAIN specs' = Ids \cup {Len(specs')} /\ Len(specs') \in Pos
          /\ specs'[Len(specs')] = NotCompiled(Instr.arg)
      BY <1>1, <2>1, <3>1, NewModspecKeeps
    <3>4. /\ frames' \in Seq(Frame) /\ Framed(specs', frames') /\ Len(frames') = Len(frames)
          /\ (frames' = <<>> <=> frames = <<>>)
          /\ \A i \in DOMAIN frames : frames'[i].id = frames[i].id /\ frames'[i].pc = frames[i].pc
          /\ modules' \in Seq(Module)
          /\ frames # <<>> => Len(modules') = Len(specs')
      BY <1>1, <2>1, <3>1, NewModspecKeeps
    <3>5. NotCompiled(Instr.arg).name = Instr.arg
      BY DEF NotCompiled
    <3> QED
      BY <1>1, <3>2, <3>3, <3>4, <3>5
  <2>2. CASE Named(Instr.arg) # {}
    <3>1. PICK id \in Named(Instr.arg) : compiling' = <<CompileFrame(id)>>
      BY <2>2 DEF DynamicImport
    <3>2. UNCHANGED <<specs, modules, frames>>
      BY <2>2 DEF DynamicImport
    <3>3. id \in Ids /\ id \in Pos /\ specs[id].name = Instr.arg
      BY <1>3, <3>1 DEF Named
    <3>4. Grows(specs, specs)
      BY DEF Grows
    <3>5. Len(modules) = Len(specs)
      BY <1>1, FrameFacts
    <3> QED
      BY <1>1, <3>1, <3>2, <3>3, <3>4, <3>5 DEF IInv, Types, Ids
  <2> QED
    BY <2>1, <2>2
<1>5. PICK id \in DOMAIN specs' : /\ specs'[id].name = Instr.arg
                                  /\ id \in Pos /\ compiling' = <<CompileFrame(id)>>
  BY <1>4
<1>6. /\ compiling' \in Seq(File) /\ Compiled(program, specs', compiling')
      /\ DOMAIN compiling' = {1} /\ compiling'[1].id = id /\ compiling'[1].code = <<>>
  <2> DEFINE sp == specs'
             cs == compiling'
  <2>1. /\ id \in DOMAIN sp /\ id \in Pos /\ program[sp[id].name] \in Seq(Statement)
        /\ cs = <<CompileFrame(id)>>
    BY <1>3, <1>5
  <2> HIDE DEF sp, cs
  <2>2. Compiled(program, sp, <<CompileFrame(id)>>)
    BY <2>1, FirstFile
  <2>3. /\ CompileFrame(id) \in File /\ CompileFrame(id).id = id
        /\ CompileFrame(id).code = <<>>
    BY <2>1 DEF CompileFrame, File
  <2>4. /\ cs \in Seq(File) /\ Compiled(program, sp, cs)
        /\ DOMAIN cs = {1} /\ cs[1].id = id /\ cs[1].code = <<>>
    BY <2>1, <2>2, <2>3
  <2> QED
    BY <2>4 DEF sp, cs
<1>7. Types'
  BY <1>1, <1>4, <1>6 DEF IInv, Types, Ids, Grows
<1>8. Table(program, specs)' /\ Compiled(program, specs, compiling)' /\ Framed(specs, frames)'
  BY <1>1, <1>4, <1>6
<1>9. StageInv'
  <2>1. Top'.id = Top.id /\ Top'.pc = Top.pc
    BY <1>2, <1>4 DEF Top
  <2>2. specs'[Top.id] = specs[Top.id] /\ specs'[1].compiled
    BY <1>2, <1>3, <1>4 DEF Grows, Ids
  <2>3. CallsIt(specs', Top', id, "run")
    BY <1>1, <1>2, <1>5, <2>1, <2>2 DEF CallsIt, At, Code
  <2>4. frames' # <<>> /\ status' = "running" /\ Len(modules') = Len(specs')
    BY <1>1, <1>4
  <2> QED
    BY <1>6, <2>2, <2>3, <2>4 DEF StageInv
<1> QED
  BY <1>5, <1>6, <1>7, <1>8, <1>9 DEF IInv
-----------------------------------------------------------------------------
BodyFrame(id, by) == [id |-> id, pc |-> 1, by |-> by, stale |-> FALSE]
Entered(s, id) ==
  [i \in DOMAIN s \cup {id} |-> IF i \in DOMAIN s THEN s[i] + (IF i = id THEN 1 ELSE 0) ELSE 1]

(* A body is entered, or the limit on the depth is reached.                *)
LEMMA EvaluateKeeps ==
  ASSUME IInv, NEW id \in Pos, NEW by, NEW ms, Evaluate(id, by, ms)
  PROVE  /\ \/ /\ Len(frames) + 1 < MaxDepth /\ modules' = ms
               /\ frames' = Append(frames, BodyFrame(id, by))
               /\ started' = Entered(started, id) /\ UNCHANGED <<status, finished>>
            \/ /\ ~(Len(frames) + 1 < MaxDepth) /\ frames # <<>> /\ status' = "raising"
               /\ modules' = [ms EXCEPT ![id].evaluated = TRUE]
               /\ UNCHANGED <<frames, started, finished>>
         /\ started' \in [DOMAIN started' -> Nat]
         /\ DOMAIN started' \subseteq DOMAIN started \cup {id}
         /\ finished' = finished
<1>1. frames = <<>> => Len(frames) + 1 < MaxDepth
  BY ProgramsAssumption
<1>2. started \in [DOMAIN started -> Nat]
  BY DEF IInv, Types
<1>3. Entered(started, id) \in [DOMAIN started \cup {id} -> Nat]
  BY <1>2 DEF Entered
<1>4. CASE Len(frames) + 1 < MaxDepth
  BY <1>3, <1>4 DEF Evaluate, BodyFrame, Entered
<1>5. CASE ~(Len(frames) + 1 < MaxDepth)
  BY <1>1, <1>2, <1>5 DEF Evaluate
<1> QED
  BY <1>4, <1>5

LEMMA EvaluateInv ==
  ASSUME IInv, NEW id \in Pos, NEW by \in {"run", "import"}, NEW ms \in Seq(Module),
         Evaluate(id, by, ms), status = "running", compiling' = <<>>, program' = program,
         specs' \in Seq(Modspec), Table(program, specs'), Grows(specs, specs'),
         id \in DOMAIN specs', specs'[id].compiled, specs'[1].compiled,
         Len(ms) = Len(specs'), frames = <<>> => by = "run",
         frames # <<>> => CallsIt(specs', Top, id, by)
  PROVE  IInv'
<1>1. /\ frames \in Seq(Frame) /\ Framed(specs, frames) /\ finished \subseteq Ids
      /\ DOMAIN started \subseteq Ids
  BY DEF IInv, Types
<1>2. Framed(specs', frames)
  <2> DEFINE sp2 == specs'
  <2>1. Grows(specs, sp2)
    OBVIOUS
  <2> HIDE DEF sp2
  <2>2. Framed(sp2, frames)
    BY <2>1, <1>1, FramesGrow
  <2> QED
    BY <2>2 DEF sp2
<1>3. BodyFrame(id, by) \in Frame /\ BodyFrame(id, by).id = id /\ BodyFrame(id, by).by = by
  BY DEF BodyFrame, Frame
<1>4. /\ frames' \in Seq(Frame) /\ frames' # <<>> /\ Framed(specs', frames')
      /\ status' \in {"running", "raising"} /\ modules' \in Seq(Module)
      /\ Len(modules') = Len(specs')
  <2>1. CASE /\ Len(frames) + 1 < MaxDepth /\ modules' = ms
             /\ frames' = Append(frames, BodyFrame(id, by))
             /\ started' = Entered(started, id) /\ UNCHANGED <<status, finished>>
    <3> DEFINE f == BodyFrame(id, by)
               sp == specs'
               fs == frames'
    <3>1. fs = Append(frames, f) /\ f \in Frame /\ f.id = id /\ f.by = by
      BY <2>1, <1>3
    <3>2. id \in DOMAIN sp /\ sp[id].compiled /\ Framed(sp, frames)
          /\ (frames # <<>> => CallsIt(sp, frames[Len(frames)], f.id, f.by))
      BY <1>2, <1>3 DEF Top
    <3> HIDE DEF f, sp, fs
    <3>3. fs \in Seq(Frame) /\ fs # <<>>
      BY <3>1, <1>1
    <3>4. Framed(sp, fs)
      BY <3>1, <3>2, <1>1, FramesPush
    <3> QED
      BY <3>3, <3>4, <2>1 DEF sp, fs
  <2>2. CASE /\ ~(Len(frames) + 1 < MaxDepth) /\ frames # <<>> /\ status' = "raising"
             /\ modules' = [ms EXCEPT ![id].evaluated = TRUE]
             /\ UNCHANGED <<frames, started, finished>>
    <3>1. [ms EXCEPT ![id].evaluated = TRUE] \in Seq(Module)
          /\ Len([ms EXCEPT ![id].evaluated = TRUE]) = Len(ms)
      <4>1. id \in DOMAIN ms /\ ms[id] \in Module
        OBVIOUS
      <4>2. [ms[id] EXCEPT !.evaluated = TRUE] \in Module
        BY <4>1 DEF Module
      <4> QED
        BY <4>1, <4>2
    <3> QED
      BY <3>1, <2>2, <1>1, <1>2
  <2> QED
    BY <2>1, <2>2, EvaluateKeeps
<1>5. Types'
  <2>1. /\ started' \in [DOMAIN started' -> Nat]
        /\ DOMAIN started' \subseteq DOMAIN started \cup {id} /\ finished' = finished
    BY EvaluateKeeps
  <2>2. Ids \subseteq Ids' /\ id \in Ids' /\ program' \in Programs
    BY DEF Grows, Ids, IInv, Types
  <2>3. compiling' \in Seq(File)
    OBVIOUS
  <2> QED
    BY <2>1, <2>2, <2>3, <1>1, <1>4 DEF Types
<1>6. Table(program, specs)' /\ Compiled(program, specs, compiling)' /\ Framed(specs, frames)'
  BY <1>4 DEF Compiled
<1>7. StageInv'
  BY <1>4 DEF StageInv
<1> QED
  BY <1>5, <1>6, <1>7 DEF IInv

LEMMA InitialisedIs ==
  ASSUME NEW ms \in Seq(Module), NEW id \in DOMAIN ms
  PROVE  /\ Initialised(ms, id) \in Seq(Module) /\ Len(Initialised(ms, id)) = Len(ms)
         /\ \A i \in DOMAIN ms : Initialised(ms, id)[i].evaluated = ms[i].evaluated
<1>1. Inited \in Module /\ Zeroed.evaluated = Inited.evaluated
  BY DEF Inited, Zeroed, Module
<1> QED
  BY <1>1 DEF Initialised

LEMMA ImportModuleInv == ASSUME IInv, ImportModule PROVE IInv'
<1>1. /\ Runs /\ Top.pc <= Len(Code(Top)) /\ Instr.op = "import"
      /\ status = "running" /\ compiling = <<>> /\ frames # <<>>
      /\ UNCHANGED <<program, specs, compiling>>
  BY DEF ImportModule, Executes, Runs
<1>2. Instr.id \in Ids /\ Top.pc \in DOMAIN Code(Top) /\ Instr = At(specs, Top)
  BY <1>1, InstrFacts
<1>3. modules \in Seq(Module) /\ Len(modules) = Len(specs) /\ Ids = 1 .. Len(specs)
      /\ specs[1].compiled /\ DOMAIN modules = Ids
  BY <1>1, FrameFacts, Facts
<1>4. CASE specs[Instr.id].compiled
  <2>1. Evaluate(Instr.id, "import", Initialised(modules, Instr.id))
    BY <1>4 DEF ImportModule
  <2>2. CallsIt(specs, Top, Instr.id, "import")
    BY <1>1, <1>2 DEF CallsIt, Code
  <2>3. Initialised(modules, Instr.id) \in Seq(Module)
        /\ Len(Initialised(modules, Instr.id)) = Len(specs)
    BY <1>2, <1>3, InitialisedIs
  <2>4. Grows(specs, specs)
    BY DEF Grows
  <2>5. Instr.id \in Pos
    BY <1>2, <1>3
  <2>6. /\ specs' \in Seq(Modspec) /\ Table(program, specs') /\ Grows(specs, specs')
        /\ Instr.id \in DOMAIN specs' /\ specs'[Instr.id].compiled /\ specs'[1].compiled
        /\ Len(Initialised(modules, Instr.id)) = Len(specs')
        /\ CallsIt(specs', Top, Instr.id, "import") /\ compiling' = <<>> /\ program' = program
    BY <1>1, <1>2, <1>3, <1>4, <2>2, <2>3, <2>4 DEF IInv, Types, Ids
  <2> QED
    BY <1>1, <2>1, <2>3, <2>5, <2>6, EvaluateInv
<1>5. CASE ~specs[Instr.id].compiled
  <2>1. status' = "aborted" /\ UNCHANGED <<modules, frames, started, finished>>
    BY <1>5 DEF ImportModule
  <2> QED
    BY <1>1, <2>1 DEF IInv, Types, StageInv, Ids
<1> QED
  BY <1>4, <1>5
-----------------------------------------------------------------------------
(* The end of a file whose code was not set before.                        *)
LEMMA CompileEndSets ==
  ASSUME IInv, CompileEnd, ~specs[Compiler.id].compiled
  PROVE  /\ specs' \in Seq(Modspec) /\ Table(program, specs') /\ Grows(specs, specs')
         /\ DOMAIN specs' = DOMAIN specs /\ Len(specs') = Len(specs)
         /\ specs'[Compiler.id].compiled /\ specs'[Compiler.id].code = Compiler.code
         /\ \A i \in DOMAIN specs : i # Compiler.id => specs'[i] = specs[i]
<1>1. Compiles /\ Compiler.pos > Len(Source)
      /\ specs' = [specs EXCEPT ![Compiler.id].compiled = TRUE, ![Compiler.id].code = Compiler.code]
  BY DEF CompileEnd
<1>2. /\ Compiler \in File /\ Compiler.id \in Ids /\ FileOk(program, specs, Compiler)
      /\ Source = program[specs[Compiler.id].name] /\ Source \in Seq(Statement)
  BY <1>1, CurrentFile
<1>3. Compiler.pos = Len(Source) + 1
  BY <1>1, <1>2 DEF FileOk, File
<1>4. Translates(program, specs, specs[Compiler.id].name, Compiler.code,
                 Len(program[specs[Compiler.id].name]) + 1)
  BY <1>2, <1>3 DEF FileOk
<1> DEFINE sp == specs'
<1>5. sp = Coded(specs, Compiler.id, Compiler.code)
  BY <1>1 DEF Coded
<1>6. /\ specs \in Seq(Modspec) /\ Table(program, specs) /\ Compiler.id \in DOMAIN specs
      /\ Compiler.code \in Seq(Instruction)
  BY <1>2 DEF IInv, Types, Ids, File
<1> HIDE DEF sp
<1>7. /\ sp \in Seq(Modspec) /\ Table(program, sp) /\ Grows(specs, sp)
      /\ DOMAIN sp = DOMAIN specs /\ Len(sp) = Len(specs)
      /\ sp[Compiler.id].compiled /\ sp[Compiler.id].code = Compiler.code
      /\ \A i \in DOMAIN specs : i # Compiler.id => sp[i] = specs[i]
  BY <1>4, <1>5, <1>6, CodedIs, CodeSet
<1> QED
  BY <1>7 DEF sp

(* The file that imports it goes on.                                       *)
LEMMA ImporterGoesOn ==
  ASSUME IInv, CompileEnd, ~specs[Compiler.id].compiled, Len(compiling) # 1
  PROVE  /\ IInv' /\ Len(compiling) - 1 \in Pos
         /\ DOMAIN compiling = 1 .. Len(compiling)
         /\ DOMAIN compiling' = 1 .. Len(compiling) - 1
         /\ \A i \in DOMAIN compiling' : compiling'[i].id = compiling[i].id
         /\ \A i \in DOMAIN compiling' : i # Len(compiling) - 1 => compiling'[i] = compiling[i]
         /\ compiling'[Len(compiling) - 1] =
              Extended(program, specs, compiling[Len(compiling) - 1], "import", Compiler.id)
         /\ UNCHANGED <<program, modules, frames, status, started, finished>>
<1>1. /\ Compiles /\ compiling' = AppendImport(Front(compiling), Compiler.id)
      /\ UNCHANGED <<program, modules, frames, status, started, finished>>
  BY DEF CompileEnd
<1>2. /\ Compiler \in File /\ Compiler.id \in Ids /\ status = "running"
      /\ compiling \in Seq(File) /\ compiling # <<>> /\ Compiled(program, specs, compiling)
      /\ Compiler = compiling[Len(compiling)]
  BY <1>1, CurrentFile
<1>3. /\ specs' \in Seq(Modspec) /\ Table(program, specs') /\ Grows(specs, specs')
      /\ DOMAIN specs' = DOMAIN specs /\ Len(specs') = Len(specs)
      /\ \A i \in DOMAIN specs : i # Compiler.id => specs'[i] = specs[i]
  BY CompileEndSets
<1> DEFINE cs == Front(compiling)
           k == Len(cs)
           c == Extended(program, specs, cs[k], "import", Compiler.id)
           sp == specs'
<1>4. /\ cs \in Seq(File) /\ cs # <<>> /\ Compiled(program, specs, cs)
      /\ k \in Pos /\ Len(compiling) = k + 1
      /\ DOMAIN cs = 1 .. k /\ DOMAIN compiling = 1 .. k + 1
      /\ \A i \in DOMAIN cs : cs[i] = compiling[i]
  <2>1. /\ cs \in Seq(File) /\ k \in Nat /\ Len(compiling) = k + 1
        /\ DOMAIN cs = 1 .. k /\ DOMAIN compiling = 1 .. k + 1
        /\ \A i \in DOMAIN cs : cs[i] = compiling[i]
    BY <1>2, FrontOfFiles
  <2>2. k \in Pos /\ cs # <<>>
    BY <2>1
  <2> QED
    BY <2>1, <2>2, <1>2, FilesPop
<1>5. WaitsFor(program, specs, cs[k], compiling[Len(compiling)].id)
  BY <1>2, FilesPop
<1>6. compiling' = With(cs, c)
  <2>1. Marked(Appended(program, specs, cs, "import", Compiler.id), Len(cs), {specs[Compiler.id].name})
          = With(cs, c)
    BY <1>4, ImportIs
  <2> HIDE DEF cs, c
  <2>2. Appended(program, specs, cs, "import", Compiler.id) = Append1(cs, "import", Compiler.id)
    BY DEF Appended, Append1
  <2>3. [Append1(cs, "import", Compiler.id) EXCEPT
                ![Len(cs)].imported = @ \cup {specs[Compiler.id].name}] = AppendImport(cs, Compiler.id)
    BY DEF AppendImport
  <2>4. AppendImport(cs, Compiler.id) = With(cs, c)
    BY <2>1, <2>2, <2>3 DEF Marked
  <2> QED
    BY <2>4, <1>1 DEF cs
<1> HIDE DEF cs, sp, k
<1>7. /\ cs[k] \in File /\ FileOk(program, specs, cs[k]) /\ k = Len(cs)
      /\ program[specs[cs[k].id].name] \in Seq(Statement)
  BY <1>4, LastFile DEF k
<1>8. FileOk(program, specs, c) /\ c \in File
  <2>1. /\ cs[k].pos \in DOMAIN program[specs[cs[k].id].name]
        /\ program[specs[cs[k].id].name][cs[k].pos].op = "import"
        /\ specs[Compiler.id].name = program[specs[cs[k].id].name][cs[k].pos].arg
        /\ Compiler.id \in DOMAIN specs /\ Compiler.id \in Nat
    BY <1>2, <1>5 DEF WaitsFor, Ids, File
  <2> QED
    BY <2>1, <1>7, FileExtends
<1>9. c.id = cs[Len(cs)].id
  BY <1>7 DEF Extended
<1>10. /\ With(cs, c) \in Seq(File) /\ DOMAIN With(cs, c) = DOMAIN cs
       /\ With(cs, c)[Len(cs)] = c
       /\ \A i \in DOMAIN cs : i = Len(cs) \/ With(cs, c)[i] = cs[i]
  BY <1>4, <1>8, WithIs
<1>11. Compiled(program, specs, With(cs, c))
  BY <1>4, <1>8, <1>9, FileSteps
<1>12. \A i \in DOMAIN cs : With(cs, c)[i].id = cs[i].id
  BY <1>9, <1>10
<1>13. \A i \in DOMAIN cs : cs[i].id # Compiler.id /\ cs[i].id \in DOMAIN specs
  <2> SUFFICES ASSUME NEW i \in DOMAIN cs
               PROVE  cs[i].id # Compiler.id /\ cs[i].id \in DOMAIN specs
    OBVIOUS
  <2>1. i \in DOMAIN compiling /\ k + 1 \in DOMAIN compiling /\ i < k + 1 /\ cs[i] = compiling[i]
    BY <1>4
  <2>2. compiling[i].id < Compiler.id /\ compiling[i].id \in DOMAIN specs
    BY <2>1, <1>2, <1>4 DEF Compiled, FileOk
  <2>3. Compiler.id \in Nat
    BY <1>2 DEF File
  <2>4. cs[i].id < Compiler.id
    BY <2>1, <2>2
  <2> QED
    BY <2>1, <2>2, <2>3, <2>4
<1>14. Compiled(program, sp, With(cs, c))
  <2>1. \A i \in DOMAIN With(cs, c) :
          sp[With(cs, c)[i].id].compiled = specs[With(cs, c)[i].id].compiled
    BY <1>3, <1>10, <1>12, <1>13 DEF sp
  <2>2. DOMAIN specs \subseteq DOMAIN sp /\ \A id \in DOMAIN specs : sp[id].name = specs[id].name
    BY <1>3 DEF Grows, sp
  <2> QED
    BY <2>1, <2>2, <1>11, FilesGrow
<1>15. Types'
  BY <1>1, <1>3, <1>6, <1>10 DEF IInv, Types, Ids
<1>16. Framed(specs, frames)'
  <2>1. Framed(specs, frames) /\ Grows(specs, sp)
    BY <1>3 DEF IInv, sp
  <2>2. Framed(sp, frames)
    BY <2>1, FramesGrow
  <2> QED
    BY <2>2, <1>1 DEF sp
<1>17. 1 \in DOMAIN cs /\ compiling'[1].id = compiling[1].id /\ compiling' # <<>>
  <2>1. 1 \in DOMAIN cs /\ DOMAIN compiling' = DOMAIN cs
    BY <1>4, <1>6, <1>10
  <2>2. compiling'[1].id = compiling[1].id
    BY <2>1, <1>4, <1>6, <1>12
  <2>3. compiling' # <<>>
    BY <2>1
  <2> QED
    BY <2>1, <2>2, <2>3
<1>18. StageInv'
  <2>1. frames # <<>> => specs'[1].compiled
    <3> HAVE frames # <<>>
    <3>1. specs[1].compiled /\ 1 \in DOMAIN specs
      BY FrameFacts, Facts DEF Ids
    <3> QED
      BY <3>1, <1>3 DEF Grows
  <2>2. frames # <<>> => CallsIt(specs', Top, compiling[1].id, "run")
    <3> HAVE frames # <<>>
    <3>1. CallsIt(specs, Top, compiling[1].id, "run")
      BY <1>2 DEF IInv, StageInv
    <3>2. Top.id \in DOMAIN specs /\ specs[Top.id].compiled
      BY FrameFacts DEF Ids
    <3>3. compiling[1].id \in DOMAIN specs
      BY <1>4, <1>13, <1>17
    <3>4. CallsIt(sp, Top, compiling[1].id, "run")
      <4>1. Grows(specs, sp)
        BY <1>3 DEF sp
      <4> QED
        BY <4>1, <3>1, <3>2, <3>3, CallsGrow
    <3> QED
      BY <3>4 DEF sp
  <2>3. Top' = Top
    BY <1>1 DEF Top
  <2> QED
    BY <2>1, <2>2, <2>3, <1>1, <1>2, <1>3, <1>17 DEF IInv, StageInv
<1>19. IInv'
  BY <1>1, <1>3, <1>6, <1>14, <1>15, <1>16, <1>18 DEF IInv, sp
<1>20. Len(compiling) - 1 = k
  BY <1>4
<1> HIDE DEF c
<1>21. compiling'[k] = c /\ c = Extended(program, specs, compiling[k], "import", Compiler.id)
  <2>1. k \in DOMAIN cs
    BY <1>4
  <2> QED
    BY <2>1, <1>4, <1>6, <1>7, <1>10 DEF c
<1> QED
  BY <1>1, <1>4, <1>6, <1>7, <1>10, <1>12, <1>19, <1>20, <1>21

(* The outermost file is run.                                              *)
Bodies == IF frames = <<>> THEN [i \in Ids |-> Inited] ELSE Initialised(modules, Compiler.id)

LEMMA OutermostRuns ==
  ASSUME IInv, CompileEnd, ~specs[Compiler.id].compiled, Len(compiling) = 1
  PROVE  /\ IInv' /\ compiling' = <<>> /\ program' = program /\ Compiler = compiling[1]
         /\ Compiler.id \in Pos /\ Evaluate(Compiler.id, "run", Bodies)
         /\ Len(Bodies) = Len(specs) /\ DOMAIN Bodies = Ids
         /\ \A i \in Ids : Bodies[i].evaluated =
              (IF frames = <<>> THEN FALSE ELSE modules[i].evaluated)
<1>1. Compiles /\ compiling' = <<>> /\ Run(Compiler.id) /\ program' = program
  BY DEF CompileEnd
<1>2. /\ Compiler.id \in Ids /\ status = "running" /\ Compiler.id \in Pos
      /\ compiling # <<>> /\ Compiled(program, specs, compiling)
      /\ Compiler = compiling[1]
  BY <1>1, CurrentFile DEF File
<1>3. /\ specs' \in Seq(Modspec) /\ Table(program, specs') /\ Grows(specs, specs')
      /\ DOMAIN specs' = DOMAIN specs /\ Len(specs') = Len(specs)
      /\ specs'[Compiler.id].compiled
  BY CompileEndSets
<1>4. Evaluate(Compiler.id, "run", Bodies)
  BY <1>1 DEF Run, Bodies
<1>5. Ids = 1 .. Len(specs) /\ Len(specs) \in Pos
  BY Facts
<1>6. /\ Bodies \in Seq(Module) /\ Len(Bodies) = Len(specs)
      /\ \A i \in Ids : Bodies[i].evaluated =
              (IF frames = <<>> THEN FALSE ELSE modules[i].evaluated)
  <2>1. CASE frames = <<>>
    <3>1. Inited \in Module /\ ~Inited.evaluated
      BY DEF Inited, Module
    <3> DEFINE n == Len(specs)
               ms == [i \in 1 .. n |-> Inited]
    <3>2. Bodies = ms
      BY <1>5, <2>1 DEF Bodies
    <3>3. n \in Nat
      BY <1>5
    <3> HIDE DEF n
    <3>4. ms \in Seq(Module) /\ Len(ms) = n
      BY <3>1, <3>3
    <3>5. \A i \in 1 .. n : ms[i].evaluated = FALSE
      BY <3>1 DEF Module
    <3> HIDE DEF ms
    <3>6. Ids = 1 .. n /\ n = Len(specs)
      BY <1>5 DEF n
    <3>7. Bodies \in Seq(Module) /\ Len(Bodies) = Len(specs)
      BY <3>2, <3>4, <3>6
    <3>8. \A i \in Ids : Bodies[i].evaluated = FALSE
      BY <3>2, <3>5, <3>6
    <3> QED
      BY <2>1, <3>7, <3>8
  <2>2. CASE frames # <<>>
    <3>1. modules \in Seq(Module) /\ Len(modules) = Len(specs) /\ DOMAIN modules = Ids
      BY <2>2, FrameFacts
    <3>2. Bodies = Initialised(modules, Compiler.id)
      BY <2>2 DEF Bodies
    <3> QED
      BY <1>2, <2>2, <3>1, <3>2, InitialisedIs
  <2> QED
    BY <2>1, <2>2
<1>7. specs'[1].compiled
  <2>1. CASE frames = <<>>
    BY <2>1, <1>2, <1>3 DEF IInv, StageInv
  <2>2. CASE frames # <<>>
    BY <2>2, <1>3, <1>5, FrameFacts DEF Grows, Ids
  <2> QED
    BY <2>1, <2>2
<1>8. frames # <<>> => CallsIt(specs', Top, Compiler.id, "run")
  <2> HAVE frames # <<>>
  <2>1. CallsIt(specs, Top, Compiler.id, "run")
    BY <1>2 DEF IInv, StageInv
  <2>2. Top.id \in DOMAIN specs /\ specs[Top.id].compiled
    BY FrameFacts DEF Ids
  <2> DEFINE sp == specs'
  <2>3. Grows(specs, sp)
    BY <1>3
  <2> HIDE DEF sp
  <2>4. CallsIt(sp, Top, Compiler.id, "run")
    BY <2>1, <2>2, <2>3, <1>2, CallsGrow DEF Ids
  <2> QED
    BY <2>4 DEF sp
<1>9. Len(Bodies) = Len(specs') /\ Compiler.id \in DOMAIN specs'
  BY <1>2, <1>3, <1>6 DEF Ids
<1>10. IInv'
  BY <1>1, <1>2, <1>3, <1>4, <1>6, <1>7, <1>8, <1>9, EvaluateInv
<1>11. DOMAIN Bodies = Ids
  BY <1>5, <1>6
<1> QED
  BY <1>1, <1>2, <1>4, <1>6, <1>10, <1>11

LEMMA CompileEndInv == ASSUME IInv, CompileEnd PROVE IInv'
<1>1. CASE specs[Compiler.id].compiled
  <2>1. /\ status' = "aborted" /\ compiling # <<>> /\ Compiles
        /\ UNCHANGED <<program, specs, compiling, modules, frames, started, finished>>
    BY <1>1 DEF CompileEnd, Compiles
  <2>2. Types'
    BY <2>1 DEF IInv, Types, Ids
  <2>3. Table(program, specs)' /\ Compiled(program, specs, compiling)' /\ Framed(specs, frames)'
    BY <2>1 DEF IInv
  <2>4. StageInv'
    BY <2>1 DEF IInv, StageInv, Top
  <2> QED
    BY <2>2, <2>3, <2>4 DEF IInv
<1>2. CASE ~specs[Compiler.id].compiled
  BY <1>2, ImporterGoesOn, OutermostRuns
<1> QED
  BY <1>1, <1>2
-----------------------------------------------------------------------------
(* The innermost frame goes on to its next instruction.                    *)
Stepped(fs) == [fs EXCEPT ![Len(fs)].pc = @ + 1]

LEMMA StepIs ==
  ASSUME NEW fs \in Seq(Frame), fs # <<>>
  PROVE  /\ Stepped(fs) \in Seq(Frame) /\ Len(Stepped(fs)) = Len(fs) /\ DOMAIN Stepped(fs) = DOMAIN fs /\ Stepped(fs) # <<>>
         /\ \A i \in DOMAIN fs : /\ Stepped(fs)[i].id = fs[i].id /\ Stepped(fs)[i].by = fs[i].by
                                 /\ Stepped(fs)[i].stale = fs[i].stale
         /\ \A i \in DOMAIN fs : i = Len(fs) \/ Stepped(fs)[i].pc = fs[i].pc
         /\ Stepped(fs)[Len(fs)].pc = fs[Len(fs)].pc + 1
<1> DEFINE fs2 == Stepped(fs)
<1>1. Len(fs) \in DOMAIN fs /\ fs[Len(fs)] \in Frame
  OBVIOUS
<1>2. [fs[Len(fs)] EXCEPT !.pc = @ + 1] \in Frame
  <2> DEFINE f == fs[Len(fs)]
  <2>1. f \in Frame /\ f.pc + 1 \in Pos
    BY <1>1 DEF Frame
  <2> HIDE DEF f
  <2>2. [f EXCEPT !.pc = f.pc + 1] \in Frame
    BY <2>1 DEF Frame
  <2> QED
    BY <2>2 DEF f
<1>3. fs2 = [fs EXCEPT ![Len(fs)] = [fs[Len(fs)] EXCEPT !.pc = @ + 1]]
  BY <1>1 DEF Stepped
<1> HIDE DEF fs2
<1>4. fs2 \in Seq(Frame) /\ Len(fs2) = Len(fs) /\ DOMAIN fs2 = DOMAIN fs
  BY <1>1, <1>2, <1>3
<1>5. fs2[Len(fs)] = [fs[Len(fs)] EXCEPT !.pc = @ + 1]
  BY <1>1, <1>3
<1>6. \A i \in DOMAIN fs : i = Len(fs) \/ fs2[i] = fs[i]
  BY <1>3
<1>7. /\ fs2[Len(fs)].id = fs[Len(fs)].id /\ fs2[Len(fs)].by = fs[Len(fs)].by
      /\ fs2[Len(fs)].stale = fs[Len(fs)].stale /\ fs2[Len(fs)].pc = fs[Len(fs)].pc + 1
  BY <1>1, <1>5 DEF Frame
<1>8. fs2 # <<>>
  BY <1>4
<1> QED
  BY <1>1, <1>4, <1>6, <1>7, <1>8 DEF fs2

LEMMA StepKeeps ==
  ASSUME IInv, frames # <<>>, Step
  PROVE  /\ frames' \in Seq(Frame) /\ Len(frames') = Len(frames) /\ DOMAIN frames' = DOMAIN frames
         /\ frames' # <<>> /\ Framed(specs, frames')
         /\ \A i \in DOMAIN frames : /\ frames'[i].id = frames[i].id /\ frames'[i].by = frames[i].by
                                     /\ frames'[i].stale = frames[i].stale
         /\ \A i \in DOMAIN frames : i = Len(frames) \/ frames'[i].pc = frames[i].pc
         /\ frames'[Len(frames)].pc = Top.pc + 1
<1> DEFINE fs == frames'
<1>1. frames \in Seq(Frame) /\ Framed(specs, frames) /\ Top = frames[Len(frames)]
      /\ fs = Stepped(frames)
  BY FrameFacts DEF Step, Stepped
<1> HIDE DEF fs
<1>2. /\ fs \in Seq(Frame) /\ Len(fs) = Len(frames) /\ DOMAIN fs = DOMAIN frames /\ fs # <<>>
      /\ \A i \in DOMAIN frames : /\ fs[i].id = frames[i].id /\ fs[i].by = frames[i].by
                                  /\ fs[i].stale = frames[i].stale
      /\ \A i \in DOMAIN frames : i = Len(frames) \/ fs[i].pc = frames[i].pc
      /\ fs[Len(frames)].pc = Top.pc + 1
  BY <1>1, StepIs
<1>3. Framed(specs, fs)
  BY <1>1, <1>2, FramesStep
<1> QED
  BY <1>2, <1>3 DEF fs

LEMMA StepInv ==
  ASSUME IInv, NotTaken \/ ImportEvaluated \/ Use \/ Catch
  PROVE  /\ IInv' /\ frames # <<>> /\ Step /\ compiling = <<>> /\ status' = "running"
         /\ Top.pc \in DOMAIN Code(Top)
         /\ UNCHANGED <<program, specs, modules, compiling, started, finished>>
<1>1. /\ frames # <<>> /\ Step /\ compiling = <<>> /\ status' = "running"
      /\ Top.pc <= Len(Code(Top))
      /\ UNCHANGED <<program, specs, modules, compiling, started, finished>>
  BY DEF NotTaken, ImportEvaluated, Use, Catch, Runs, Executes, IInv, StageInv
<1>2. frames' \in Seq(Frame) /\ frames' # <<>> /\ Framed(specs, frames')
  BY <1>1, StepKeeps
<1>3. Types'
  BY <1>1, <1>2 DEF IInv, Types, Ids
<1>4. Table(program, specs)' /\ Compiled(program, specs, compiling)' /\ Framed(specs, frames)'
  BY <1>1, <1>2 DEF IInv
<1>5. StageInv'
  BY <1>1, <1>2 DEF IInv, StageInv
<1> QED
  BY <1>1, <1>3, <1>4, <1>5, InstrFacts DEF IInv

LEMMA ThrowInv ==
  ASSUME IInv, Throw
  PROVE  /\ IInv' /\ Runs /\ Top.pc \in DOMAIN Code(Top) /\ Instr.op # "import"
<1>1. /\ Runs /\ Top.pc <= Len(Code(Top)) /\ Instr.op # "import" /\ status' = "raising"
      /\ UNCHANGED <<program, specs, modules, compiling, frames, started, finished>>
  BY DEF Throw, Executes
<1>2. frames # <<>> /\ compiling = <<>>
  BY <1>1 DEF Runs
<1>3. Types'
  BY <1>1 DEF IInv, Types, Ids
<1>4. Table(program, specs)' /\ Compiled(program, specs, compiling)' /\ Framed(specs, frames)'
  BY <1>1 DEF IInv
<1>5. StageInv'
  BY <1>1, <1>2 DEF IInv, StageInv
<1> QED
  BY <1>1, <1>2, <1>3, <1>4, <1>5, InstrFacts DEF IInv

(* A body is left: its caller is at the instruction that ran it, or one     *)
(* further.                                                                *)
LEMMA LeaveInv ==
  ASSUME IInv, NEW failed \in BOOLEAN, frames # <<>>, Leave(failed), compiling = <<>>
  PROVE  /\ IInv' /\ frames' \in Seq(Frame) /\ Len(frames) - 1 \in Nat
         /\ DOMAIN frames' = 1 .. Len(frames) - 1 /\ DOMAIN frames = 1 .. Len(frames)
         /\ \A i \in DOMAIN frames' :
              /\ frames'[i].id = frames[i].id /\ frames'[i].by = frames[i].by
              /\ frames'[i].stale = frames[i].stale
              /\ (i = Len(frames) - 1 /\ ~failed) \/ frames'[i].pc = frames[i].pc
         /\ Len(frames) # 1 => CallsIt(specs, frames[Len(frames) - 1], Top.id, Top.by)
         /\ Len(frames) # 1 /\ ~failed => frames'[Len(frames) - 1].pc = frames[Len(frames) - 1].pc + 1
         /\ Len(modules') = Len(modules) /\ DOMAIN modules' = DOMAIN modules
<1> DEFINE rest == Front(frames)
           k == Len(rest)
           fs == frames'
<1>1. /\ frames \in Seq(Frame) /\ Framed(specs, frames) /\ Top = frames[Len(frames)]
      /\ Top.id \in Ids /\ Top \in Frame /\ Len(modules) = Len(specs) /\ DOMAIN modules = Ids
      /\ modules \in Seq(Module) /\ specs[1].compiled
  BY FrameFacts
<1>2. /\ rest \in Seq(Frame) /\ Framed(specs, rest)
      /\ k \in Nat /\ Len(frames) = k + 1
      /\ DOMAIN rest = 1 .. k /\ DOMAIN frames = 1 .. k + 1
      /\ \A i \in DOMAIN rest : rest[i] = frames[i]
      /\ rest # <<>> => CallsIt(specs, rest[k], frames[Len(frames)].id, frames[Len(frames)].by)
  BY <1>1, FramesPop
<1>3. fs = IF rest = <<>> \/ failed THEN rest ELSE [rest EXCEPT ![Len(rest)].pc = @ + 1]
  BY DEF Leave
<1> HIDE DEF rest, fs
<1>4. /\ fs \in Seq(Frame) /\ Framed(specs, fs) /\ Len(fs) = k /\ DOMAIN fs = 1 .. k
      /\ \A i \in 1 .. k :
           /\ fs[i].id = rest[i].id /\ fs[i].by = rest[i].by /\ fs[i].stale = rest[i].stale
           /\ (i = k /\ ~failed) \/ fs[i].pc = rest[i].pc
      /\ rest # <<>> /\ ~failed => fs[k].pc = rest[k].pc + 1
  <2>1. CASE rest = <<>> \/ failed
    BY <2>1, <1>2, <1>3
  <2>2. CASE rest # <<>> /\ ~failed
    <3>1. fs = Stepped(rest)
      BY <2>2, <1>3 DEF Stepped
    <3>2. /\ fs \in Seq(Frame) /\ Len(fs) = Len(rest) /\ DOMAIN fs = DOMAIN rest
          /\ \A i \in DOMAIN rest : /\ fs[i].id = rest[i].id /\ fs[i].by = rest[i].by
                                    /\ fs[i].stale = rest[i].stale
          /\ \A i \in DOMAIN rest : i = Len(rest) \/ fs[i].pc = rest[i].pc
          /\ fs[Len(rest)].pc = rest[Len(rest)].pc + 1
      BY <2>2, <3>1, <1>2, StepIs
    <3>3. Framed(specs, fs)
      BY <3>2, <1>2, FramesStep
    <3> QED
      BY <2>2, <3>2, <3>3, <1>2
  <2> QED
    BY <2>1, <2>2
<1>5. /\ UNCHANGED <<program, specs, compiling, started>> /\ finished' = finished \cup {Top.id}
      /\ status' = IF Len(frames) > 1 THEN status ELSE IF failed THEN "failed" ELSE "done"
  BY DEF Leave
<1>6. modules' \in Seq(Module) /\ Len(modules') = Len(modules) /\ DOMAIN modules' = DOMAIN modules
  <2>1. modules' = modules \/ modules' = [modules EXCEPT ![Top.id].evaluated = TRUE]
    BY DEF Leave
  <2>2. modules[Top.id] \in Module /\ Top.id \in DOMAIN modules
    BY <1>1
  <2>3. [modules[Top.id] EXCEPT !.evaluated = TRUE] \in Module
    BY <2>2 DEF Module
  <2> QED
    BY <2>1, <2>2, <2>3, <1>1
<1>7. rest # <<>> <=> k # 0
  <2>1. rest \in Seq(Frame)
    BY <1>2
  <2> QED
    BY <2>1
<1>8. fs # <<>> <=> k # 0
  <2>1. fs \in Seq(Frame) /\ Len(fs) = k
    BY <1>4
  <2> QED
    BY <2>1
<1> HIDE DEF k
<1>9. Types'
  BY <1>1, <1>4, <1>5, <1>6 DEF IInv, Types, Ids, fs
<1>10. Table(program, specs)' /\ Compiled(program, specs, compiling)' /\ Framed(specs, frames)'
  BY <1>4, <1>5 DEF IInv, fs
<1>11. StageInv'
  <2>1. CASE k = 0
    <3>1. frames' = <<>> /\ status' \in {"failed", "done"} /\ compiling' = <<>>
      BY <2>1, <1>2, <1>5, <1>8 DEF fs
    <3> QED
      BY <3>1 DEF StageInv
  <2>2. CASE k # 0
    <3>1. frames' # <<>> /\ status' = status /\ compiling' = <<>>
      BY <2>2, <1>2, <1>5, <1>8 DEF fs
    <3> QED
      BY <3>1, <1>1, <1>5, <1>6 DEF StageInv, IInv
  <2> QED
    BY <2>1, <2>2
<1>12. IInv'
  BY <1>9, <1>10, <1>11 DEF IInv
<1>13. Len(frames) - 1 = k /\ (Len(frames) # 1 <=> k # 0) /\ k + 1 = Len(frames)
  BY <1>2
<1>14. \A i \in 1 .. k : rest[i] = frames[i]
  BY <1>2
<1>15. k # 0 => k \in 1 .. k
  BY <1>2
<1> QED
  BY <1>1, <1>2, <1>4, <1>6, <1>7, <1>12, <1>13, <1>14, <1>15 DEF fs

LEMMA HaltInv ==
  ASSUME IInv, Halt
  PROVE  frames # <<>> /\ compiling = <<>> /\ Leave(FALSE) /\ IInv' /\ status = "running"
<1>1. Runs /\ Leave(FALSE) /\ frames # <<>> /\ compiling = <<>> /\ status = "running"
  BY DEF Halt, Runs
<1>2. IInv'
  BY <1>1, LeaveInv
<1> QED
  BY <1>1, <1>2

LEMMA UnwindInv ==
  ASSUME IInv, Unwind
  PROVE  frames # <<>> /\ compiling = <<>> /\ Leave(TRUE) /\ IInv' /\ status = "raising"
<1>1. Leave(TRUE) /\ frames # <<>> /\ compiling = <<>> /\ status = "raising"
  BY DEF Unwind, IInv, StageInv
<1>2. IInv'
  BY <1>1, LeaveInv
<1> QED
  BY <1>1, <1>2

LEMMA NextInv == ASSUME IInv, [Next]_vars PROVE IInv'
<1>1. CASE ImportAgain \/ ImportKnown \/ CompileCall \/ CompileUse
  <2>1. PICK c : Advances(c)
    BY <1>1, StatementAdvances
  <2>2. /\ UNCHANGED <<program, specs, modules, frames, status, started, finished>> /\ Compiles
    BY <1>1, StatementAdvances
  <2> QED
    BY <2>1, <2>2, AdvanceInv
<1>2. CASE ImportNew
  BY <1>2, ImportNewInv
<1>3. CASE CompileFails
  BY <1>3, CompileFailsInv
<1>4. CASE CompileEnd
  BY <1>4, CompileEndInv
<1>5. CASE NotTaken \/ ImportEvaluated \/ Use \/ Catch
  BY <1>5, StepInv
<1>6. CASE ImportModule
  BY <1>6, ImportModuleInv
<1>7. CASE DynamicImport
  BY <1>7, DynamicImportInv
<1>8. CASE Throw
  BY <1>8, ThrowInv
<1>9. CASE Halt
  BY <1>9, HaltInv
<1>10. CASE Unwind
  BY <1>10, UnwindInv
<1>11. CASE UNCHANGED vars
  <2>1. Types' /\ StageInv'
    BY <1>11 DEF vars, IInv, Types, StageInv, Ids, Top
  <2>2. Table(program, specs)' /\ Compiled(program, specs, compiling)' /\ Framed(specs, frames)'
    BY <1>11 DEF vars, IInv
  <2> QED
    BY <2>1, <2>2 DEF IInv
<1> QED
  BY <1>1, <1>2, <1>3, <1>4, <1>5, <1>6, <1>7, <1>8, <1>9, <1>10, <1>11
     DEF Next, Compile, Execute

LEMMA Inductive == Spec => []IInv
<1>1. Init => IInv
  BY InitInv
<1>2. IInv /\ [Next]_vars => IInv'
  BY NextInv
<1> QED
  BY <1>1, <1>2, PTL DEF Spec

(* README.md 305: two imports of a name give the same module, whatever the  *)
(* files import, in whatever order and from whatever branch.               *)
THEOREM NameHasOneModule == Spec => []OneModulePerName
<1>1. IInv => OneModulePerName
  BY DEF IInv, Table, OneModulePerName, Ids
<1> QED
  BY <1>1, Inductive, PTL
-----------------------------------------------------------------------------
Op(by) == IF by = "import" THEN "import" ELSE "import_"

(* The file of a frame names the file of the next.                         *)
LEMMA CallFiles ==
  ASSUME NEW p, NEW sp, Table(p, sp), NEW f, f.id \in DOMAIN sp, sp[f.id].compiled,
         NEW id \in DOMAIN sp, NEW by, CallsIt(sp, f, id, by)
  PROVE  sp[id].name \in Files(p, sp[f.id].name, Op(by))
<1> DEFINE code == sp[f.id].code
           n == sp[f.id].name
<1>1. Translates(p, sp, n, code, Len(p[n]) + 1) /\ f.pc \in DOMAIN code
  BY DEF Table, CallsIt
<1>2. code[f.pc].op = Op(by) /\ code[f.pc].arg = sp[id].name
  BY <1>1 DEF CallsIt, At, Op, Translates
<1>3. /\ code[f.pc].at \in DOMAIN p[n] /\ code[f.pc].op = p[n][code[f.pc].at].op
      /\ code[f.pc].arg = p[n][code[f.pc].at].arg
  BY <1>1 DEF Translates
<1> QED
  BY <1>2, <1>3 DEF Files, Statements

LEMMA FrameCalls ==
  ASSUME IInv, NEW i \in DOMAIN frames, i + 1 \in DOMAIN frames
  PROVE  /\ frames[i].id \in Ids /\ frames[i + 1].id \in Ids
         /\ CallsIt(specs, frames[i], frames[i + 1].id, frames[i + 1].by)
         /\ specs[frames[i + 1].id].name \in
              Files(program, specs[frames[i].id].name, Op(frames[i + 1].by))
<1>1. Framed(specs, frames) /\ Table(program, specs)
  BY DEF IInv
<1>2. /\ frames[i].id \in DOMAIN specs /\ frames[i + 1].id \in DOMAIN specs
      /\ specs[frames[i].id].compiled
      /\ CallsIt(specs, frames[i], frames[i + 1].id, frames[i + 1].by)
  BY <1>1 DEF Framed
<1> QED
  BY <1>1, <1>2, CallFiles DEF Ids

(* A body does not run a module whose body is running.                     *)
LEMMA NoCycle ==
  ASSUME IInv, Acyclic(program), frames # <<>>, NEW k \in DOMAIN frames, NEW by,
         CallsIt(specs, Top, frames[k].id, by)
  PROVE  FALSE
<1>1. /\ frames \in Seq(Frame) /\ Framed(specs, frames) /\ Table(program, specs)
      /\ Len(frames) \in DOMAIN frames /\ Top = frames[Len(frames)] /\ Len(frames) \in Pos
      /\ DOMAIN frames = 1 .. Len(frames)
  BY FrameFacts DEF IInv
<1> DEFINE S == {specs[frames[i].id].name : i \in k .. Len(frames)}
<1>2. \A i \in k .. Len(frames) : i \in DOMAIN frames
  BY <1>1
<1>3. \A i \in DOMAIN frames : frames[i].id \in DOMAIN specs /\ specs[frames[i].id].compiled
  BY <1>1 DEF Framed
<1>4. S \in SUBSET DOMAIN program
  BY <1>1, <1>2, <1>3 DEF Table
<1>5. k \in k .. Len(frames) /\ Len(frames) \in k .. Len(frames)
  BY <1>1
<1>6. S # {}
  BY <1>5
<1>7. PICK f \in S : (Files(program, f, "import") \cup Files(program, f, "import_")) \cap S = {}
  BY <1>4, <1>6 DEF Acyclic
<1>8. PICK i \in k .. Len(frames) : f = specs[frames[i].id].name
  BY <1>7
<1>0. \A b : Op(b) \in {"import", "import_"}
  BY DEF Op
<1>9. \E j \in k .. Len(frames), op \in {"import", "import_"} :
        specs[frames[j].id].name \in Files(program, f, op)
  <2>1. CASE i = Len(frames)
    <3>1. specs[frames[k].id].name \in Files(program, specs[Top.id].name, Op(by))
      BY <1>1, <1>3, CallFiles
    <3> QED
      BY <2>1, <3>1, <1>0, <1>1, <1>5, <1>8
  <2>2. CASE i # Len(frames)
    <3>0. k \in Nat /\ Len(frames) \in Nat
      BY <1>1
    <3>1. i + 1 \in k .. Len(frames)
      BY <2>2, <3>0
    <3>3. i + 1 \in DOMAIN frames /\ i \in DOMAIN frames
      BY <3>1, <1>2
    <3>2. specs[frames[i + 1].id].name \in Files(program, f, Op(frames[i + 1].by))
      BY <3>3, <1>8, FrameCalls
    <3> QED
      BY <3>1, <3>2, <1>0
  <2> QED
    BY <2>1, <2>2
<1>10. PICK j \in k .. Len(frames), op \in {"import", "import_"} :
         specs[frames[j].id].name \in Files(program, f, op)
  BY <1>9
<1>11. specs[frames[j].id].name \in S
  OBVIOUS
<1> HIDE DEF S
<1> QED
  BY <1>7, <1>10, <1>11

(* Where module::import_ is called, every body was run by cb_run.          *)
LEMMA CallerAllRun ==
  ASSUME IInv, OnceInv, Separate(program), frames # <<>>, Top.pc <= Len(Code(Top)),
         Instr.op = "import_"
  PROVE  \A i \in DOMAIN frames : frames[i].by = "run"
<1>1. /\ frames \in Seq(Frame) /\ Framed(specs, frames) /\ Table(program, specs)
      /\ Len(frames) \in DOMAIN frames /\ Top = frames[Len(frames)] /\ Len(frames) \in Pos
      /\ DOMAIN frames = 1 .. Len(frames)
  BY FrameFacts DEF IInv
<1>2. Top.id \in DOMAIN specs /\ specs[Top.id].compiled /\ specs[Top.id].name \in DOMAIN program
  BY <1>1 DEF Framed, Table
<1>3. Files(program, specs[Top.id].name, "import_") # {}
  <2>1. /\ Top.pc \in DOMAIN Code(Top) /\ Instr = Code(Top)[Top.pc]
    BY InstrFacts
  <2>2. Translates(program, specs, specs[Top.id].name, Code(Top),
                   Len(program[specs[Top.id].name]) + 1)
    BY <1>1, <1>2 DEF Table, Code
  <2>3. /\ Instr.at \in DOMAIN program[specs[Top.id].name]
        /\ program[specs[Top.id].name][Instr.at].op = "import_"
    BY <2>1, <2>2 DEF Translates
  <2> QED
    BY <2>3 DEF Files, Statements
<1>4. specs[Top.id].name \notin ByStatement(program)
  BY <1>2, <1>3 DEF Separate
<1>5. Top.by = "run"
  <2> SUFFICES ASSUME Top.by # "run" PROVE FALSE
    OBVIOUS
  <2>1. Top.by = "import"
    BY FrameFacts DEF Frame
  <2>2. Len(frames) # 1
    BY <1>1 DEF Framed
  <2>3. Len(frames) - 1 \in DOMAIN frames /\ (Len(frames) - 1) + 1 = Len(frames)
    BY <2>2, <1>1
  <2>4. /\ frames[Len(frames) - 1].id \in Ids
        /\ specs[Top.id].name \in
             Files(program, specs[frames[Len(frames) - 1].id].name, Op(Top.by))
    BY <2>3, <1>1, FrameCalls
  <2>5. specs[frames[Len(frames) - 1].id].name \in DOMAIN program
    BY <2>4, <1>1 DEF Table, Ids
  <2> QED
    BY <2>1, <2>4, <2>5, <1>4 DEF ByStatement, Op
<1> QED
  BY <1>1, <1>5 DEF OnceInv
-----------------------------------------------------------------------------
LEMMA OnceKept ==
  ASSUME OnceInv, Grows(specs, specs'), started' = started, DOMAIN started \subseteq Ids,
         DOMAIN frames' = DOMAIN frames,
         \A i \in DOMAIN frames : frames'[i].id = frames[i].id /\ frames'[i].by = frames[i].by,
         \/ \A i \in DOMAIN frames : frames'[i].stale = frames[i].stale
         \/ \A i \in DOMAIN frames : frames[i].by = "run",
         \A id \in DOMAIN modules : /\ id \in DOMAIN modules'
                                    /\ modules[id].evaluated => modules'[id].evaluated
  PROVE  OnceInv'
<1>1. \A id \in DOMAIN started : specs'[id].compiled
  BY DEF OnceInv, Grows, Ids
<1>2. \A id \in DOMAIN started :
        \/ id \in DOMAIN modules' /\ modules'[id].evaluated
        \/ \E i \in DOMAIN frames' : frames'[i].id = id
  BY DEF OnceInv
<1>3. \A i \in DOMAIN frames' : frames'[i].by = "import" => ~frames'[i].stale
  BY DEF OnceInv
<1>4. \A i \in DOMAIN frames' : frames'[i].id \in DOMAIN started
  BY DEF OnceInv
<1>5. \A i, j \in DOMAIN frames' : i # j => frames'[i].id # frames'[j].id
  BY DEF OnceInv
<1>6. \A i, j \in DOMAIN frames' : i < j /\ frames'[j].by = "run" => frames'[i].by = "run"
  BY DEF OnceInv
<1>7. \A id \in DOMAIN started' : started'[id] = 1
  BY DEF OnceInv
<1> QED
  BY <1>1, <1>2, <1>3, <1>4, <1>5, <1>6, <1>7 DEF OnceInv

LEMMA OnceEntered ==
  ASSUME IInv, OnceInv, NEW id \in Pos, NEW by \in {"run", "import"}, NEW ms,
         Evaluate(id, by, ms), status = "running", Grows(specs, specs'),
         id \in DOMAIN specs', specs'[id].compiled, id \notin DOMAIN started, id \in DOMAIN ms,
         frames # <<>> => \A i \in DOMAIN modules :
                            i \in DOMAIN ms /\ ms[i].evaluated = modules[i].evaluated,
         ms \in Seq(Module), by = "run" => \A i \in DOMAIN frames : frames[i].by = "run"
  PROVE  OnceInv'
<1>1. frames \in Seq(Frame) /\ DOMAIN started \subseteq Ids /\ started \in [DOMAIN started -> Nat]
  BY DEF IInv, Types
<1>2. frames = <<>> => DOMAIN started = {}
  BY DEF IInv, StageInv
<1>3. CASE /\ Len(frames) + 1 < MaxDepth /\ modules' = ms
           /\ frames' = Append(frames, BodyFrame(id, by))
           /\ started' = Entered(started, id) /\ UNCHANGED <<status, finished>>
  <2> DEFINE n == Len(frames)
             f == BodyFrame(id, by)
  <2>1. /\ f \in Frame /\ f.id = id /\ f.by = by /\ f.stale = FALSE
    BY DEF BodyFrame, Frame
  <2> HIDE DEF f
  <2>2. /\ n \in Nat /\ DOMAIN frames = 1 .. n /\ DOMAIN frames' = 1 .. n + 1
        /\ frames'[n + 1] = f /\ \A i \in 1 .. n : frames'[i] = frames[i]
    BY <1>1, <1>3, <2>1 DEF f
  <2> HIDE DEF n
  <2>3. \A i \in 1 .. n + 1 : i \in 1 .. n \/ i = n + 1
    BY <2>2
  <2>4. n + 1 \in 1 .. n + 1 /\ n + 1 \notin 1 .. n /\ \A i \in 1 .. n : i \in 1 .. n + 1
    BY <2>2
  <2>5. DOMAIN started' = DOMAIN started \cup {id} /\ started'[id] = 1
        /\ \A i \in DOMAIN started : started'[i] = 1
    <3>1. \A i \in DOMAIN started : i # id /\ started[i] = 1 /\ started[i] + 0 = 1
      BY DEF OnceInv
    <3> QED
      BY <1>3, <3>1 DEF Entered
  <2>6. \A i \in DOMAIN started' : specs'[i].compiled
    BY <1>1, <2>5 DEF OnceInv, Grows, Ids
  <2>7. ASSUME NEW i \in DOMAIN started'
        PROVE  \/ i \in DOMAIN modules' /\ modules'[i].evaluated
               \/ \E j \in DOMAIN frames' : frames'[j].id = i
    <3>1. CASE i = id
      BY <3>1, <2>1, <2>2, <2>4
    <3>2. CASE i # id
      <4>1. i \in DOMAIN started /\ frames # <<>>
        BY <3>2, <2>5, <1>2
      <4>2. CASE i \in DOMAIN modules /\ modules[i].evaluated
        BY <4>1, <4>2, <1>3
      <4>3. CASE \E j \in DOMAIN frames : frames[j].id = i
        BY <4>3, <2>2, <2>4
      <4> QED
        BY <4>1, <4>2, <4>3 DEF OnceInv
    <3> QED
      BY <3>1, <3>2
  <2>8. \A i \in DOMAIN frames' : frames'[i].id \in DOMAIN started'
    BY <2>1, <2>2, <2>3, <2>5 DEF OnceInv
  <2>9. \A i \in 1 .. n : frames'[i].id # id
    BY <2>2 DEF OnceInv
  <2>10. \A i, j \in DOMAIN frames' : i # j => frames'[i].id # frames'[j].id
    BY <2>1, <2>2, <2>3, <2>9 DEF OnceInv
  <2>11. ASSUME NEW i \in DOMAIN frames', NEW j \in DOMAIN frames', i < j, frames'[j].by = "run"
         PROVE  frames'[i].by = "run"
    <3>1. i \in 1 .. n
      BY <2>11, <2>2
    <3>2. CASE j \in 1 .. n
      BY <3>1, <3>2, <2>2, <2>11 DEF OnceInv
    <3>3. CASE j = n + 1
      BY <3>1, <3>3, <2>1, <2>2, <2>11
    <3> QED
      BY <3>2, <3>3, <2>2, <2>3
  <2>12. \A i \in DOMAIN frames' : frames'[i].by = "import" => ~frames'[i].stale
    BY <2>1, <2>2, <2>3 DEF OnceInv
  <2>13. \A i \in DOMAIN started' : started'[i] = 1
    BY <2>5
  <2> QED
    BY <2>6, <2>7, <2>8, <2>10, <2>11, <2>12, <2>13 DEF OnceInv
<1>4. CASE /\ ~(Len(frames) + 1 < MaxDepth) /\ frames # <<>> /\ status' = "raising"
           /\ modules' = [ms EXCEPT ![id].evaluated = TRUE]
           /\ UNCHANGED <<frames, started, finished>>
  <2>1. \A i \in DOMAIN modules : /\ i \in DOMAIN modules'
                                  /\ modules[i].evaluated => modules'[i].evaluated
    <3> SUFFICES ASSUME NEW i \in DOMAIN modules
                 PROVE  /\ i \in DOMAIN modules'
                        /\ modules[i].evaluated => modules'[i].evaluated
      OBVIOUS
    <3>1. i \in DOMAIN ms /\ ms[i].evaluated = modules[i].evaluated /\ ms[i] \in Module
      BY <1>4
    <3>2. modules' = [ms EXCEPT ![id].evaluated = TRUE]
      BY <1>4
    <3>3. CASE i = id
      <4>1. modules'[i].evaluated = TRUE /\ i \in DOMAIN modules'
        BY <3>1, <3>2, <3>3 DEF Module
      <4> QED
        BY <4>1
    <3>4. CASE i # id
      BY <3>1, <3>2, <3>4
    <3> QED
      BY <3>3, <3>4
  <2> QED
    BY <2>1, <1>1, <1>4, OnceKept
<1> QED
  BY <1>3, <1>4, EvaluateKeeps

(* While a file is compiled, all bodies that run were run by cb_run.        *)
LEMMA CompilingAllRun ==
  ASSUME IInv, OnceInv, Separate(program), Compiles
  PROVE  /\ \A i \in DOMAIN frames : frames[i].by = "run"
         /\ compiling[1].id \in Ids /\ 1 \in DOMAIN compiling
<1>1. compiling \in Seq(File) /\ compiling # <<>> /\ Compiled(program, specs, compiling)
      /\ status = "running"
  BY CurrentFile
<1>2. 1 \in DOMAIN compiling
  BY <1>1
<1>3. compiling[1].id \in Ids
  BY <1>1, <1>2 DEF Compiled, FileOk, Ids
<1>4. CASE frames = <<>>
  BY <1>2, <1>3, <1>4
<1>5. CASE frames # <<>>
  <2>1. CallsIt(specs, Top, compiling[1].id, "run")
    BY <1>1, <1>5 DEF IInv, StageInv
  <2>2. Top.pc \in DOMAIN Code(Top) /\ Instr.op = "import_"
    BY <2>1 DEF CallsIt, At, Code, Instr
  <2>3. Top.pc <= Len(Code(Top))
    BY <2>2, <1>5, FrameFacts
  <2> QED
    BY <1>2, <1>3, <1>5, <2>2, <2>3, CallerAllRun
<1> QED
  BY <1>4, <1>5

LEMMA OnceAdded ==
  ASSUME IInv, OnceInv, NEW n \in DOMAIN program, Named(n) = {}, NEW moved \in BOOLEAN,
         NewModspec(n, moved), started' = started, \A i \in DOMAIN frames : frames[i].by = "run"
  PROVE  OnceInv'
<1>1. /\ Grows(specs, specs') /\ DOMAIN frames' = DOMAIN frames
      /\ \A i \in DOMAIN frames : frames'[i].id = frames[i].id /\ frames'[i].by = frames[i].by
      /\ modules' = IF modules = <<>> THEN modules ELSE Append(modules, Zeroed)
  BY NewModspecKeeps
<1>2. DOMAIN started \subseteq Ids /\ modules \in Seq(Module)
  BY DEF IInv, Types
<1>3. \A id \in DOMAIN modules : id \in DOMAIN modules' /\ modules'[id] = modules[id]
  BY <1>1, <1>2
<1> QED
  BY <1>1, <1>2, <1>3, OnceKept

LEMMA OnceLeft ==
  ASSUME IInv, OnceInv, NEW failed \in BOOLEAN, frames # <<>>, Leave(failed), compiling = <<>>
  PROVE  OnceInv'
<1>1. /\ frames' \in Seq(Frame) /\ Len(frames) - 1 \in Nat
      /\ DOMAIN frames' = 1 .. Len(frames) - 1 /\ DOMAIN frames = 1 .. Len(frames)
      /\ \A i \in DOMAIN frames' :
            /\ frames'[i].id = frames[i].id /\ frames'[i].by = frames[i].by
            /\ frames'[i].stale = frames[i].stale
      /\ DOMAIN modules' = DOMAIN modules
  BY LeaveInv
<1>2. /\ Top = frames[Len(frames)] /\ Len(frames) \in DOMAIN frames /\ Len(frames) \in Nat
      /\ Top.id \in Ids /\ DOMAIN modules = Ids /\ modules \in Seq(Module)
  BY FrameFacts
<1>3. UNCHANGED <<specs, started>>
  BY DEF Leave
<1>4. modules' = [modules EXCEPT ![Top.id].evaluated = TRUE]
  BY <1>2 DEF Leave, OnceInv
<1>5. modules'[Top.id].evaluated
        /\ \A id \in DOMAIN modules : id # Top.id => modules'[id] = modules[id]
  <2>1. modules[Top.id] \in Module
    BY <1>2
  <2> QED
    BY <2>1, <1>2, <1>4 DEF Module
<1>6. \A i \in DOMAIN frames' : i \in DOMAIN frames
  BY <1>1
<1>7. \A i \in DOMAIN frames : i \in DOMAIN frames' \/ i = Len(frames)
  BY <1>1
<1>8. ASSUME NEW id \in DOMAIN started'
      PROVE  \/ id \in DOMAIN modules' /\ modules'[id].evaluated
             \/ \E i \in DOMAIN frames' : frames'[i].id = id
  <2>1. id \in DOMAIN started
    BY <1>3
  <2>2. CASE id = Top.id
    BY <2>2, <1>1, <1>2, <1>5
  <2>3. CASE id # Top.id /\ id \in DOMAIN modules /\ modules[id].evaluated
    BY <2>3, <1>1, <1>5
  <2>4. CASE id # Top.id /\ \E i \in DOMAIN frames : frames[i].id = id
    BY <2>4, <1>1, <1>2, <1>7
  <2> QED
    BY <2>1, <2>2, <2>3, <2>4 DEF OnceInv
<1>9. \A id \in DOMAIN started' : started'[id] = 1 /\ specs'[id].compiled
  BY <1>3 DEF OnceInv
<1>10. \A i \in DOMAIN frames' : frames'[i].id \in DOMAIN started'
  BY <1>1, <1>3, <1>6 DEF OnceInv
<1>11. \A i, j \in DOMAIN frames' : i # j => frames'[i].id # frames'[j].id
  BY <1>1, <1>6 DEF OnceInv
<1>12. \A i, j \in DOMAIN frames' : i < j /\ frames'[j].by = "run" => frames'[i].by = "run"
  BY <1>1, <1>6 DEF OnceInv
<1>13. \A i \in DOMAIN frames' : frames'[i].by = "import" => ~frames'[i].stale
  BY <1>1, <1>6 DEF OnceInv
<1> QED
  BY <1>8, <1>9, <1>10, <1>11, <1>12, <1>13 DEF OnceInv

LEMMA OnceStutters ==
  ASSUME IInv, OnceInv, Grows(specs, specs'), UNCHANGED <<modules, frames, started>>
  PROVE  OnceInv'
<1>1. DOMAIN started \subseteq Ids
  BY DEF IInv, Types
<1> QED
  BY <1>1, OnceKept

LEMMA ImportNotEntered ==
  ASSUME IInv, OnceInv, Acyclic(program), ImportModule
  PROVE  Instr.id \notin DOMAIN started
<1>1. /\ frames # <<>> /\ Top.pc <= Len(Code(Top)) /\ Instr.op = "import"
      /\ ~modules[Instr.id].evaluated
  BY DEF ImportModule, Executes, Runs
<1>2. Top.pc \in DOMAIN Code(Top) /\ Instr = At(specs, Top)
  BY <1>1, InstrFacts
<1> SUFFICES ASSUME Instr.id \in DOMAIN started PROVE FALSE
  OBVIOUS
<1>3. PICK k \in DOMAIN frames : frames[k].id = Instr.id
  BY <1>1 DEF OnceInv
<1>4. CallsIt(specs, Top, frames[k].id, "import")
  BY <1>1, <1>2, <1>3 DEF CallsIt, Code
<1> QED
  BY <1>1, <1>3, <1>4, NoCycle

LEMMA OnceImport ==
  ASSUME IInv, OnceInv, Acyclic(program), ImportModule
  PROVE  OnceInv'
<1>1. /\ frames # <<>> /\ Top.pc <= Len(Code(Top)) /\ Instr.op = "import" /\ status = "running"
      /\ specs' = specs
  BY DEF ImportModule, Executes, Runs
<1>2. Grows(specs, specs')
  BY <1>1 DEF Grows
<1>3. CASE specs[Instr.id].compiled
  <2>1. Evaluate(Instr.id, "import", Initialised(modules, Instr.id))
    BY <1>3 DEF ImportModule
  <2>2. Instr.id \in Ids /\ modules \in Seq(Module) /\ DOMAIN modules = Ids /\ Ids = 1 .. Len(specs)
    BY <1>1, InstrFacts, FrameFacts, Facts
  <2>3. /\ Initialised(modules, Instr.id) \in Seq(Module)
        /\ Len(Initialised(modules, Instr.id)) = Len(modules)
        /\ \A i \in DOMAIN modules : Initialised(modules, Instr.id)[i].evaluated = modules[i].evaluated
    BY <2>2, InitialisedIs
  <2>4. DOMAIN Initialised(modules, Instr.id) = DOMAIN modules /\ Instr.id \in Pos
    BY <2>2, <2>3
  <2>5. Instr.id \notin DOMAIN started
    BY ImportNotEntered
  <2>6. Instr.id \in DOMAIN specs' /\ specs'[Instr.id].compiled
    BY <1>1, <1>3, <2>2 DEF Ids
  <2> QED
    BY <1>1, <1>2, <2>1, <2>2, <2>3, <2>4, <2>5, <2>6, OnceEntered
<1>4. CASE ~specs[Instr.id].compiled
  <2>1. UNCHANGED <<modules, frames, started>>
    BY <1>4 DEF ImportModule
  <2> QED
    BY <2>1, <1>2, OnceStutters
<1> QED
  BY <1>3, <1>4

LEMMA OnceEnd ==
  ASSUME IInv, OnceInv, Separate(program), CompileEnd
  PROVE  OnceInv'
<1>1. Compiles /\ Grows(specs, specs)
  BY DEF CompileEnd, Grows
<1>2. CASE specs[Compiler.id].compiled
  <2>1. UNCHANGED <<specs, modules, frames, started>> /\ specs' = specs
    BY <1>2 DEF CompileEnd
  <2>2. Grows(specs, specs')
    BY <2>1, <1>1
  <2> QED
    BY <2>1, <2>2, OnceStutters
<1>3. CASE ~specs[Compiler.id].compiled /\ Len(compiling) # 1
  <2>1. UNCHANGED <<modules, frames, started>>
    BY <1>3, ImporterGoesOn
  <2>2. Grows(specs, specs')
    BY <1>3, CompileEndSets
  <2> QED
    BY <2>1, <2>2, OnceStutters
<1>4. CASE ~specs[Compiler.id].compiled /\ Len(compiling) = 1
  <2>1. /\ Compiler.id \in Pos /\ Evaluate(Compiler.id, "run", Bodies) /\ DOMAIN Bodies = Ids
        /\ \A i \in Ids : Bodies[i].evaluated =
              (IF frames = <<>> THEN FALSE ELSE modules[i].evaluated)
    BY <1>4, OutermostRuns
  <2>2. Grows(specs, specs') /\ specs'[Compiler.id].compiled /\ DOMAIN specs' = DOMAIN specs
    BY <1>4, CompileEndSets
  <2>3. Compiler.id \in Ids /\ status = "running"
    BY <1>1, CurrentFile
  <2>4. \A i \in DOMAIN frames : frames[i].by = "run"
    BY <1>1, CompilingAllRun
  <2>5. Compiler.id \notin DOMAIN started
    BY <1>4 DEF OnceInv
  <2>6. frames # <<>> => DOMAIN modules = Ids
    BY FrameFacts
  <2>7. Bodies \in Seq(Module)
    <3>1. CASE frames = <<>>
      <4>1. Inited \in Module
        BY DEF Inited, Module
      <4>2. Ids = 1 .. Len(specs) /\ Len(specs) \in Pos
        BY Facts
      <4>3. Bodies = [i \in 1 .. Len(specs) |-> Inited]
        BY <3>1, <4>2 DEF Bodies
      <4> QED
        BY <4>1, <4>2, <4>3
    <3>2. CASE frames # <<>>
      BY <3>2, <2>3, <2>6, FrameFacts, InitialisedIs DEF Bodies
    <3> QED
      BY <3>1, <3>2
  <2>8. Compiler.id \in DOMAIN specs'
    BY <2>2, <2>3 DEF Ids
  <2>9. frames # <<>> => \A i \in DOMAIN modules :
                            i \in DOMAIN Bodies /\ Bodies[i].evaluated = modules[i].evaluated
    BY <2>1, <2>6
  <2> QED
    BY <2>1, <2>2, <2>3, <2>4, <2>5, <2>7, <2>8, <2>9, OnceEntered
<1> QED
  BY <1>2, <1>3, <1>4

LEMMA NextOnce ==
  ASSUME IInv, OnceInv, Acyclic(program), Separate(program), [Next]_vars
  PROVE  OnceInv'
<1>1. CASE ImportAgain \/ ImportKnown \/ CompileCall \/ CompileUse
  BY <1>1, StatementAdvances, OnceStutters DEF Grows
<1>2. CASE ImportNew
  <2>1. PICK n \in DOMAIN program, moved \in BOOLEAN :
          Parses("import") /\ Named(n) = {} /\ NewModspec(n, moved) /\ started' = started
    BY <1>2, ImportNewKeeps
  <2>2. \A i \in DOMAIN frames : frames[i].by = "run"
    BY <2>1, CompilingAllRun DEF Parses
  <2> QED
    BY <2>1, <2>2, OnceAdded
<1>3. CASE CompileFails
  BY <1>3, OnceStutters DEF CompileFails, Grows
<1>4. CASE CompileEnd
  BY <1>4, OnceEnd
<1>5. CASE NotTaken \/ ImportEvaluated \/ Use \/ Catch
  <2>1. frames # <<>> /\ Step /\ UNCHANGED <<specs, modules, started>> /\ Grows(specs, specs')
    BY <1>5, StepInv DEF Grows
  <2>2. DOMAIN started \subseteq Ids
    BY DEF IInv, Types
  <2>3. /\ DOMAIN frames' = DOMAIN frames
        /\ \A i \in DOMAIN frames : /\ frames'[i].id = frames[i].id /\ frames'[i].by = frames[i].by
                                    /\ frames'[i].stale = frames[i].stale
    BY <2>1, StepKeeps
  <2> QED
    BY <2>1, <2>2, <2>3, OnceKept
<1>6. CASE ImportModule
  BY <1>6, OnceImport
<1>7. CASE DynamicImport
  <2>1. /\ Runs /\ Top.pc <= Len(Code(Top)) /\ Instr.op = "import_" /\ started' = started
        /\ Instr.arg \in DOMAIN program /\ frames # <<>>
    BY <1>7 DEF DynamicImport, Executes, Runs
  <2>2. CASE Named(Instr.arg) # {}
    <3>1. UNCHANGED <<specs, modules, frames, started>>
      BY <1>7, <2>1, <2>2 DEF DynamicImport
    <3> QED
      BY <3>1, OnceStutters DEF Grows
  <2>3. CASE Named(Instr.arg) = {}
    <3>1. PICK moved \in BOOLEAN : NewModspec(Instr.arg, moved)
      BY <1>7, <2>3 DEF DynamicImport
    <3>2. \A i \in DOMAIN frames : frames[i].by = "run"
      BY <2>1, CallerAllRun
    <3> QED
      BY <2>1, <2>3, <3>1, <3>2, OnceAdded
  <2> QED
    BY <2>2, <2>3
<1>8. CASE Throw
  BY <1>8, OnceStutters DEF Throw, Grows
<1>9. CASE Halt
  BY <1>9, HaltInv, OnceLeft
<1>10. CASE Unwind
  BY <1>10, UnwindInv, OnceLeft
<1>11. CASE UNCHANGED vars
  BY <1>11, OnceStutters DEF vars, Grows
<1> QED
  BY <1>1, <1>2, <1>3, <1>4, <1>5, <1>6, <1>7, <1>8, <1>9, <1>10, <1>11
     DEF Next, Compile, Execute

LEMMA InitOnce == ASSUME Init PROVE OnceInv
BY DEF Init, OnceInv

(* A module's body is run at most once, if no files import each other and   *)
(* no file that an import statement imports calls module::import_: however *)
(* many files import it, whatever it throws, and whatever is not compiled. *)
THEOREM EvaluatedAtMostOnce ==
  ASSUME \A p \in Programs : Acyclic(p) /\ Separate(p)
  PROVE  Spec => []EvaluatedOnce
<1>1. IInv => Acyclic(program) /\ Separate(program)
  BY DEF IInv, Types
<1>2. Init => OnceInv
  BY InitOnce
<1>3. IInv /\ OnceInv /\ [Next]_vars => OnceInv'
  BY <1>1, NextOnce
<1>4. OnceInv => EvaluatedOnce
  BY DEF OnceInv, EvaluatedOnce
<1> QED
  BY <1>2, <1>3, <1>4, Inductive, PTL DEF Spec
-----------------------------------------------------------------------------
LEMMA PassedGrows ==
  ASSUME NEW sp, NEW sp2, NEW f, NEW f2, NEW done, NEW done2, Passed(sp, f, done),
         Grows(sp, sp2), f.id \in DOMAIN sp, sp[f.id].compiled, done \subseteq done2,
         f2.id = f.id, f2.pc = f.pc
  PROVE  Passed(sp2, f2, done2)
BY DEF Passed, Grows

LEMMA PassedSteps ==
  ASSUME NEW sp, NEW f, f.pc \in Pos, NEW f2, NEW done, NEW done2, Passed(sp, f, done),
         DOMAIN sp[f.id].code \subseteq Nat, done \subseteq done2, f2.id = f.id, f2.pc = f.pc + 1,
         At(sp, f).op = "import" /\ At(sp, f).guard # "if" => At(sp, f).id \in done2
  PROVE  Passed(sp, f2, done2)
<1> SUFFICES ASSUME NEW k \in DOMAIN sp[f.id].code, k < f.pc + 1, sp[f.id].code[k].op = "import",
                    sp[f.id].code[k].guard # "if"
             PROVE  sp[f.id].code[k].id \in done2
  BY DEF Passed
<1>1. CASE k = f.pc
  BY <1>1 DEF At
<1>2. CASE k # f.pc
  <2>1. k < f.pc
    BY <1>2
  <2> QED
    BY <2>1 DEF Passed
<1> QED
  BY <1>1, <1>2

(* Frames whose places did not change.                                     *)
LEMMA FirstKept ==
  ASSUME IInv, FirstInv, Grows(specs, specs'), DOMAIN frames' = DOMAIN frames,
         \A i \in DOMAIN frames : frames'[i].id = frames[i].id /\ frames'[i].pc = frames[i].pc,
         finished' = finished,
         \A id \in DOMAIN modules' : modules'[id].evaluated => id \in finished,
         status' = "raising" => /\ Top'.pc \in DOMAIN Code(Top)'
                                /\ Instr'.op = "import" => Instr'.id \in finished
  PROVE  FirstInv'
<1>1. Framed(specs, frames)
  BY DEF IInv
<1>2. \A i \in DOMAIN frames : frames[i].id \in DOMAIN specs /\ specs[frames[i].id].compiled
  BY <1>1 DEF Framed
<1>3. ASSUME NEW i \in DOMAIN frames
      PROVE  Passed(specs', frames'[i], finished)
  <2> DEFINE sp == specs'
             f == frames'[i]
  <2>1. Passed(specs, frames[i], finished) /\ Grows(specs, sp) /\ f.id = frames[i].id
        /\ f.pc = frames[i].pc /\ finished \subseteq finished
    BY DEF FirstInv
  <2> HIDE DEF sp, f
  <2>2. Passed(sp, f, finished)
    BY <2>1, <1>2, PassedGrows
  <2> QED
    BY <2>2 DEF sp, f
<1> QED
  BY <1>3 DEF FirstInv

LEMMA FirstAdded ==
  ASSUME IInv, FirstInv, NEW n \in DOMAIN program, Named(n) = {}, NEW moved \in BOOLEAN,
         NewModspec(n, moved), finished' = finished, status' = status, status = "running"
  PROVE  FirstInv'
<1>1. /\ Grows(specs, specs') /\ DOMAIN frames' = DOMAIN frames
      /\ \A i \in DOMAIN frames : frames'[i].id = frames[i].id /\ frames'[i].pc = frames[i].pc
      /\ modules' = IF modules = <<>> THEN modules ELSE Append(modules, Zeroed)
  BY NewModspecKeeps
<1>2. modules \in Seq(Module) /\ ~Zeroed.evaluated /\ Zeroed \in Module
  BY DEF IInv, Types, Zeroed, Module
<1>3. \A id \in DOMAIN modules' : modules'[id].evaluated => id \in finished
  <2>1. CASE modules' = modules
    BY <2>1 DEF FirstInv
  <2>2. CASE modules' = Append(modules, Zeroed)
    <3> SUFFICES ASSUME NEW id \in DOMAIN modules', modules'[id].evaluated
                 PROVE  id \in finished
      OBVIOUS
    <3>1. id = Len(modules) + 1 \/ (id \in DOMAIN modules /\ modules'[id] = modules[id])
      BY <2>2, <1>2
    <3>2. modules'[Len(modules) + 1] = Zeroed
      BY <2>2, <1>2
    <3> QED
      BY <3>1, <3>2, <1>2 DEF FirstInv
  <2> QED
    BY <2>1, <2>2, <1>1
<1> QED
  BY <1>1, <1>3, FirstKept

(* The bodies that run are of different files, so not too many.            *)
LEMMA DepthSuffices ==
  ASSUME IInv, OnceInv, Small(program), NEW id \in Ids, id \notin DOMAIN started
  PROVE  Len(frames) + 1 < MaxDepth
<1>1. frames \in Seq(Frame) /\ Framed(specs, frames) /\ Table(program, specs)
  BY DEF IInv, Types
<1> DEFINE n == Len(frames)
           who == [i \in 1 .. n + 1 |-> IF i = n + 1 THEN id ELSE frames[i].id]
           f == [i \in 1 .. n + 1 |-> specs[who[i]].name]
<1>2. n \in Nat /\ DOMAIN frames = 1 .. n
  BY <1>1
<1> HIDE DEF n
<1>3. \A i \in 1 .. n : frames[i].id \in Ids /\ frames[i].id # id
  BY <1>1, <1>2 DEF Framed, OnceInv, Ids
<1>4. \A i \in 1 .. n + 1 : i = n + 1 \/ i \in 1 .. n
  BY <1>2
<1>5. \A i \in 1 .. n + 1 : who[i] \in Ids
  BY <1>3, <1>4
<1>6. \A i, j \in 1 .. n + 1 : i # j => who[i] # who[j]
  BY <1>2, <1>3, <1>4 DEF OnceInv
<1> HIDE DEF who
<1>7. f \in [1 .. n + 1 -> DOMAIN program]
  BY <1>1, <1>5 DEF Table, Ids
<1>8. \A i, j \in 1 .. n + 1 : i # j => f[i] # f[j]
  BY <1>1, <1>5, <1>6 DEF Table, Ids
<1> HIDE DEF f
<1>9. IsFiniteSet(1 .. n + 1) /\ Cardinality(1 .. n + 1) = n + 1
  BY <1>2, FS_Interval
<1>10. IsFiniteSet(DOMAIN program) /\ Cardinality(DOMAIN program) \in Nat
       /\ Cardinality(DOMAIN program) < MaxDepth /\ MaxDepth \in Nat
  BY FS_CardinalityType, ProgramsAssumption DEF Small
<1>11. ~(Cardinality(DOMAIN program) < Cardinality(1 .. n + 1))
  BY <1>7, <1>8, <1>9, <1>10, FS_PigeonHole
<1> QED
  BY <1>2, <1>9, <1>10, <1>11 DEF n

LEMMA FirstEntered ==
  ASSUME IInv, OnceInv, FirstInv, Small(program), NEW id \in Ids, id \in Pos,
         id \notin DOMAIN started, NEW by \in {"run", "import"}, NEW ms, Evaluate(id, by, ms),
         status = "running", specs' \in Seq(Modspec), Grows(specs, specs'),
         \A i \in DOMAIN ms : ms[i].evaluated => i \in finished
  PROVE  FirstInv'
<1>1. frames \in Seq(Frame) /\ Framed(specs, frames)
  BY DEF IInv, Types
<1>2. /\ modules' = ms /\ frames' = Append(frames, BodyFrame(id, by))
      /\ UNCHANGED <<status, finished>>
  BY DepthSuffices, EvaluateKeeps
<1> DEFINE f == BodyFrame(id, by)
<1>3. f \in Frame /\ f.pc = 1 /\ f.id = id
  BY DEF BodyFrame, Frame
<1> HIDE DEF f
<1>4. \A i \in DOMAIN frames' : frames'[i] = f \/ (i \in DOMAIN frames /\ frames'[i] = frames[i])
  BY <1>1, <1>2, <1>3 DEF f
<1>5. Passed(specs', f, finished)
  <2>1. id \in DOMAIN specs' /\ specs'[id] \in Modspec
    BY DEF Grows, Ids
  <2>2. DOMAIN specs'[id].code \subseteq Pos
    BY <2>1 DEF Modspec
  <2> QED
    BY <2>2, <1>3 DEF Passed
<1>6. ASSUME NEW i \in DOMAIN frames
      PROVE  Passed(specs', frames[i], finished)
  <2> DEFINE sp == specs'
  <2>1. Passed(specs, frames[i], finished) /\ Grows(specs, sp) /\ finished \subseteq finished
    BY DEF FirstInv
  <2>2. frames[i].id \in DOMAIN specs /\ specs[frames[i].id].compiled
    BY <1>1 DEF Framed
  <2> HIDE DEF sp
  <2>3. Passed(sp, frames[i], finished)
    BY <2>1, <2>2, PassedGrows
  <2> QED
    BY <2>3 DEF sp
<1>7. \A i \in DOMAIN frames' : Passed(specs', frames'[i], finished')
  BY <1>2, <1>4, <1>5, <1>6
<1>8. status' # "raising"
  BY <1>2
<1> QED
  BY <1>2, <1>7, <1>8 DEF FirstInv

LEMMA FirstStutters ==
  ASSUME IInv, FirstInv, Grows(specs, specs'), UNCHANGED <<modules, frames, finished>>,
         status' # "raising"
  PROVE  FirstInv'
<1>1. \A id \in DOMAIN modules' : modules'[id].evaluated => id \in finished
  BY DEF FirstInv
<1> QED
  BY <1>1, FirstKept

LEMMA FirstFails ==
  ASSUME IInv, FirstInv, CompileFails
  PROVE  FirstInv'
<1>1. /\ UNCHANGED <<program, specs, modules, frames, started, finished>> /\ Compiles
      /\ status' = IF frames = <<>> THEN "failed" ELSE "raising"
  BY DEF CompileFails, Parses
<1>2. CASE frames = <<>>
  BY <1>1, <1>2, FirstStutters DEF Grows
<1>3. CASE frames # <<>>
  <2>1. CallsIt(specs, Top, compiling[1].id, "run")
    BY <1>1, <1>3 DEF Compiles, IInv, StageInv
  <2>2. Top.pc \in DOMAIN Code(Top) /\ Instr.op = "import_"
    BY <2>1 DEF CallsIt, At, Code, Instr
  <2>3. Top.pc \in DOMAIN Code(Top)' /\ Instr'.op = "import_"
        /\ Top' = Top /\ Code(Top)' = Code(Top)
    BY <1>1, <2>2 DEF Top, Code, Instr
  <2>4. \A id \in DOMAIN modules' : modules'[id].evaluated => id \in finished
    BY <1>1 DEF FirstInv
  <2> QED
    BY <1>1, <2>3, <2>4, FirstKept DEF Grows
<1> QED
  BY <1>2, <1>3

LEMMA FirstEnd ==
  ASSUME IInv, OnceInv, FirstInv, Small(program), CompileEnd
  PROVE  FirstInv'
<1>1. Compiles /\ Grows(specs, specs)
  BY DEF CompileEnd, Grows
<1>2. CASE specs[Compiler.id].compiled
  <2>1. UNCHANGED <<modules, frames, finished>> /\ specs' = specs /\ status' = "aborted"
    BY <1>2 DEF CompileEnd
  <2>2. Grows(specs, specs')
    BY <2>1, <1>1
  <2> QED
    BY <2>1, <2>2, FirstStutters
<1>3. CASE ~specs[Compiler.id].compiled /\ Len(compiling) # 1
  <2>1. UNCHANGED <<modules, frames, finished, status>>
    BY <1>3, ImporterGoesOn
  <2>2. Grows(specs, specs')
    BY <1>3, CompileEndSets
  <2>3. status = "running"
    BY <1>1, CurrentFile
  <2> QED
    BY <2>1, <2>2, <2>3, FirstStutters
<1>4. CASE ~specs[Compiler.id].compiled /\ Len(compiling) = 1
  <2>1. /\ Compiler.id \in Pos /\ Evaluate(Compiler.id, "run", Bodies) /\ DOMAIN Bodies = Ids
        /\ \A i \in Ids : Bodies[i].evaluated =
              (IF frames = <<>> THEN FALSE ELSE modules[i].evaluated)
    BY <1>4, OutermostRuns
  <2>2. Grows(specs, specs') /\ specs' \in Seq(Modspec)
    BY <1>4, CompileEndSets
  <2>3. Compiler.id \in Ids /\ status = "running"
    BY <1>1, CurrentFile
  <2>4. Compiler.id \notin DOMAIN started
    BY <1>4 DEF OnceInv
  <2>5. frames # <<>> => DOMAIN modules = Ids
    BY FrameFacts
  <2>6. \A i \in DOMAIN Bodies : Bodies[i].evaluated => i \in finished
    BY <2>1, <2>5 DEF FirstInv
  <2> QED
    BY <2>1, <2>2, <2>3, <2>4, <2>6, FirstEntered
<1> QED
  BY <1>2, <1>3, <1>4

LEMMA FirstImport ==
  ASSUME IInv, OnceInv, FirstInv, Acyclic(program), Small(program), ImportModule
  PROVE  FirstInv'
<1>1. /\ frames # <<>> /\ Top.pc <= Len(Code(Top)) /\ Instr.op = "import" /\ status = "running"
      /\ specs' = specs /\ finished' = finished
  BY DEF ImportModule, Executes, Runs, Evaluate
<1>2. Grows(specs, specs')
  BY <1>1 DEF Grows
<1>3. CASE specs[Instr.id].compiled
  <2>1. Evaluate(Instr.id, "import", Initialised(modules, Instr.id))
    BY <1>3 DEF ImportModule
  <2>2. Instr.id \in Ids /\ modules \in Seq(Module) /\ DOMAIN modules = Ids /\ Ids = 1 .. Len(specs)
    BY <1>1, InstrFacts, FrameFacts, Facts
  <2>3. /\ Initialised(modules, Instr.id) \in Seq(Module)
        /\ Len(Initialised(modules, Instr.id)) = Len(modules)
        /\ \A i \in DOMAIN modules : Initialised(modules, Instr.id)[i].evaluated = modules[i].evaluated
    BY <2>2, InitialisedIs
  <2>4. DOMAIN Initialised(modules, Instr.id) = DOMAIN modules /\ Instr.id \in Pos
    BY <2>2, <2>3
  <2>5. Instr.id \notin DOMAIN started
    BY ImportNotEntered
  <2>6. \A i \in DOMAIN Initialised(modules, Instr.id) :
          Initialised(modules, Instr.id)[i].evaluated => i \in finished
    BY <2>3, <2>4 DEF FirstInv
  <2>7. specs' \in Seq(Modspec)
    BY <1>1 DEF IInv, Types
  <2> QED
    BY <1>1, <1>2, <2>1, <2>2, <2>4, <2>5, <2>6, <2>7, FirstEntered
<1>4. CASE ~specs[Instr.id].compiled
  <2>1. UNCHANGED <<modules, frames>> /\ status' = "aborted"
    BY <1>4 DEF ImportModule
  <2> QED
    BY <2>1, <1>1, <1>2, FirstStutters
<1> QED
  BY <1>3, <1>4

LEMMA FirstStep ==
  ASSUME IInv, FirstInv, NotTaken \/ ImportEvaluated \/ Use \/ Catch
  PROVE  FirstInv'
<1>1. /\ frames # <<>> /\ Step /\ status' = "running" /\ Top.pc \in DOMAIN Code(Top)
      /\ UNCHANGED <<program, specs, modules, compiling, started, finished>>
  BY StepInv
<1>2. /\ Top = frames[Len(frames)] /\ Len(frames) \in DOMAIN frames /\ Top.pc \in Pos
      /\ Code(Top) \in Seq(Instruction) /\ DOMAIN modules = Ids /\ Framed(specs, frames)
  BY <1>1, FrameFacts
<1>3. Top.pc <= Len(Code(Top))
  BY <1>1, <1>2
<1>4. Instr = At(specs, Top) /\ (Instr.op = "import" => Instr.id \in Ids)
  BY <1>1, <1>3, InstrFacts
<1>5. Instr.op = "import" /\ Instr.guard # "if" => Instr.id \in finished
  <2>1. CASE NotTaken
    BY <2>1 DEF NotTaken
  <2>2. CASE ImportEvaluated
    BY <2>2, <1>2, <1>4 DEF ImportEvaluated, FirstInv
  <2>3. CASE Use
    BY <2>3 DEF Use, Executes
  <2>4. CASE Catch
    BY <2>4 DEF Catch, FirstInv
  <2> QED
    BY <2>1, <2>2, <2>3, <2>4
<1>6. /\ DOMAIN frames' = DOMAIN frames
      /\ \A i \in DOMAIN frames : frames'[i].id = frames[i].id
      /\ \A i \in DOMAIN frames : i = Len(frames) \/ frames'[i].pc = frames[i].pc
      /\ frames'[Len(frames)].pc = Top.pc + 1
  BY <1>1, StepKeeps
<1>7. ASSUME NEW i \in DOMAIN frames
      PROVE  Passed(specs, frames'[i], finished)
  <2> DEFINE f == frames'[i]
  <2>1. Passed(specs, frames[i], finished) /\ f.id = frames[i].id
    BY <1>6 DEF FirstInv
  <2>2. CASE i = Len(frames)
    <3>1. f.pc = Top.pc + 1 /\ f.id = Top.id /\ Passed(specs, Top, finished)
      BY <2>1, <2>2, <1>2, <1>6
    <3>2. DOMAIN specs[Top.id].code \subseteq Nat
      BY <1>2 DEF Code
    <3> HIDE DEF f
    <3>3. Passed(specs, f, finished)
      BY <3>1, <3>2, <1>2, <1>4, <1>5, PassedSteps
    <3> QED
      BY <3>3 DEF f
  <2>3. CASE i # Len(frames)
    <3>1. f.pc = frames[i].pc
      BY <2>3, <1>6
    <3> HIDE DEF f
    <3>2. Passed(specs, f, finished)
      BY <3>1, <2>1 DEF Passed
    <3> QED
      BY <3>2 DEF f
  <2> QED
    BY <2>2, <2>3
<1>8. \A i \in DOMAIN frames' : Passed(specs', frames'[i], finished')
  BY <1>1, <1>6, <1>7
<1>9. \A id \in DOMAIN modules' : modules'[id].evaluated => id \in finished'
  BY <1>1 DEF FirstInv
<1> QED
  BY <1>1, <1>8, <1>9 DEF FirstInv

LEMMA FirstThrow ==
  ASSUME IInv, FirstInv, Throw
  PROVE  FirstInv'
<1>1. UNCHANGED <<program, specs, modules, compiling, frames, started, finished>>
  BY DEF Throw
<1>2. Top.pc \in DOMAIN Code(Top) /\ Instr.op # "import"
  BY ThrowInv
<1>3. /\ Top'.pc \in DOMAIN Code(Top)' /\ Instr'.op # "import"
  BY <1>1, <1>2 DEF Top, Code, Instr
<1>4. \A id \in DOMAIN modules' : modules'[id].evaluated => id \in finished
  BY <1>1 DEF FirstInv
<1> QED
  BY <1>1, <1>3, <1>4, FirstKept DEF Grows

LEMMA FirstLeft ==
  ASSUME IInv, OnceInv, FirstInv, NEW failed \in BOOLEAN, frames # <<>>, Leave(failed),
         compiling = <<>>, failed \/ status = "running"
  PROVE  FirstInv'
<1> DEFINE k == Len(frames) - 1
<1>1. /\ frames' \in Seq(Frame) /\ k \in Nat
      /\ DOMAIN frames' = 1 .. k /\ DOMAIN frames = 1 .. Len(frames)
      /\ \A i \in DOMAIN frames' :
            /\ frames'[i].id = frames[i].id
            /\ (i = k /\ ~failed) \/ frames'[i].pc = frames[i].pc
      /\ Len(frames) # 1 => CallsIt(specs, frames[k], Top.id, Top.by)
      /\ Len(frames) # 1 /\ ~failed => frames'[k].pc = frames[k].pc + 1
      /\ DOMAIN modules' = DOMAIN modules
  BY LeaveInv
<1>2. /\ Top = frames[Len(frames)] /\ Len(frames) \in DOMAIN frames /\ Len(frames) \in Nat
      /\ Top.id \in Ids /\ DOMAIN modules = Ids /\ modules \in Seq(Module)
      /\ Framed(specs, frames) /\ frames \in Seq(Frame) /\ specs \in Seq(Modspec)
  BY FrameFacts, Facts
<1>3. /\ UNCHANGED <<specs, compiling>> /\ finished' = finished \cup {Top.id}
      /\ status' = IF Len(frames) > 1 THEN status ELSE IF failed THEN "failed" ELSE "done"
  BY DEF Leave
<1>4. \A id \in DOMAIN modules' : modules'[id].evaluated => id \in finished'
  <2>1. modules' = modules \/ modules' = [modules EXCEPT ![Top.id].evaluated = TRUE]
    BY DEF Leave
  <2>2. \A id \in DOMAIN modules : id = Top.id \/ modules'[id] = modules[id]
    BY <2>1
  <2> QED
    BY <2>2, <1>1, <1>3 DEF FirstInv
<1>5. Len(frames) # 1 /\ At(specs, frames[k]).op = "import" =>
        At(specs, frames[k]).id = Top.id
  BY <1>1 DEF CallsIt
<1>6. \A i \in DOMAIN frames' : i \in DOMAIN frames /\ Len(frames) # 1
  BY <1>1
<1> HIDE DEF k
<1>7. ASSUME NEW i \in DOMAIN frames'
      PROVE  Passed(specs, frames'[i], finished')
  <2> DEFINE f == frames'[i]
             done == finished'
  <2>1. /\ Passed(specs, frames[i], finished) /\ f.id = frames[i].id /\ finished \subseteq done
        /\ Top.id \in done /\ frames[i].pc \in Pos /\ Len(frames) # 1
    <3>1. frames[i] \in Frame /\ i \in DOMAIN frames /\ Len(frames) # 1
      BY <1>2, <1>6
    <3> QED
      BY <3>1, <1>1, <1>3 DEF FirstInv, Frame
  <2>2. CASE i = k /\ ~failed
    <3>1. f.pc = frames[i].pc + 1
      BY <2>1, <2>2, <1>1
    <3>2. DOMAIN specs[frames[i].id].code \subseteq Nat
      <4>1. specs[frames[i].id] \in Modspec
        BY <1>2, <1>6 DEF Framed
      <4> QED
        BY <4>1 DEF Modspec
    <3>3. At(specs, frames[i]).op = "import" => At(specs, frames[i]).id \in done
      BY <2>1, <2>2, <1>5
    <3> HIDE DEF f, done
    <3>4. Passed(specs, f, done)
      BY <3>1, <3>2, <3>3, <2>1, PassedSteps
    <3> QED
      BY <3>4 DEF f, done
  <2>3. CASE ~(i = k /\ ~failed)
    <3>1. f.pc = frames[i].pc
      BY <2>3, <1>1
    <3> HIDE DEF f, done
    <3>2. Passed(specs, f, done)
      BY <3>1, <2>1 DEF Passed
    <3> QED
      BY <3>2 DEF f, done
  <2> QED
    BY <2>2, <2>3
<1>8. status' = "raising" =>
        /\ Top'.pc \in DOMAIN Code(Top)'
        /\ Instr'.op = "import" => Instr'.id \in finished'
  <2> HAVE status' = "raising"
  <2>1. Len(frames) > 1 /\ status = "raising"
    BY <1>3
  <2>2. failed /\ Len(frames) # 1
    BY <2>1, <1>2
  <2>3. k \in 1 .. k /\ Len(frames') = k
    <3>1. k \in 1 .. k
      BY <2>1, <1>2 DEF k
    <3> DEFINE fs == frames'
    <3>2. fs \in Seq(Frame) /\ DOMAIN fs = 1 .. k /\ k \in Nat
      BY <1>1
    <3> HIDE DEF fs
    <3>3. Len(fs) = k
      BY <3>2
    <3> QED
      BY <3>1, <3>3 DEF fs
  <2>4. Top' = frames'[k]
    BY <2>3 DEF Top
  <2>5. Top'.id = frames[k].id /\ Top'.pc = frames[k].pc
    BY <2>2, <2>3, <2>4, <1>1
  <2>6. Code(Top)' = specs[frames[k].id].code /\ Instr' = At(specs, frames[k])
    BY <2>5, <1>3 DEF Code, Instr, At
  <2> QED
    BY <2>2, <2>5, <2>6, <1>1, <1>3, <1>5 DEF CallsIt
<1> QED
  BY <1>3, <1>4, <1>7, <1>8 DEF FirstInv

LEMMA NextFirst ==
  ASSUME IInv, OnceInv, FirstInv, Acyclic(program), Small(program), [Next]_vars
  PROVE  FirstInv'
<1>1. CASE ImportAgain \/ ImportKnown \/ CompileCall \/ CompileUse
  <2>1. UNCHANGED <<program, specs, modules, frames, status, started, finished>> /\ Compiles
    BY <1>1, StatementAdvances
  <2> QED
    BY <2>1, FirstStutters DEF Grows, Compiles
<1>2. CASE ImportNew
  <2>1. PICK n \in DOMAIN program, moved \in BOOLEAN :
          /\ Parses("import") /\ Named(n) = {} /\ NewModspec(n, moved)
          /\ UNCHANGED <<status, finished>>
    BY <1>2, ImportNewKeeps
  <2>2. status = "running"
    BY <2>1 DEF Parses, Compiles
  <2> QED
    BY <2>1, <2>2, FirstAdded
<1>3. CASE CompileFails
  BY <1>3, FirstFails
<1>4. CASE CompileEnd
  BY <1>4, FirstEnd
<1>5. CASE NotTaken \/ ImportEvaluated \/ Use \/ Catch
  BY <1>5, FirstStep
<1>6. CASE ImportModule
  BY <1>6, FirstImport
<1>7. CASE DynamicImport
  <2>1. /\ status = "running" /\ status' = status /\ finished' = finished
        /\ Instr.arg \in DOMAIN program
    BY <1>7 DEF DynamicImport, Executes, Runs
  <2>2. CASE Named(Instr.arg) # {}
    <3>1. UNCHANGED <<specs, modules, frames>>
      BY <1>7, <2>2 DEF DynamicImport
    <3> QED
      BY <2>1, <3>1, FirstStutters DEF Grows
  <2>3. CASE Named(Instr.arg) = {}
    <3>1. PICK moved \in BOOLEAN : NewModspec(Instr.arg, moved)
      BY <1>7, <2>3 DEF DynamicImport
    <3> QED
      BY <2>1, <2>3, <3>1, FirstAdded
  <2> QED
    BY <2>2, <2>3
<1>8. CASE Throw
  BY <1>8, FirstThrow
<1>9. CASE Halt
  BY <1>9, HaltInv, FirstLeft
<1>10. CASE Unwind
  BY <1>10, UnwindInv, FirstLeft
<1>11. CASE UNCHANGED vars
  <2>1. Top' = Top /\ Code(Top)' = Code(Top) /\ Instr' = Instr /\ status' = status
    BY <1>11 DEF vars, Top, Code, Instr
  <2>2. UNCHANGED <<modules, frames, finished, specs>>
    BY <1>11 DEF vars
  <2> QED
    BY <2>1, <2>2 DEF FirstInv
<1> QED
  BY <1>1, <1>2, <1>3, <1>4, <1>5, <1>6, <1>7, <1>8, <1>9, <1>10, <1>11
     DEF Next, Compile, Execute

(* The import that covers a statement of the source is before the          *)
(* instruction that a body stands at, and is not in a branch if the         *)
(* statement is not.                                                       *)
LEMMA ImportsCovered ==
  ASSUME IInv, FirstInv, Branches(program), NEW i \in DOMAIN frames,
         frames[i].pc <= Len(Code(frames[i])),
         NEW j \in 1 .. Code(frames[i])[frames[i].pc].at - 1,
         program[specs[frames[i].id].name][j].op = "import",
         program[specs[frames[i].id].name][j].guard # "if"
  PROVE  \E id \in finished : specs[id].name = program[specs[frames[i].id].name][j].arg
<1> DEFINE n == specs[frames[i].id].name
           code == Code(frames[i])
           pc == frames[i].pc
           s == program[n][j]
<1>1. /\ frames[i].id \in Ids /\ specs[frames[i].id].compiled /\ pc \in Pos
      /\ specs[frames[i].id] \in Modspec
  <2>1. frames \in Seq(Frame) /\ Framed(specs, frames)
    BY DEF IInv, Types
  <2>2. frames[i] \in Frame /\ frames[i].id \in Ids /\ specs[frames[i].id].compiled
    BY <2>1 DEF Framed, Ids
  <2> QED
    BY <2>2, Facts DEF Frame
<1>2. /\ n \in DOMAIN program /\ program[n] \in Seq(Statement) /\ code \in Seq(Instruction)
      /\ Translates(program, specs, n, code, Len(program[n]) + 1)
  BY <1>1, Facts DEF Modspec, Code, IInv, Table, Ids
<1>3. pc \in DOMAIN code
  BY <1>1, <1>2
<1>4. \A k \in DOMAIN code : code[k].at \in Nat
  <2>1. \A k \in DOMAIN code : code[k] \in Instruction
    BY <1>2
  <2> QED
    BY <2>1 DEF Instruction
<1> HIDE DEF code, n, pc
<1>5. code[pc].at \in DOMAIN program[n] /\ code[pc].at \in Nat
  BY <1>2, <1>3, <1>4 DEF Translates
<1>6. j \in DOMAIN program[n] /\ j < code[pc].at /\ j \in Nat
  <2>1. j \in 1 .. code[pc].at - 1
    BY DEF code, pc
  <2> QED
    BY <2>1, <1>2, <1>5
<1>7. j < Len(program[n]) + 1 /\ s.op = "import" /\ s.guard # "if"
  BY <1>2, <1>6 DEF n
<1>8. PICK k \in DOMAIN code : code[k].op = "import" /\ code[k].arg = s.arg /\ code[k].at <= j
  BY <1>2, <1>6, <1>7 DEF Translates
<1>9. code[k].at < code[pc].at /\ k \in Nat /\ pc \in Nat
  BY <1>2, <1>1, <1>4, <1>5, <1>6, <1>8
<1>10. k < pc
  <2>1. pc < k => code[pc].at < code[k].at
    BY <1>2, <1>3 DEF Translates
  <2>2. k # pc
    BY <1>9, <1>5
  <2> QED
    BY <2>1, <2>2, <1>4, <1>5, <1>9
<1>11. code[k].guard # "if"
  <2>1. /\ code[k].at \in DOMAIN program[n] /\ program[n][code[k].at].op = "import"
        /\ program[n][code[k].at].arg = s.arg /\ program[n][code[k].at].guard = code[k].guard
    BY <1>2, <1>8 DEF Translates
  <2>2. CASE code[k].at = j
    BY <2>1, <2>2, <1>7
  <2>3. CASE code[k].at # j
    <3>1. code[k].at < j
      BY <2>3, <1>4, <1>6, <1>8
    <3>2. code[k].at \in Statements(program, n, "import") /\ j \in Statements(program, n, "import")
      BY <2>1, <1>6, <1>7 DEF Statements
    <3> QED
      BY <3>1, <3>2, <2>1, <1>2, <1>7 DEF Branches
  <2> QED
    BY <2>2, <2>3
<1>12. code[k].id \in finished /\ specs[code[k].id].name = s.arg
  <2>1. Passed(specs, frames[i], finished)
    BY DEF FirstInv
  <2>2. code[k].id \in finished
    BY <2>1, <1>8, <1>10, <1>11 DEF Passed, Code, code, pc
  <2> QED
    BY <2>2, <1>2, <1>8 DEF Translates
<1> QED
  BY <1>12 DEF n

LEMMA InitFirst == ASSUME Init PROVE FirstInv
BY DEF Init, FirstInv

(* Past an import statement a body may rely on the imported module: its own *)
(* body has run. For that no files may import each other, what is imported *)
(* in a branch is not to be relied on outside, and the limit on the depth   *)
(* of bodies is out of reach: a body that it stops is taken for evaluated.  *)
THEOREM ImportsAlwaysFirst ==
  ASSUME \A p \in Programs : Acyclic(p) /\ Separate(p) /\ Branches(p) /\ Small(p)
  PROVE  Spec => []ImportsRunFirst
<1>1. IInv => Acyclic(program) /\ Separate(program) /\ Branches(program) /\ Small(program)
  BY DEF IInv, Types
<1>2. Init => OnceInv /\ FirstInv
  BY InitOnce, InitFirst
<1>3. IInv /\ OnceInv /\ FirstInv /\ [Next]_vars => OnceInv' /\ FirstInv'
  BY <1>1, NextOnce, NextFirst
<1>4. IInv /\ FirstInv => ImportsRunFirst
  BY <1>1, ImportsCovered DEF ImportsRunFirst
<1> QED
  BY <1>2, <1>3, <1>4, Inductive, PTL DEF Spec
-----------------------------------------------------------------------------
LEMMA AheadSame ==
  ASSUME NEW sp, NEW sp2, NEW f, NEW f2, NEW n, NEW m, Grows(sp, sp2), f.id \in DOMAIN sp,
         sp[f.id].compiled, f2.id = f.id, f2.pc = f.pc, CallAhead(sp2, f2, n, m)
  PROVE  CallAhead(sp, f, n, m)
BY DEF CallAhead, Grows

LEMMA AheadStepped ==
  ASSUME NEW sp, NEW f, f.pc \in Pos, NEW f2, NEW n, NEW m, DOMAIN sp[f.id].code \subseteq Nat,
         f2.id = f.id, f2.pc = f.pc + 1, CallAhead(sp, f2, n, m)
  PROVE  CallAhead(sp, f, n, m) /\ m # f.pc
<1>1. m \in Nat /\ m >= f.pc + 1
  BY DEF CallAhead
<1>2. m >= f.pc /\ m # f.pc
  BY <1>1
<1> QED
  BY <1>2 DEF CallAhead

(* A call of module::import_ ahead is one of the program.                  *)
LEMMA AheadCalls ==
  ASSUME NEW p, NEW sp, Table(p, sp), NEW f, f.id \in DOMAIN sp, sp[f.id].compiled,
         NEW n, NEW m, CallAhead(sp, f, n, m)
  PROVE  <<sp[f.id].name, sp[f.id].code[m].at>> \in Calls(p, n)
<1> DEFINE g == sp[f.id].name
           i == sp[f.id].code[m]
<1>1. Translates(p, sp, g, sp[f.id].code, Len(p[g]) + 1) /\ g \in DOMAIN p
      /\ m \in DOMAIN sp[f.id].code /\ i.op = "import_" /\ i.arg = n
  BY DEF Table, CallAhead
<1>2. i.at \in DOMAIN p[g] /\ p[g][i.at].op = "import_" /\ p[g][i.at].arg = n
  BY <1>1 DEF Translates
<1> HIDE DEF g, i
<1>3. i.at \in {j \in Statements(p, g, "import_") : p[g][j].arg = n}
  BY <1>2 DEF Statements
<1>4. <<g, i.at>> \in {<<g, j>> : j \in {l \in Statements(p, g, "import_") : p[g][l].arg = n}}
  BY <1>3
<1>5. <<g, i.at>> \in Calls(p, n)
  BY <1>1, <1>4 DEF Calls
<1> QED
  BY <1>5 DEF g, i

LEMMA FramesOk ==
  ASSUME IInv
  PROVE  /\ frames \in Seq(Frame) /\ DOMAIN frames = 1 .. Len(frames) /\ Len(frames) \in Nat
         /\ \A k \in DOMAIN frames :
              /\ frames[k].id \in Ids /\ frames[k].id \in DOMAIN specs
              /\ specs[frames[k].id].compiled /\ frames[k].pc \in Pos
              /\ DOMAIN specs[frames[k].id].code \subseteq Nat
              /\ Code(frames[k]) = specs[frames[k].id].code
<1>1. frames \in Seq(Frame) /\ Framed(specs, frames) /\ specs \in Seq(Modspec)
  BY DEF IInv, Types
<1>2. DOMAIN frames = 1 .. Len(frames) /\ Len(frames) \in Nat
      /\ \A k \in DOMAIN frames : frames[k] \in Frame
  BY <1>1
<1>3. \A k \in DOMAIN frames : frames[k].id \in DOMAIN specs /\ specs[frames[k].id].compiled
  BY <1>1 DEF Framed
<1>4. \A k \in DOMAIN frames : specs[frames[k].id] \in Modspec
  BY <1>1, <1>3
<1>5. \A k \in DOMAIN frames : DOMAIN specs[frames[k].id].code \subseteq Nat
  BY <1>4 DEF Modspec
<1> QED
  BY <1>1, <1>2, <1>3, <1>5 DEF Frame, Code, Ids

(* Frames whose places did not change, and no modspec that module::import_  *)
(* may name.                                                               *)
LEMMA CallKept ==
  ASSUME IInv, CallInv, Grows(specs, specs'), program' = program, started' = started,
         DOMAIN frames' = DOMAIN frames, Len(frames') = Len(frames),
         \A i \in DOMAIN frames : frames'[i].id = frames[i].id /\ frames'[i].pc = frames[i].pc,
         (compiling = <<>> /\ status = "running") \/ compiling' # <<>> \/ status' # "running",
         \A id \in DOMAIN specs' : id \in Ids \/ Calls(program, specs'[id].name) = {},
         Table(program, specs')
  PROVE  CallInv'
<1>1. /\ \A k \in DOMAIN frames : /\ frames[k].id \in DOMAIN specs /\ specs[frames[k].id].compiled
                                  /\ Code(frames[k]) = specs[frames[k].id].code
      /\ DOMAIN started \subseteq Ids
  BY FramesOk DEF IInv, Types
<1>2. ASSUME NEW id \in DOMAIN specs', NEW k \in DOMAIN frames', NEW m,
             CallAhead(specs', frames'[k], specs'[id].name, m)
      PROVE  m = frames'[k].pc /\ (k < Len(frames') \/ compiling' # <<>> \/ status' # "running")
  <2> DEFINE sp == specs'
             f == frames'[k]
             n == sp[id].name
  <2>1. Grows(specs, sp) /\ f.id = frames[k].id /\ f.pc = frames[k].pc /\ CallAhead(sp, f, n, m)
        /\ frames[k].id \in DOMAIN specs /\ specs[frames[k].id].compiled
    BY <1>1, <1>2
  <2>2. Table(program, sp) /\ f.id \in DOMAIN sp /\ sp[f.id].compiled
    BY <2>1 DEF Grows
  <2>3. id \in Ids => n = specs[id].name
    BY DEF Grows, Ids
  <2>4. id \in Ids \/ Calls(program, n) = {}
    OBVIOUS
  <2>5. f.pc = frames'[k].pc
    OBVIOUS
  <2> HIDE DEF sp, f, n
  <2>6. Calls(program, n) # {}
    BY <2>1, <2>2, AheadCalls
  <2>7. CallAhead(specs, frames[k], n, m)
    BY <2>1, AheadSame
  <2>8. m \in DOMAIN Code(frames[k])
    BY <2>7, <1>1 DEF CallAhead
  <2>9. m = frames[k].pc /\ (k < Len(frames) \/ compiling # <<>> \/ status # "running")
    BY <2>3, <2>4, <2>6, <2>7, <2>8 DEF CallInv
  <2> QED
    BY <2>1, <2>5, <2>9
<1>3. ASSUME NEW id \in DOMAIN specs', NEW c \in Calls(program, specs'[id].name)
      PROVE  \E s \in DOMAIN started : specs'[s].name = c[1]
  <2>1. id \in Ids /\ specs'[id].name = specs[id].name
    BY <1>3 DEF Grows, Ids
  <2>2. PICK s \in DOMAIN started : specs[s].name = c[1]
    BY <2>1, <1>3 DEF CallInv
  <2>3. specs'[s].name = specs[s].name
    BY <1>1 DEF Grows, Ids
  <2> QED
    BY <2>2, <2>3
<1> QED
  BY <1>2, <1>3 DEF CallInv, Ids

LEMMA CallIsAt ==
  ASSUME CallInv, NEW id \in Ids, NEW k \in DOMAIN frames, NEW m \in DOMAIN Code(frames[k]),
         CallAhead(specs, frames[k], specs[id].name, m)
  PROVE  m = frames[k].pc
BY DEF CallInv

(* A body that is entered calls module::import_ of nothing that has a       *)
(* modspec: nobody else does.                                              *)
LEMMA CallEntered ==
  ASSUME IInv, CallInv, NEW id \in Ids, id \in Pos, id \notin DOMAIN started,
         NEW by, NEW ms, Evaluate(id, by, ms), program' = program,
         Grows(specs, specs'), DOMAIN specs' = DOMAIN specs, specs' \in Seq(Modspec),
         Table(program, specs'), specs'[id].compiled, status = "running"
  PROVE  CallInv'
<1>1. /\ frames \in Seq(Frame) /\ DOMAIN frames = 1 .. Len(frames) /\ Len(frames) \in Nat
      /\ \A k \in DOMAIN frames : /\ frames[k].id \in DOMAIN specs /\ specs[frames[k].id].compiled
                                  /\ Code(frames[k]) = specs[frames[k].id].code
      /\ DOMAIN started \subseteq Ids
  BY FramesOk DEF IInv, Types
<1>2. CASE /\ Len(frames) + 1 < MaxDepth /\ modules' = ms
           /\ frames' = Append(frames, BodyFrame(id, by))
           /\ started' = Entered(started, id) /\ UNCHANGED <<status, finished>>
  <2> DEFINE f == BodyFrame(id, by)
             sp == specs'
             fs == frames'
             N == Len(frames)
  <2>1. f.id = id /\ f.pc = 1
    BY DEF BodyFrame
  <2>2. fs = Append(frames, f)
    BY <1>2
  <2>3. Grows(specs, sp) /\ DOMAIN sp = DOMAIN specs /\ Table(program, sp) /\ sp[id].compiled
        /\ id \in DOMAIN sp
    BY DEF Ids
  <2>4. Entered(started, id) = started' /\ DOMAIN started \subseteq DOMAIN started'
    BY <1>2 DEF Entered
  <2> HIDE DEF f, fs, sp
  <2>5. DOMAIN fs = 1 .. N + 1 /\ Len(fs) = N + 1 /\ fs[N + 1] = f
        /\ \A k \in 1 .. N : fs[k] = frames[k]
    BY <2>2, <1>1
  <2> HIDE DEF N
  <2>6. N \in Nat /\ DOMAIN frames = 1 .. N /\ \A k \in 1 .. N + 1 : k = N + 1 \/ (k \in 1 .. N /\ k < N + 1)
    BY <1>1 DEF N
  <2>7. \A n, m : ~(n \in {sp[i].name : i \in Ids} /\ CallAhead(sp, f, n, m))
    <3> SUFFICES ASSUME NEW i \in Ids, NEW m, CallAhead(sp, f, sp[i].name, m) PROVE FALSE
      OBVIOUS
    <3>1. <<sp[f.id].name, sp[f.id].code[m].at>> \in Calls(program, sp[i].name)
      BY <2>1, <2>3, AheadCalls
    <3>2. sp[i].name = specs[i].name /\ sp[id].name = specs[id].name
      BY <2>3 DEF Grows, Ids
    <3>3. PICK c \in Calls(program, specs[i].name) : c[1] = specs[id].name
      BY <3>1, <3>2, <2>1
    <3>4. PICK s \in DOMAIN started : specs[s].name = specs[id].name
      BY <3>3 DEF CallInv
    <3> QED
      BY <3>4, <1>1 DEF IInv, Table, Ids
  <2>8. ASSUME NEW i \in DOMAIN sp, NEW k \in DOMAIN fs, NEW m,
               CallAhead(sp, fs[k], sp[i].name, m)
        PROVE  m = fs[k].pc /\ k < Len(fs)
    <3>1. k \in 1 .. N /\ k < N + 1
      BY <2>3, <2>5, <2>6, <2>7, <2>8 DEF Ids
    <3>2. fs[k] = frames[k] /\ i \in Ids /\ sp[i].name = specs[i].name /\ k \in DOMAIN frames
      BY <3>1, <2>3, <2>5, <2>6 DEF Grows, Ids
    <3>3. CallAhead(sp, frames[k], sp[i].name, m)
      BY <3>2, <2>8
    <3>4. CallAhead(specs, frames[k], sp[i].name, m)
      BY <3>2, <3>3, <2>3, <1>1, AheadSame
    <3>5. CallAhead(specs, frames[k], specs[i].name, m)
      BY <3>2, <3>4
    <3>6. m \in DOMAIN Code(frames[k])
      BY <3>2, <3>4, <1>1 DEF CallAhead
    <3>7. m = frames[k].pc
      BY <3>2, <3>5, <3>6, CallIsAt
    <3> QED
      BY <3>1, <3>2, <3>7, <2>5
  <2>9. ASSUME NEW i \in DOMAIN sp, NEW c \in Calls(program, sp[i].name)
        PROVE  \E s \in DOMAIN started' : sp[s].name = c[1]
    <3>1. i \in Ids /\ sp[i].name = specs[i].name
      BY <2>3 DEF Grows, Ids
    <3>2. PICK s \in DOMAIN started : specs[s].name = c[1]
      BY <3>1, <2>9 DEF CallInv
    <3>3. sp[s].name = specs[s].name
      BY <1>1, <2>3 DEF Grows, Ids
    <3> QED
      BY <3>2, <3>3, <2>4
  <2> QED
    BY <2>8, <2>9 DEF CallInv, Ids, fs, sp
<1>3. CASE /\ ~(Len(frames) + 1 < MaxDepth) /\ frames # <<>> /\ status' = "raising"
           /\ modules' = [ms EXCEPT ![id].evaluated = TRUE]
           /\ UNCHANGED <<frames, started, finished>>
  BY <1>3, CallKept DEF Ids
<1> QED
  BY <1>2, <1>3, EvaluateKeeps

(* The innermost frame goes past an instruction, and what it calls next has *)
(* no modspec.                                                             *)
LEMMA CallWent ==
  ASSUME IInv, CallInv, UNCHANGED <<program, specs, started>>, NEW N \in Nat,
         DOMAIN frames' = 1 .. N, Len(frames') = N, DOMAIN frames' \subseteq DOMAIN frames,
         \A i \in DOMAIN frames' : frames'[i].id = frames[i].id,
         \A i \in DOMAIN frames' : i = N \/ frames'[i].pc = frames[i].pc,
         N \in DOMAIN frames' => \/ frames'[N].pc = frames[N].pc + 1
                                 \/ frames'[N].pc = frames[N].pc /\ status' # "running"
  PROVE  CallInv'
<1>1. \A k \in DOMAIN frames :
           /\ frames[k].id \in DOMAIN specs /\ specs[frames[k].id].compiled
           /\ Code(frames[k]) = specs[frames[k].id].code /\ frames[k].pc \in Pos
           /\ DOMAIN specs[frames[k].id].code \subseteq Nat
  BY FramesOk
<1>2. Grows(specs, specs)
  BY DEF Grows
<1>3. ASSUME NEW id \in Ids, NEW k \in DOMAIN frames', NEW m,
             CallAhead(specs, frames'[k], specs[id].name, m)
      PROVE  m = frames'[k].pc /\ (k < N \/ status' # "running")
  <2> DEFINE f == frames'[k]
             n == specs[id].name
  <2>1. k \in DOMAIN frames /\ f.id = frames[k].id /\ CallAhead(specs, f, n, m)
    BY <1>3
  <2>2. \A j : CallAhead(specs, frames[k], n, j) => j = frames[k].pc
    BY <1>1, <2>1 DEF CallInv, CallAhead
  <2>3. f = frames'[k]
    OBVIOUS
  <2> HIDE DEF f, n
  <2>4. CASE f.pc = frames[k].pc
    <3>1. CallAhead(specs, frames[k], n, m)
      BY <2>1, <2>4, <1>1, <1>2, AheadSame
    <3>2. m = f.pc
      BY <3>1, <2>2, <2>4
    <3>3. k < N \/ status' # "running"
      <4>1. CASE k = N
        <5>1. frames[k].pc \in Nat
          BY <2>1, <1>1
        <5>2. f.pc # frames[k].pc + 1
          BY <5>1, <2>4
        <5> QED
          BY <4>1, <5>2, <2>3
      <4>2. CASE k # N
        BY <4>2
      <4> QED
        BY <4>1, <4>2
    <3> QED
      BY <3>2, <3>3, <2>3
  <2>5. CASE f.pc = frames[k].pc + 1
    <3>1. CallAhead(specs, frames[k], n, m) /\ m # frames[k].pc
      BY <2>1, <2>5, <1>1, AheadStepped
    <3> QED
      BY <3>1, <2>2
  <2> QED
    BY <2>3, <2>4, <2>5
<1>4. \A id \in Ids : \A c \in Calls(program, specs[id].name) :
        \E s \in DOMAIN started : specs[s].name = c[1]
  BY DEF CallInv
<1> QED
  BY <1>3, <1>4 DEF CallInv, Ids

LEMMA CallLeft ==
  ASSUME IInv, CallInv, NEW failed \in BOOLEAN, frames # <<>>, Leave(failed), compiling = <<>>,
         failed => status = "raising"
  PROVE  CallInv'
<1> DEFINE N == Len(frames) - 1
           fs == frames'
<1>1. /\ fs \in Seq(Frame) /\ N \in Nat /\ DOMAIN fs = 1 .. N /\ DOMAIN frames = 1 .. Len(frames)
      /\ \A i \in DOMAIN fs :
            /\ fs[i].id = frames[i].id
            /\ (i = N /\ ~failed) \/ fs[i].pc = frames[i].pc
      /\ Len(frames) # 1 /\ ~failed => fs[N].pc = frames[N].pc + 1
  BY LeaveInv
<1>2. Len(frames) \in Pos
  BY FrameFacts
<1>3. /\ UNCHANGED <<program, specs, started>>
      /\ status' = IF Len(frames) > 1 THEN status ELSE IF failed THEN "failed" ELSE "done"
  BY DEF Leave
<1>4. DOMAIN fs \subseteq DOMAIN frames /\ (N \in DOMAIN fs => Len(frames) # 1 /\ Len(frames) > 1)
  BY <1>1, <1>2
<1> HIDE DEF N, fs
<1>5. Len(fs) = N
  BY <1>1
<1>6. N \in DOMAIN fs => \/ fs[N].pc = frames[N].pc + 1
                         \/ fs[N].pc = frames[N].pc /\ status' # "running"
  BY <1>1, <1>3, <1>4
<1>7. \A i \in DOMAIN fs : i = N \/ fs[i].pc = frames[i].pc
  BY <1>1
<1> QED
  BY <1>1, <1>3, <1>4, <1>5, <1>6, <1>7, CallWent DEF fs

(* What module::import_ is asked for has no modspec.                       *)
LEMMA ImportIsNew ==
  ASSUME IInv, CallInv, DynamicImport
  PROVE  Named(Instr.arg) = {}
<1>1. /\ Top.pc <= Len(Code(Top)) /\ Instr.op = "import_" /\ frames # <<>> /\ compiling = <<>>
      /\ status = "running"
  BY DEF DynamicImport, Executes, Runs
<1>2. /\ Top.pc \in DOMAIN Code(Top) /\ Instr = Code(Top)[Top.pc] /\ Top = frames[Len(frames)]
      /\ Len(frames) \in DOMAIN frames /\ Top.pc \in Pos /\ Len(frames) \in Nat
  BY <1>1, InstrFacts, FrameFacts
<1>3. CallAhead(specs, Top, Instr.arg, Top.pc)
  BY <1>1, <1>2 DEF CallAhead, Code
<1> SUFFICES ASSUME NEW id \in Ids, specs[id].name = Instr.arg PROVE FALSE
  BY DEF Named
<1>4. CallAhead(specs, frames[Len(frames)], specs[id].name, Top.pc)
      /\ Top.pc \in DOMAIN Code(frames[Len(frames)])
  BY <1>2, <1>3
<1>5. Len(frames) < Len(frames) \/ compiling # <<>> \/ status # "running"
  BY <1>2, <1>4 DEF CallInv
<1> QED
  BY <1>1, <1>2, <1>5

LEMMA CallDynamic ==
  ASSUME IInv, OnceInv, CallInv, OneWay(program), DynamicImport
  PROVE  CallInv'
<1> DEFINE n == Instr.arg
           sp == specs'
<1>1. /\ Top.pc <= Len(Code(Top)) /\ Instr.op = "import_" /\ frames # <<>>
      /\ n \in DOMAIN program /\ UNCHANGED <<program, status, started>>
  BY DEF DynamicImport, Executes, Runs
<1>2. PICK moved \in BOOLEAN : NewModspec(n, moved)
  BY ImportIsNew DEF DynamicImport
<1>3. compiling' = <<CompileFrame(Len(specs'))>>
  BY ImportIsNew DEF DynamicImport
<1>4. /\ sp \in Seq(Modspec) /\ Table(program, sp) /\ Grows(specs, sp)
      /\ DOMAIN sp = Ids \cup {Len(sp)} /\ Len(sp) \notin Ids
      /\ sp[Len(sp)] = NotCompiled(n) /\ \A id \in Ids : sp[id] = specs[id]
      /\ Len(frames') = Len(frames) /\ DOMAIN frames' = DOMAIN frames
      /\ \A i \in DOMAIN frames : frames'[i].id = frames[i].id /\ frames'[i].pc = frames[i].pc
  BY <1>1, <1>2, ImportIsNew, NewModspecKeeps
<1>5. /\ Top.pc \in DOMAIN Code(Top) /\ Instr = Code(Top)[Top.pc] /\ Top = frames[Len(frames)]
      /\ Len(frames) \in DOMAIN frames /\ Top.id \in Ids /\ specs[Top.id].compiled
      /\ Top.id \in DOMAIN specs /\ Top.pc \in Pos
  BY <1>1, InstrFacts, FrameFacts DEF Ids
<1>6. \A k \in DOMAIN frames :
           /\ frames[k].id \in DOMAIN specs /\ specs[frames[k].id].compiled
           /\ Code(frames[k]) = specs[frames[k].id].code
  BY FramesOk
<1>7. CallAhead(specs, Top, n, Top.pc)
  BY <1>1, <1>5 DEF CallAhead, Code
<1>8. Table(program, specs)
  BY DEF IInv
<1> DEFINE here == <<specs[Top.id].name, specs[Top.id].code[Top.pc].at>>
<1>9. here \in Calls(program, n)
  BY <1>5, <1>7, <1>8, AheadCalls
<1>10. \A c \in Calls(program, n) : c = here
  BY <1>1, <1>9 DEF OneWay
<1> HIDE DEF here
<1>11. NotCompiled(n).name = n
  BY DEF NotCompiled
<1> HIDE DEF n, sp
<1>12. ASSUME NEW k \in DOMAIN frames, NEW m, CallAhead(specs, frames[k], n, m)
       PROVE  m = frames[k].pc
  <2>1. <<specs[frames[k].id].name, specs[frames[k].id].code[m].at>> \in Calls(program, n)
    BY <1>6, <1>8, <1>12, AheadCalls
  <2>2. <<specs[frames[k].id].name, specs[frames[k].id].code[m].at>> = here
    BY <2>1, <1>10
  <2>3. /\ specs[frames[k].id].name = specs[Top.id].name
        /\ specs[frames[k].id].code[m].at = specs[Top.id].code[Top.pc].at
    BY <2>2 DEF here
  <2>4. frames[k].id = Top.id
    BY <2>3, <1>5, <1>6, <1>8 DEF Table
  <2>5. k = Len(frames)
    BY <2>4, <1>5 DEF OnceInv
  <2>6. Translates(program, specs, specs[Top.id].name, Code(Top),
                   Len(program[specs[Top.id].name]) + 1)
    BY <1>5, <1>8 DEF Table, Code
  <2>7. m \in DOMAIN Code(Top) /\ Code(Top)[m].at = Code(Top)[Top.pc].at
    BY <2>3, <2>4, <2>5, <1>5, <1>12 DEF CallAhead, Code
  <2>8. /\ m < Top.pc => Code(Top)[m].at < Code(Top)[Top.pc].at
        /\ Top.pc < m => Code(Top)[Top.pc].at < Code(Top)[m].at
    BY <2>6, <2>7, <1>5 DEF Translates
  <2>9. Code(Top)[m].at \in Nat /\ m \in Nat /\ Top.pc \in Nat
    <3>1. Code(Top) \in Seq(Instruction)
      BY <1>1, FrameFacts
    <3>2. Code(Top)[m] \in Instruction /\ m \in Nat
      BY <3>1, <2>7
    <3> QED
      BY <3>2, <1>5 DEF Instruction
  <2>10. m = Top.pc
    BY <2>7, <2>8, <2>9
  <2> QED
    BY <2>5, <2>10, <1>5
<1>13. ASSUME NEW id \in DOMAIN sp, NEW k \in DOMAIN frames', NEW m,
              CallAhead(sp, frames'[k], sp[id].name, m)
       PROVE  m = frames'[k].pc
  <2> DEFINE f == frames'[k]
  <2>1. f.id = frames[k].id /\ f.pc = frames[k].pc /\ CallAhead(sp, f, sp[id].name, m)
        /\ k \in DOMAIN frames /\ f.pc = frames'[k].pc
    BY <1>4, <1>13
  <2> HIDE DEF f
  <2>2. CallAhead(specs, frames[k], sp[id].name, m)
    BY <2>1, <1>4, <1>6, AheadSame
  <2>3. CASE id \in Ids
    <3>1. CallAhead(specs, frames[k], specs[id].name, m) /\ m \in DOMAIN Code(frames[k])
      BY <2>1, <2>2, <2>3, <1>4, <1>6 DEF CallAhead
    <3> QED
      BY <3>1, <2>1, <2>3 DEF CallInv
  <2>4. CASE id = Len(sp)
    BY <2>1, <2>2, <2>4, <1>4, <1>11, <1>12
  <2> QED
    BY <2>3, <2>4, <1>4
<1>14. ASSUME NEW id \in DOMAIN sp, NEW c \in Calls(program, sp[id].name)
       PROVE  \E s \in DOMAIN started : sp[s].name = c[1]
  <2>0. DOMAIN started \subseteq Ids
    BY DEF IInv, Types
  <2>1. CASE id \in Ids
    <3>1. PICK s \in DOMAIN started : specs[s].name = c[1]
      BY <2>1, <1>4, <1>14 DEF CallInv
    <3> QED
      BY <3>1, <2>0, <1>4
  <2>2. CASE id = Len(sp)
    <3>1. c = here /\ Top.id \in DOMAIN started
      BY <2>2, <1>4, <1>5, <1>10, <1>11, <1>14 DEF OnceInv
    <3> QED
      BY <3>1, <1>4, <1>5 DEF here
  <2> QED
    BY <2>1, <2>2, <1>4
<1>15. compiling' # <<>>
  BY <1>3
<1> QED
  BY <1>1, <1>13, <1>14, <1>15 DEF CallInv, Ids, sp

LEMMA InitCall ==
  ASSUME Init, OneWay(program)
  PROVE  CallInv
<1>1. frames = <<>> /\ specs = <<NotCompiled(Main)>> /\ Main \in DOMAIN program
  BY ProgramsAssumption DEF Init
<1>2. Ids = {1} /\ specs[1].name = Main
  BY <1>1 DEF Ids, NotCompiled
<1>3. Calls(program, Main) = {}
  BY <1>1 DEF OneWay
<1> QED
  BY <1>1, <1>2, <1>3 DEF CallInv

LEMMA CallNew ==
  ASSUME IInv, CallInv, OneWay(program), ImportNew
  PROVE  CallInv'
<1>1. PICK n \in DOMAIN program, moved \in BOOLEAN :
           /\ Parses("import") /\ n = Source[Compiler.pos].arg
           /\ Named(n) = {} /\ NewModspec(n, moved)
           /\ compiling' = Append(compiling, CompileFrame(Len(specs')))
           /\ UNCHANGED <<program, status, started, finished>>
  BY ImportNewKeeps
<1>2. n \in ByStatement(program)
  <2>1. /\ Compiler.pos \in DOMAIN Source /\ Source[Compiler.pos].op = "import"
        /\ Source = program[specs[Compiler.id].name] /\ specs[Compiler.id].name \in DOMAIN program
    BY <1>1, NextStatement, CurrentFile, Facts
  <2>2. n \in Files(program, specs[Compiler.id].name, "import")
    BY <2>1, <1>1 DEF Files, Statements
  <2> QED
    BY <2>1, <2>2 DEF ByStatement
<1>3. Calls(program, n) = {}
  BY <1>2 DEF OneWay
<1> DEFINE sp == specs'
           fs == frames'
<1>4. /\ Table(program, sp) /\ Grows(specs, sp) /\ DOMAIN sp = Ids \cup {Len(sp)}
      /\ sp[Len(sp)] = NotCompiled(n) /\ Len(fs) = Len(frames) /\ DOMAIN fs = DOMAIN frames
      /\ \A i \in DOMAIN frames : fs[i].id = frames[i].id /\ fs[i].pc = frames[i].pc
  BY <1>1, NewModspecKeeps
<1> HIDE DEF sp, fs
<1>5. \A id \in DOMAIN sp : id \in Ids \/ Calls(program, sp[id].name) = {}
  <2>1. NotCompiled(n).name = n
    BY DEF NotCompiled
  <2>2. sp[Len(sp)].name = n
    BY <2>1, <1>4
  <2> QED
    BY <2>2, <1>3, <1>4
<1>6. DOMAIN compiling' = DOMAIN compiling \cup {Len(compiling) + 1}
  BY ImportNewInv
<1>7. compiling' # <<>> /\ program' = program /\ started' = started
  BY <1>1, <1>6
<1> QED
  BY <1>4, <1>5, <1>7, CallKept DEF sp, fs

LEMMA CallEnd ==
  ASSUME IInv, OnceInv, CallInv, CompileEnd
  PROVE  CallInv'
<1>1. Compiles /\ program' = program /\ Grows(specs, specs) /\ Table(program, specs)
  BY DEF CompileEnd, Grows, IInv
<1>2. CASE specs[Compiler.id].compiled
  <2>1. UNCHANGED <<specs, frames, started>> /\ status' = "aborted"
    BY <1>2 DEF CompileEnd
  <2>2. Grows(specs, specs') /\ Table(program, specs') /\ DOMAIN specs' = Ids
    BY <2>1, <1>1 DEF Ids
  <2> QED
    BY <2>1, <2>2, <1>1, CallKept
<1>3. CASE ~specs[Compiler.id].compiled /\ Len(compiling) # 1
  <2>1. /\ UNCHANGED <<program, frames, started>> /\ Len(compiling) - 1 \in Pos
        /\ DOMAIN compiling' = 1 .. Len(compiling) - 1
    BY <1>3, ImporterGoesOn
  <2>2. Grows(specs, specs') /\ Table(program, specs') /\ DOMAIN specs' = Ids
    BY <1>3, CompileEndSets DEF Ids
  <2>3. compiling' # <<>>
    BY <2>1
  <2> QED
    BY <2>1, <2>2, <2>3, CallKept
<1>4. CASE ~specs[Compiler.id].compiled /\ Len(compiling) = 1
  <2>1. Compiler.id \in Pos /\ Evaluate(Compiler.id, "run", Bodies)
    BY <1>4, OutermostRuns
  <2>2. /\ Grows(specs, specs') /\ specs'[Compiler.id].compiled /\ DOMAIN specs' = DOMAIN specs
        /\ specs' \in Seq(Modspec) /\ Table(program, specs')
    BY <1>4, CompileEndSets
  <2>3. Compiler.id \in Ids /\ status = "running"
    BY <1>1, CurrentFile
  <2>4. Compiler.id \notin DOMAIN started
    BY <1>4 DEF OnceInv
  <2> QED
    BY <2>1, <2>2, <2>3, <2>4, <1>1, CallEntered
<1> QED
  BY <1>2, <1>3, <1>4

LEMMA CallImport ==
  ASSUME IInv, OnceInv, CallInv, Acyclic(program), ImportModule
  PROVE  CallInv'
<1>1. /\ frames # <<>> /\ Top.pc <= Len(Code(Top)) /\ Instr.op = "import" /\ status = "running"
      /\ specs' = specs /\ program' = program /\ Table(program, specs) /\ specs \in Seq(Modspec)
  BY DEF ImportModule, Executes, Runs, IInv, Types
<1>2. /\ Grows(specs, specs') /\ Table(program, specs') /\ DOMAIN specs' = Ids
      /\ specs' \in Seq(Modspec)
  BY <1>1 DEF Grows, Ids
<1>3. CASE specs[Instr.id].compiled
  <2>1. Evaluate(Instr.id, "import", Initialised(modules, Instr.id))
    BY <1>3 DEF ImportModule
  <2>2. Instr.id \in Ids /\ Ids = 1 .. Len(specs)
    BY <1>1, InstrFacts, Facts
  <2>3. Instr.id \in Pos /\ Instr.id \notin DOMAIN started /\ specs'[Instr.id].compiled
    BY <2>2, <1>1, <1>3, ImportNotEntered
  <2>4. DOMAIN specs' = DOMAIN specs
    BY <1>1
  <2> QED
    BY <1>1, <1>2, <2>1, <2>2, <2>3, <2>4, CallEntered
<1>4. CASE ~specs[Instr.id].compiled
  <2>1. UNCHANGED <<frames, started>> /\ status' = "aborted"
    BY <1>4 DEF ImportModule
  <2> QED
    BY <2>1, <1>1, <1>2, CallKept
<1> QED
  BY <1>3, <1>4

LEMMA NextCall ==
  ASSUME IInv, OnceInv, CallInv, Acyclic(program), OneWay(program), [Next]_vars
  PROVE  CallInv'
<1>0. Table(program, specs) /\ Grows(specs, specs)
  BY DEF IInv, Grows
<1>1. CASE ImportAgain \/ ImportKnown \/ CompileCall \/ CompileUse
  <2>1. PICK c : Advances(c)
    BY <1>1, StatementAdvances
  <2>2. /\ UNCHANGED <<program, specs, modules, frames, status, started, finished>> /\ Compiles
    BY <1>1, StatementAdvances
  <2>3. compiling' # <<>>
    BY <2>1, <2>2, AdvanceInv
  <2>4. Grows(specs, specs') /\ Table(program, specs') /\ DOMAIN specs' = Ids
    BY <1>0, <2>2 DEF Ids
  <2> QED
    BY <2>2, <2>3, <2>4, CallKept
<1>2. CASE ImportNew
  BY <1>2, CallNew
<1>3. CASE CompileFails
  <2>1. UNCHANGED <<program, specs, frames, started>> /\ status' # "running"
    BY <1>3 DEF CompileFails
  <2>2. Grows(specs, specs') /\ Table(program, specs') /\ DOMAIN specs' = Ids
    BY <1>0, <2>1 DEF Ids
  <2> QED
    BY <2>1, <2>2, CallKept
<1>4. CASE CompileEnd
  BY <1>4, CallEnd
<1>5. CASE NotTaken \/ ImportEvaluated \/ Use \/ Catch
  <2>1. /\ frames # <<>> /\ Step /\ status' = "running"
        /\ UNCHANGED <<program, specs, modules, compiling, started, finished>>
    BY <1>5, StepInv
  <2>2. /\ Len(frames') = Len(frames) /\ DOMAIN frames' = DOMAIN frames
        /\ \A i \in DOMAIN frames : frames'[i].id = frames[i].id
        /\ \A i \in DOMAIN frames : i = Len(frames) \/ frames'[i].pc = frames[i].pc
        /\ frames'[Len(frames)].pc = Top.pc + 1
    BY <2>1, StepKeeps
  <2>3. Top = frames[Len(frames)] /\ Len(frames) \in Nat /\ DOMAIN frames = 1 .. Len(frames)
    BY <2>1, FrameFacts
  <2> QED
    BY <2>1, <2>2, <2>3, CallWent
<1>6. CASE ImportModule
  BY <1>6, CallImport
<1>7. CASE DynamicImport
  BY <1>7, CallDynamic
<1>8. CASE Throw
  <2>1. UNCHANGED <<program, specs, frames, started>> /\ status' # "running"
    BY <1>8 DEF Throw
  <2>2. Grows(specs, specs') /\ Table(program, specs') /\ DOMAIN specs' = Ids
    BY <1>0, <2>1 DEF Ids
  <2> QED
    BY <2>1, <2>2, CallKept
<1>9. CASE Halt
  BY <1>9, HaltInv, CallLeft
<1>10. CASE Unwind
  BY <1>10, UnwindInv, CallLeft
<1>11. CASE UNCHANGED vars
  BY <1>11 DEF vars, CallInv, CallAhead, Ids, Code
<1> QED
  BY <1>1, <1>2, <1>3, <1>4, <1>5, <1>6, <1>7, <1>8, <1>9, <1>10, <1>11
     DEF Next, Compile, Execute
-----------------------------------------------------------------------------
LEMMA ReachSelf ==
  ASSUME NEW p, NEW f \in Names
  PROVE  f \in Reach(p, f)
BY DEF Reach

LEMMA ReachStep ==
  ASSUME NEW p, NEW f, NEW g \in DOMAIN p, g \in Reach(p, f), NEW n \in Names,
         n \in Files(p, g, "import")
  PROVE  n \in Reach(p, f)
BY DEF Reach

LEMMA ReachLeast ==
  ASSUME NEW p, NEW f, NEW S \in SUBSET Names, f \in S,
         \A g \in S \cap DOMAIN p : Files(p, g, "import") \subseteq S
  PROVE  Reach(p, f) \subseteq S
BY DEF Reach

LEMMA UsesGrow ==
  ASSUME NEW p, NEW sp, NEW sp2, NEW n, NEW code, NEW pos, Translates(p, sp, n, code, pos),
         Uses(sp, code), Grows(sp, sp2)
  PROVE  Uses(sp2, code)
BY DEF Translates, Uses, Grows

(* One more instruction; id is the module of it if it is an import.         *)
LEMMA UsesMore ==
  ASSUME NEW p, NEW sp, NEW c \in File, NEW op, NEW id, Uses(sp, c.code),
         op = "import" => sp[id].compiled
  PROVE  Uses(sp, Extended(p, sp, c, op, id).code)
<1> DEFINE s == p[sp[c.id].name][c.pos]
           i == [op |-> op, id |-> id, arg |-> s.arg, guard |-> s.guard, at |-> c.pos]
           code == c.code
           code2 == Append(code, i)
<1>1. Extended(p, sp, c, op, id).code = code2
  BY DEF Extended
<1>2. i.op = op /\ i.id = id
  OBVIOUS
<1>3. code \in Seq(Instruction)
  BY DEF File
<1>4. Uses(sp, code)
  OBVIOUS
<1> HIDE DEF i, code
<1>5. \A k \in DOMAIN code2 : (k \in DOMAIN code /\ code2[k] = code[k]) \/ code2[k] = i
  BY <1>3
<1> HIDE DEF code2
<1>6. Uses(sp, code2)
  BY <1>2, <1>4, <1>5 DEF Uses
<1> QED
  BY <1>1, <1>6

(* What every action keeps of the modspecs that have no code.              *)
LEMMA StillAccounted ==
  ASSUME NEW p, NEW sp, NEW sp2, NEW cs, NEW cs2, Grows(sp, sp2), NEW id \in DOMAIN sp,
         Accounted(p, sp, cs, id), Compiling(cs, id) => Accounted(p, sp2, cs2, id),
         \A r \in DOMAIN sp : ~sp[r].compiled /\ ~Compiling(cs, r) =>
                                ~sp2[r].compiled /\ ~Compiling(cs2, r)
  PROVE  Accounted(p, sp2, cs2, id)
<1>1. CASE sp[id].compiled
  BY <1>1 DEF Accounted, Grows
<1>2. CASE Compiling(cs, id)
  BY <1>2
<1>3. CASE Leftover(p, sp, cs, id)
  <2>1. PICK r \in DOMAIN sp : /\ ~sp[r].compiled /\ ~Compiling(cs, r) /\ Calls(p, sp[r].name) # {}
                               /\ sp[id].name \in Reach(p, sp[r].name)
    BY <1>3 DEF Leftover
  <2>2. r \in DOMAIN sp2 /\ sp2[r].name = sp[r].name /\ sp2[id].name = sp[id].name
    BY DEF Grows
  <2> QED
    BY <2>1, <2>2 DEF Leftover, Accounted
<1> QED
  BY <1>1, <1>2, <1>3 DEF Accounted

(* No file being compiled imports one that is.                             *)
LEMMA NoFileCycle ==
  ASSUME IInv, Acyclic(program), Compiles, NEW k \in DOMAIN compiling,
         specs[compiling[k].id].name \in Files(program, specs[Compiler.id].name, "import")
  PROVE  FALSE
<1> DEFINE L == Len(compiling)
           name(i) == specs[compiling[i].id].name
           S == {name(i) : i \in k .. L}
<1>1. /\ compiling \in Seq(File) /\ Compiled(program, specs, compiling) /\ L \in DOMAIN compiling
      /\ Compiler = compiling[L] /\ L \in Pos /\ DOMAIN compiling = 1 .. L
  BY CurrentFile
<1>2. \A i \in DOMAIN compiling : name(i) \in DOMAIN program
  BY <1>1, Facts DEF Compiled, FileOk, Ids
<1>3. \A i \in DOMAIN compiling : i + 1 \in DOMAIN compiling =>
        name(i + 1) \in Files(program, name(i), "import")
  <2> SUFFICES ASSUME NEW i \in DOMAIN compiling, i + 1 \in DOMAIN compiling
               PROVE  name(i + 1) \in Files(program, name(i), "import")
    OBVIOUS
  <2>1. WaitsFor(program, specs, compiling[i], compiling[i + 1].id)
    BY <1>1 DEF Compiled
  <2> QED
    BY <2>1 DEF WaitsFor, Files, Statements
<1>4. name(k) \in Files(program, name(L), "import")
  BY <1>1
<1> HIDE DEF name, L
<1>5. k \in Nat /\ k \in k .. L /\ \A i \in k .. L : i \in DOMAIN compiling /\ i \in Nat
  BY <1>1
<1>6. S # {} /\ S \in SUBSET DOMAIN program
  BY <1>2, <1>5
<1>7. PICK f \in S : (Files(program, f, "import") \cup Files(program, f, "import_")) \cap S = {}
  BY <1>6 DEF Acyclic
<1>8. PICK i \in k .. L : f = name(i)
  BY <1>7
<1>9. CASE i = L
  <2>1. name(k) \in S
    BY <1>5
  <2> QED
    BY <2>1, <1>4, <1>7, <1>8, <1>9
<1>10. CASE i # L
  <2>1. i + 1 \in k .. L
    BY <1>1, <1>5, <1>10
  <2>2. name(i + 1) \in S /\ i + 1 \in DOMAIN compiling /\ i \in DOMAIN compiling
    BY <2>1, <1>5
  <2> QED
    BY <2>2, <1>3, <1>7, <1>8
<1> QED
  BY <1>9, <1>10

(* What <main> imports, all of which has code once <main> runs.            *)
LEMMA MainCompiled ==
  ASSUME IInv, CodeInv, frames # <<>>, NEW id \in Ids, specs[id].name \in Reach(program, Main)
  PROVE  specs[id].compiled
<1> DEFINE S == {specs[i].name : i \in {j \in Ids : specs[j].compiled}}
<1>1. /\ Table(program, specs) /\ 1 \in Ids /\ specs[1].compiled /\ specs[1].name = Main
      /\ \A i \in Ids : specs[i].name \in DOMAIN program /\ specs[i].name \in Names
                        /\ program[specs[i].name] \in Seq(Statement)
  BY FrameFacts, Facts DEF IInv, Table
<1>2. S \in SUBSET Names /\ Main \in S
  BY <1>1
<1>3. ASSUME NEW g \in S \cap DOMAIN program, NEW n \in Files(program, g, "import")
      PROVE  n \in S
  <2>1. PICK i \in Ids : specs[i].compiled /\ g = specs[i].name
    OBVIOUS
  <2> DEFINE code == specs[i].code
  <2>2. Translates(program, specs, g, code, Len(program[g]) + 1)
    BY <2>1, <1>1 DEF Table, Ids
  <2>3. PICK j \in DOMAIN program[g] : program[g][j].op = "import" /\ program[g][j].arg = n
    BY DEF Files, Statements
  <2>4. j < Len(program[g]) + 1
    BY <2>1, <1>1
  <2>5. PICK k \in DOMAIN code : code[k].op = "import" /\ code[k].arg = n
    BY <2>2, <2>3, <2>4 DEF Translates
  <2>6. code[k].id \in Ids /\ specs[code[k].id].name = n
    BY <2>2, <2>5 DEF Translates, Ids
  <2>7. specs[code[k].id].compiled
    BY <2>1, <2>5 DEF CodeInv, Uses
  <2> QED
    BY <2>6, <2>7
<1> HIDE DEF S
<1>4. Reach(program, Main) \subseteq S
  BY <1>2, <1>3, ReachLeast
<1>5. PICK i \in Ids : specs[i].compiled /\ specs[i].name = specs[id].name
  BY <1>4 DEF S
<1> QED
  BY <1>1, <1>5 DEF Table, Ids

(* The file being compiled names, in an import, a module with code, or a    *)
(* new one: no other file being compiled, and none whose compilation failed *)
(* before.                                                                 *)
LEMMA KnownCompiled ==
  ASSUME IInv, CallInv, CodeInv, Acyclic(program), Shared(program), Compiles, NEW id \in Ids,
         specs[id].name \in Files(program, specs[Compiler.id].name, "import")
  PROVE  specs[id].compiled
<1> SUFFICES ASSUME ~specs[id].compiled PROVE FALSE
  OBVIOUS
<1>1. /\ Len(compiling) \in DOMAIN compiling /\ Compiler = compiling[Len(compiling)]
      /\ Compiler.id \in Ids /\ status = "running" /\ 1 \in DOMAIN compiling
      /\ compiling # <<>> /\ compiling[1].id \in Ids
  <2>1. /\ compiling \in Seq(File) /\ compiling # <<>> /\ Compiled(program, specs, compiling)
        /\ status = "running" /\ Len(compiling) \in DOMAIN compiling
        /\ Compiler = compiling[Len(compiling)] /\ Compiler.id \in Ids
    BY CurrentFile
  <2>2. 1 \in DOMAIN compiling
    BY <2>1
  <2> QED
    BY <2>1, <2>2 DEF Compiled, FileOk, Ids
<1>2. ~Compiling(compiling, id)
  BY NoFileCycle DEF Compiling
<1>3. PICK r \in Ids : /\ ~specs[r].compiled /\ ~Compiling(compiling, r)
                       /\ Calls(program, specs[r].name) # {}
                       /\ specs[id].name \in Reach(program, specs[r].name)
  BY <1>1, <1>2 DEF CodeInv, Accounted, Leftover, Ids
<1>4. CASE frames = <<>>
  <2>1. started = <<>>
    BY <1>1, <1>4 DEF IInv, StageInv
  <2>2. DOMAIN started = {}
    BY <2>1
  <2>3. PICK c : c \in Calls(program, specs[r].name)
    BY <1>3
  <2>4. \E s \in DOMAIN started : specs[s].name = c[1]
    BY <2>3 DEF CallInv
  <2> QED
    BY <2>2, <2>4
<1>5. CASE frames # <<>>
  <2> DEFINE first == specs[compiling[1].id].name
  <2>1. CallsIt(specs, Top, compiling[1].id, "run")
    BY <1>1, <1>5 DEF IInv, StageInv
  <2>2. Top.id \in DOMAIN specs /\ specs[Top.id].compiled /\ Table(program, specs) /\ Top.pc \in Pos
    BY <1>5, FrameFacts DEF IInv, Ids
  <2>3. CallAhead(specs, Top, first, Top.pc)
    BY <2>1, <2>2 DEF CallsIt, CallAhead, At
  <2>4. Calls(program, first) # {}
    BY <2>2, <2>3, AheadCalls
  <2>5. specs[r].name # first
    BY <1>1, <1>3, <2>2 DEF Table, Ids, Compiling
  <2>6. /\ first \in DOMAIN program /\ specs[r].name \in DOMAIN program
        /\ specs[Compiler.id].name \in DOMAIN program /\ specs[id].name \in Names
    BY <1>1, <1>3, Facts
  <2>7. specs[Compiler.id].name \in Reach(program, first)
    BY <1>1 DEF CodeInv, Chain
  <2>8. specs[id].name \in Reach(program, first)
    BY <2>6, <2>7, ReachStep
  <2>9. specs[id].name \in Reach(program, Main)
    BY <1>3, <2>4, <2>5, <2>6, <2>8 DEF Shared
  <2> QED
    BY <1>5, <2>9, MainCompiled
<1> QED
  BY <1>4, <1>5

LEMMA InitCode ==
  ASSUME Init
  PROVE  CodeInv
<1>1. specs = <<NotCompiled(Main)>> /\ compiling = <<CompileFrame(1)>> /\ status = "running"
      /\ Main \in Names
  BY ProgramsAssumption DEF Init
<1>2. Ids = {1} /\ ~specs[1].compiled /\ specs[1].name = Main
      /\ DOMAIN compiling = {1} /\ compiling[1].id = 1 /\ DOMAIN compiling[1].code = {}
  BY <1>1 DEF Ids, NotCompiled, CompileFrame
<1>3. Main \in Reach(program, Main)
  BY <1>1, ReachSelf
<1>4. Chain(program, specs, compiling)
  BY <1>2, <1>3 DEF Chain, Uses
<1>5. \A id \in Ids : Accounted(program, specs, compiling, id)
  BY <1>2 DEF Accounted, Compiling
<1> QED
  BY <1>1, <1>2, <1>4, <1>5 DEF CodeInv

LEMMA CodeStutters ==
  ASSUME CodeInv, UNCHANGED <<program, specs, compiling>>, status \in {"running", "raising"},
         status' # "aborted"
  PROVE  CodeInv'
BY DEF CodeInv, Ids

(* Code that was set still uses modules that have code.                    *)
LEMMA UsesStay ==
  ASSUME IInv, CodeInv, NEW sp, Grows(specs, sp), NEW id \in Ids, specs[id].compiled
  PROVE  Uses(sp, sp[id].code)
<1>1. Translates(program, specs, specs[id].name, specs[id].code, Len(program[specs[id].name]) + 1)
  BY DEF IInv, Table, Ids
<1>2. Uses(specs, specs[id].code)
  BY DEF CodeInv
<1>3. sp[id] = specs[id]
  BY DEF Grows, Ids
<1> QED
  BY <1>1, <1>2, <1>3, UsesGrow

LEMMA CodeAdvances ==
  ASSUME IInv, CallInv, CodeInv, Acyclic(program), Shared(program), Compiles, NEW c, Advances(c),
         UNCHANGED <<program, specs, modules, frames, status, started, finished>>
  PROVE  CodeInv'
<1> DEFINE cs == compiling'
           L == Len(compiling)
<1>1. /\ DOMAIN cs = DOMAIN compiling /\ \A i \in DOMAIN compiling : cs[i].id = compiling[i].id
      /\ \A i \in DOMAIN compiling : i = L \/ cs[i] = compiling[i]
      /\ cs[L] = c /\ 1 \in DOMAIN compiling
  BY AdvanceInv
<1>2. /\ Compiler = compiling[L] /\ L \in DOMAIN compiling /\ Compiler \in File
      /\ Compiler.id \in Ids /\ Source = program[specs[Compiler.id].name] /\ status = "running"
  BY CurrentFile
<1>3. Uses(specs, c.code)
  <2>1. Uses(specs, Compiler.code)
    BY <1>2 DEF CodeInv, Chain
  <2>2. CASE c.code = Compiler.code
    BY <2>1, <2>2
  <2>3. ASSUME NEW op \in {"import", "import_", "use", "throw"}, NEW id \in Nat,
               c = Extended(program, specs, Compiler, op, id),
               op = "import" => /\ Compiler.pos \in DOMAIN Source /\ Source[Compiler.pos].op = op
                                /\ id \in Ids /\ specs[id].name = Source[Compiler.pos].arg
        PROVE  Uses(specs, c.code)
    <3>1. op = "import" => specs[id].compiled
      <4> HAVE op = "import"
      <4>1. specs[id].name \in Files(program, specs[Compiler.id].name, "import") /\ id \in Ids
        BY <2>3, <1>2 DEF Files, Statements
      <4> QED
        BY <4>1, KnownCompiled
    <3>2. Uses(specs, Extended(program, specs, Compiler, op, id).code)
      BY <2>1, <3>1, <1>2, UsesMore
    <3> QED
      BY <3>2, <2>3
  <2> QED
    BY <2>2, <2>3 DEF Advances
<1> HIDE DEF cs, L
<1>4. Chain(program, specs, cs)
  BY <1>1, <1>3 DEF CodeInv, Chain
<1>5. \A id : Compiling(cs, id) <=> Compiling(compiling, id)
  BY <1>1 DEF Compiling
<1>6. \A id \in Ids : Accounted(program, specs, cs, id)
  BY <1>2, <1>5 DEF CodeInv, Accounted, Leftover
<1> QED
  BY <1>2, <1>4, <1>6 DEF CodeInv, Ids, cs

LEMMA CodeNew ==
  ASSUME IInv, CodeInv, ImportNew
  PROVE  CodeInv'
<1>1. PICK n \in DOMAIN program, moved \in BOOLEAN :
           /\ Parses("import") /\ n = Source[Compiler.pos].arg
           /\ Named(n) = {} /\ NewModspec(n, moved)
           /\ compiling' = Append(compiling, CompileFrame(Len(specs')))
           /\ UNCHANGED <<program, status, started, finished>>
  BY ImportNewKeeps
<1> DEFINE sp == specs'
           cs == compiling'
           first == specs[compiling[1].id].name
           L == Len(compiling)
<1>2. /\ Grows(specs, sp) /\ DOMAIN sp = Ids \cup {Len(sp)} /\ Len(sp) \notin Ids
      /\ sp[Len(sp)] = NotCompiled(n) /\ \A id \in Ids : sp[id] = specs[id]
  BY <1>1, NewModspecKeeps
<1>3. /\ DOMAIN cs = DOMAIN compiling \cup {L + 1} /\ cs[L + 1].id = Len(sp)
      /\ cs[L + 1].code = <<>> /\ \A i \in DOMAIN compiling : cs[i] = compiling[i]
  BY ImportNewInv
<1>4. /\ Compiles /\ compiling \in Seq(File) /\ compiling # <<>> /\ L \in DOMAIN compiling
      /\ Compiled(program, specs, compiling) /\ Compiler = compiling[L] /\ Compiler.id \in Ids
      /\ status = "running" /\ Source = program[specs[Compiler.id].name]
      /\ Compiler.pos \in DOMAIN Source /\ Source[Compiler.pos].op = "import"
  BY <1>1, NextStatement, CurrentFile
<1>5. 1 \in DOMAIN compiling /\ cs[1] = compiling[1]
  BY <1>3, <1>4
<1>6. \A i \in DOMAIN compiling : compiling[i].id \in Ids
  BY <1>4 DEF Compiled, FileOk, Ids
<1>7. n \in Reach(program, first)
  <2>1. specs[Compiler.id].name \in Reach(program, first)
    BY <1>4 DEF CodeInv, Chain
  <2>2. n \in Files(program, specs[Compiler.id].name, "import")
    BY <1>1, <1>4 DEF Files, Statements
  <2>3. specs[Compiler.id].name \in DOMAIN program /\ n \in Names
    BY <1>4, Facts
  <2> QED
    BY <2>1, <2>2, <2>3, ReachStep
<1> HIDE DEF sp, cs, L
<1>8. /\ NotCompiled(n).name = n /\ ~NotCompiled(n).compiled
  BY DEF NotCompiled
<1>9. \A i \in DOMAIN compiling : /\ ~sp[cs[i].id].compiled /\ Uses(sp, cs[i].code)
                                  /\ sp[cs[i].id].name \in Reach(program, first)
  <2> SUFFICES ASSUME NEW i \in DOMAIN compiling
               PROVE  /\ ~sp[cs[i].id].compiled /\ Uses(sp, cs[i].code)
                      /\ sp[cs[i].id].name \in Reach(program, first)
    OBVIOUS
  <2>1. cs[i] = compiling[i] /\ sp[cs[i].id] = specs[compiling[i].id]
    BY <1>2, <1>3, <1>6
  <2>2. /\ ~specs[compiling[i].id].compiled /\ Uses(specs, compiling[i].code)
        /\ specs[compiling[i].id].name \in Reach(program, first)
    BY DEF CodeInv, Chain
  <2>3. FileOk(program, specs, compiling[i])
    BY <1>4 DEF Compiled
  <2>4. Uses(sp, compiling[i].code)
    BY <2>2, <2>3, <1>2, UsesGrow DEF FileOk
  <2> QED
    BY <2>1, <2>2, <2>4
<1>10. /\ ~sp[cs[L + 1].id].compiled /\ Uses(sp, cs[L + 1].code)
       /\ sp[cs[L + 1].id].name \in Reach(program, first)
  <2>1. sp[cs[L + 1].id] = NotCompiled(n)
    BY <1>2, <1>3
  <2>2. Uses(sp, cs[L + 1].code)
    BY <1>3 DEF Uses
  <2> QED
    BY <2>1, <2>2, <1>7, <1>8
<1>11. sp[cs[1].id].name = first
  BY <1>2, <1>5, <1>6
<1>12. Chain(program, sp, cs)
  BY <1>3, <1>9, <1>10, <1>11 DEF Chain
<1>13. \A id \in Ids : Compiling(cs, id) <=> Compiling(compiling, id)
  BY <1>2, <1>3 DEF Compiling
<1>14. ASSUME NEW id \in DOMAIN sp
       PROVE  Accounted(program, sp, cs, id)
  <2>1. CASE id = Len(sp)
    BY <2>1, <1>3 DEF Accounted, Compiling
  <2>2. CASE id \in Ids
    <3>1. Accounted(program, specs, compiling, id) /\ id \in DOMAIN specs
      BY <2>2, <1>4 DEF CodeInv, Ids
    <3>2. Compiling(compiling, id) => Accounted(program, sp, cs, id)
      BY <2>2, <1>13 DEF Accounted
    <3>3. \A r \in DOMAIN specs : ~specs[r].compiled /\ ~Compiling(compiling, r) =>
                                    ~sp[r].compiled /\ ~Compiling(cs, r)
      BY <1>2, <1>13 DEF Ids
    <3> QED
      BY <3>1, <3>2, <3>3, <1>2, StillAccounted
  <2> QED
    BY <2>1, <2>2, <1>2
<1>15. \A id \in DOMAIN sp : sp[id].compiled => Uses(sp, sp[id].code)
  BY <1>2, <1>8, UsesStay
<1> QED
  BY <1>1, <1>4, <1>12, <1>14, <1>15 DEF CodeInv, Ids, sp, cs

LEMMA CodeFails ==
  ASSUME IInv, CodeInv, CompileFails
  PROVE  CodeInv'
<1>1. /\ Compiles /\ compiling' = <<>> /\ UNCHANGED <<program, specs, frames>>
      /\ status' = IF frames = <<>> THEN "failed" ELSE "raising"
  BY DEF CompileFails, Parses, Compiles
<1>2. Chain(program, specs, <<>>) /\ \A id : ~Compiling(<<>>, id)
  BY DEF Chain, Compiling
<1>3. ASSUME frames # <<>>, NEW id \in Ids
      PROVE  Accounted(program, specs, <<>>, id)
  <2> DEFINE first == compiling[1].id
  <2>1. CallsIt(specs, Top, first, "run") /\ status = "running"
    BY <1>1, <1>3 DEF IInv, StageInv, Compiles
  <2>2. Top.id \in DOMAIN specs /\ specs[Top.id].compiled /\ Table(program, specs) /\ Top.pc \in Pos
    BY <1>3, FrameFacts DEF IInv, Ids
  <2>3. CallAhead(specs, Top, specs[first].name, Top.pc)
    BY <2>1, <2>2 DEF CallsIt, CallAhead, At
  <2>4. Calls(program, specs[first].name) # {}
    BY <2>2, <2>3, AheadCalls
  <2>5. first \in DOMAIN specs /\ ~specs[first].compiled
    <3>1. compiling \in Seq(File) /\ compiling # <<>> /\ Compiled(program, specs, compiling)
      BY <1>1, CurrentFile
    <3>2. 1 \in DOMAIN compiling
      BY <3>1
    <3> QED
      BY <3>1, <3>2 DEF Compiled, FileOk, CodeInv, Chain
  <2> HIDE DEF first
  <2>6. Accounted(program, specs, compiling, id)
    BY <2>1 DEF CodeInv
  <2>7. CASE Compiling(compiling, id)
    <3>1. specs[id].name \in Reach(program, specs[first].name)
      BY <2>7 DEF Compiling, CodeInv, Chain, first
    <3> QED
      BY <3>1, <2>4, <2>5, <1>2 DEF Accounted, Leftover
  <2>8. CASE specs[id].compiled
    BY <2>8 DEF Accounted
  <2>9. CASE Leftover(program, specs, compiling, id)
    BY <2>9, <1>2 DEF Accounted, Leftover
  <2> QED
    BY <2>6, <2>7, <2>8, <2>9 DEF Accounted
<1>4. status' \in {"running", "raising"} => \A id \in Ids : Accounted(program, specs, <<>>, id)
  BY <1>1, <1>3
<1>5. \A id \in Ids : specs[id].compiled => Uses(specs, specs[id].code)
  BY DEF CodeInv
<1>6. status' # "aborted"
  BY <1>1
<1> QED
  BY <1>1, <1>2, <1>4, <1>5, <1>6 DEF CodeInv, Ids

(* What both ends of a compilation do to the modspecs.                     *)
LEMMA CodeSetUses ==
  ASSUME IInv, CodeInv, CompileEnd, ~specs[Compiler.id].compiled, NEW id \in Ids,
         specs'[id].compiled
  PROVE  Uses(specs', specs'[id].code)
<1> DEFINE sp == specs'
<1>1. /\ Grows(specs, sp) /\ sp[Compiler.id].code = Compiler.code
      /\ \A i \in DOMAIN specs : i # Compiler.id => sp[i] = specs[i]
  BY CompileEndSets
<1>2. /\ Compiles /\ FileOk(program, specs, Compiler)
      /\ Len(compiling) \in DOMAIN compiling /\ Compiler = compiling[Len(compiling)]
  BY CurrentFile DEF CompileEnd
<1>3. Uses(specs, Compiler.code)
  BY <1>2 DEF CodeInv, Chain
<1> HIDE DEF sp
<1>4. CASE id = Compiler.id
  <2>1. Uses(sp, Compiler.code)
    BY <1>1, <1>2, <1>3, UsesGrow DEF FileOk
  <2> QED
    BY <2>1, <1>1, <1>4 DEF sp
<1>5. CASE id # Compiler.id
  <2>1. specs[id].compiled
    BY <1>1, <1>5 DEF Ids, sp
  <2>2. Uses(sp, sp[id].code)
    BY <2>1, <1>1, UsesStay
  <2> QED
    BY <2>2 DEF sp
<1> QED
  BY <1>4, <1>5

LEMMA CodeGoesOn ==
  ASSUME IInv, CodeInv, CompileEnd, ~specs[Compiler.id].compiled, Len(compiling) # 1
  PROVE  CodeInv'
<1> DEFINE sp == specs'
           cs == compiling'
           M == Len(compiling) - 1
           first == specs[compiling[1].id].name
<1>1. /\ M \in Pos /\ DOMAIN compiling = 1 .. Len(compiling) /\ DOMAIN cs = 1 .. M
      /\ \A i \in DOMAIN cs : cs[i].id = compiling[i].id
      /\ \A i \in DOMAIN cs : i # M => cs[i] = compiling[i]
      /\ cs[M] = Extended(program, specs, compiling[M], "import", Compiler.id)
      /\ UNCHANGED <<program, status>>
  BY ImporterGoesOn
<1>2. /\ Grows(specs, sp) /\ DOMAIN sp = DOMAIN specs /\ sp[Compiler.id].compiled
      /\ \A i \in DOMAIN specs : i # Compiler.id => sp[i] = specs[i]
  BY CompileEndSets
<1>3. /\ Compiles /\ compiling \in Seq(File) /\ Compiled(program, specs, compiling)
      /\ Len(compiling) \in Pos /\ Compiler = compiling[Len(compiling)]
      /\ Compiler.id \in Ids /\ status = "running" /\ Compiler.id \in Nat
  BY CurrentFile DEF CompileEnd, File
<1>4. \A i \in DOMAIN cs : i \in DOMAIN compiling /\ i < Len(compiling)
  BY <1>1, <1>3
<1>5. Len(compiling) \in DOMAIN compiling /\ 1 \in DOMAIN cs /\ M \in DOMAIN cs
      /\ \A i \in DOMAIN compiling : i \in DOMAIN cs \/ i = Len(compiling)
  BY <1>1, <1>3
<1>6. \A i \in DOMAIN cs : /\ compiling[i].id \in DOMAIN specs /\ compiling[i].id # Compiler.id
                           /\ FileOk(program, specs, compiling[i]) /\ compiling[i] \in File
  <2> SUFFICES ASSUME NEW i \in DOMAIN cs
               PROVE  /\ compiling[i].id \in DOMAIN specs /\ compiling[i].id # Compiler.id
                      /\ FileOk(program, specs, compiling[i]) /\ compiling[i] \in File
    OBVIOUS
  <2>1. compiling[i].id < Compiler.id /\ FileOk(program, specs, compiling[i])
    BY <1>3, <1>4, <1>5 DEF Compiled
  <2> QED
    BY <2>1, <1>3, <1>4 DEF FileOk
<1> HIDE DEF sp, cs, M
<1>7. \A i \in DOMAIN cs : Uses(sp, compiling[i].code)
  <2> SUFFICES ASSUME NEW i \in DOMAIN cs PROVE Uses(sp, compiling[i].code)
    OBVIOUS
  <2>1. Uses(specs, compiling[i].code) /\ FileOk(program, specs, compiling[i])
    BY <1>4, <1>6 DEF CodeInv, Chain
  <2> QED
    BY <2>1, <1>2, UsesGrow DEF FileOk
<1>8. Uses(sp, cs[M].code)
  <2>1. Uses(sp, compiling[M].code) /\ compiling[M] \in File
    BY <1>5, <1>6, <1>7
  <2>2. Extended(program, specs, compiling[M], "import", Compiler.id).code =
        Extended(program, sp, compiling[M], "import", Compiler.id).code
    <3>1. sp[compiling[M].id].name = specs[compiling[M].id].name
      BY <1>2, <1>5, <1>6
    <3> QED
      BY <3>1 DEF Extended
  <2>3. Uses(sp, Extended(program, sp, compiling[M], "import", Compiler.id).code)
    BY <2>1, <1>2, UsesMore
  <2> QED
    BY <2>2, <2>3, <1>1
<1>9. \A i \in DOMAIN cs : Uses(sp, cs[i].code)
  BY <1>1, <1>7, <1>8
<1>10. \A i \in DOMAIN cs : sp[cs[i].id] = specs[compiling[i].id]
  BY <1>1, <1>2, <1>6
<1>11. \A i \in DOMAIN cs : /\ ~specs[compiling[i].id].compiled
                            /\ specs[compiling[i].id].name \in Reach(program, first)
  BY <1>4 DEF CodeInv, Chain
<1>12. Chain(program, sp, cs)
  BY <1>5, <1>9, <1>10, <1>11 DEF Chain
<1>13. \A id : /\ Compiling(cs, id) => Compiling(compiling, id)
               /\ Compiling(compiling, id) => Compiling(cs, id) \/ id = Compiler.id
  BY <1>1, <1>3, <1>4, <1>5 DEF Compiling
<1>14. Compiling(compiling, Compiler.id)
  BY <1>3, <1>5 DEF Compiling
<1>15. ASSUME NEW id \in Ids
       PROVE  Accounted(program, sp, cs, id)
  <2>1. Accounted(program, specs, compiling, id) /\ id \in DOMAIN specs
    BY <1>3 DEF CodeInv, Ids
  <2>2. Compiling(compiling, id) => Accounted(program, sp, cs, id)
    BY <1>2, <1>13 DEF Accounted
  <2>3. \A r \in DOMAIN specs : ~specs[r].compiled /\ ~Compiling(compiling, r) =>
                                  ~sp[r].compiled /\ ~Compiling(cs, r)
    BY <1>2, <1>13, <1>14
  <2> QED
    BY <2>1, <2>2, <2>3, <1>2, StillAccounted
<1>16. \A id \in Ids : sp[id].compiled => Uses(sp, sp[id].code)
  BY CodeSetUses DEF sp
<1> QED
  BY <1>1, <1>2, <1>3, <1>12, <1>15, <1>16 DEF CodeInv, Ids, sp, cs

LEMMA CodeRuns ==
  ASSUME IInv, CodeInv, CompileEnd, ~specs[Compiler.id].compiled, Len(compiling) = 1
  PROVE  CodeInv'
<1> DEFINE sp == specs'
<1>1. /\ program' = program /\ compiling' = <<>> /\ Compiler = compiling[1]
      /\ Compiler.id \in Pos /\ Evaluate(Compiler.id, "run", Bodies)
  BY OutermostRuns
<1>2. /\ Grows(specs, sp) /\ DOMAIN sp = DOMAIN specs /\ sp[Compiler.id].compiled
      /\ \A i \in DOMAIN specs : i # Compiler.id => sp[i] = specs[i]
  BY CompileEndSets
<1>3. /\ status = "running" /\ compiling \in Seq(File)
  BY CurrentFile DEF CompileEnd
<1>4. status' # "aborted"
  BY <1>1, <1>3, EvaluateKeeps
<1> HIDE DEF sp
<1>5. \A id : Compiling(compiling, id) <=> id = Compiler.id
  <2>1. DOMAIN compiling = {1}
    BY <1>3
  <2> QED
    BY <2>1, <1>1 DEF Compiling
<1>6. Chain(program, sp, <<>>) /\ \A id : ~Compiling(<<>>, id)
  BY DEF Chain, Compiling
<1>7. ASSUME NEW id \in Ids
      PROVE  Accounted(program, sp, <<>>, id)
  <2>1. Accounted(program, specs, compiling, id) /\ id \in DOMAIN specs
    BY <1>3 DEF CodeInv, Ids
  <2>2. Compiling(compiling, id) => Accounted(program, sp, <<>>, id)
    BY <1>2, <1>5 DEF Accounted
  <2>3. \A r \in DOMAIN specs : ~specs[r].compiled /\ ~Compiling(compiling, r) =>
                                  ~sp[r].compiled /\ ~Compiling(<<>>, r)
    BY <1>2, <1>5, <1>6
  <2> QED
    BY <2>1, <2>2, <2>3, <1>2, StillAccounted
<1>8. \A id \in Ids : sp[id].compiled => Uses(sp, sp[id].code)
  BY CodeSetUses DEF sp
<1> QED
  BY <1>1, <1>2, <1>4, <1>6, <1>7, <1>8 DEF CodeInv, Ids, sp

(* module::import_ compiles a file that has no modspec.                     *)
LEMMA CodeDynamic ==
  ASSUME IInv, CallInv, CodeInv, DynamicImport
  PROVE  CodeInv'
<1> DEFINE n == Instr.arg
           sp == specs'
           cs == compiling'
<1>1. /\ n \in DOMAIN program /\ UNCHANGED <<program, status>> /\ status = "running"
      /\ compiling = <<>>
  BY DEF DynamicImport, Executes, Runs
<1>2. PICK moved \in BOOLEAN : NewModspec(n, moved)
  BY ImportIsNew DEF DynamicImport
<1>3. cs = <<CompileFrame(Len(sp))>>
  BY ImportIsNew DEF DynamicImport
<1>4. /\ Grows(specs, sp) /\ DOMAIN sp = Ids \cup {Len(sp)} /\ Len(sp) \notin Ids
      /\ sp[Len(sp)] = NotCompiled(n) /\ \A id \in Ids : sp[id] = specs[id]
  BY <1>1, <1>2, ImportIsNew, NewModspecKeeps
<1>5. n \in Names
  BY <1>1, Facts
<1> HIDE DEF n, sp, cs
<1>6. /\ NotCompiled(n).name = n /\ ~NotCompiled(n).compiled
  BY DEF NotCompiled
<1>7. DOMAIN cs = {1} /\ cs[1].id = Len(sp) /\ cs[1].code = <<>>
  BY <1>3 DEF CompileFrame
<1>8. n \in Reach(program, n)
  BY <1>5, ReachSelf
<1>9. Chain(program, sp, cs)
  <2>1. Uses(sp, cs[1].code)
    BY <1>7 DEF Uses
  <2>2. sp[cs[1].id] = NotCompiled(n)
    BY <1>4, <1>7
  <2> QED
    BY <2>1, <2>2, <1>6, <1>7, <1>8 DEF Chain
<1>10. \A id \in Ids : ~Compiling(compiling, id) /\ ~Compiling(cs, id)
  <2>1. DOMAIN compiling = {}
    BY <1>1
  <2> QED
    BY <2>1, <1>4, <1>7 DEF Compiling
<1>11. ASSUME NEW id \in DOMAIN sp
       PROVE  Accounted(program, sp, cs, id)
  <2>1. CASE id = Len(sp)
    BY <2>1, <1>7 DEF Accounted, Compiling
  <2>2. CASE id \in Ids
    <3>1. Accounted(program, specs, compiling, id) /\ id \in DOMAIN specs
      BY <2>2, <1>1 DEF CodeInv, Ids
    <3>2. ~Compiling(compiling, id)
      BY <2>2, <1>10
    <3>3. \A r \in DOMAIN specs : ~specs[r].compiled /\ ~Compiling(compiling, r) =>
                                    ~sp[r].compiled /\ ~Compiling(cs, r)
      BY <1>4, <1>10 DEF Ids
    <3> QED
      BY <3>1, <3>2, <3>3, <1>4, StillAccounted
  <2> QED
    BY <2>1, <2>2, <1>4
<1>12. \A id \in DOMAIN sp : sp[id].compiled => Uses(sp, sp[id].code)
  BY <1>4, <1>6, UsesStay
<1> QED
  BY <1>1, <1>9, <1>11, <1>12 DEF CodeInv, Ids, sp, cs

(* OP_IMPORT_MODULE: the module has code.                                  *)
LEMMA CodeImport ==
  ASSUME IInv, CodeInv, ImportModule
  PROVE  CodeInv'
<1>1. /\ frames # <<>> /\ Top.pc <= Len(Code(Top)) /\ Instr.op = "import" /\ status = "running"
      /\ UNCHANGED <<program, specs, compiling>>
  BY DEF ImportModule, Executes, Runs
<1>2. /\ Top.pc \in DOMAIN Code(Top) /\ Instr = Code(Top)[Top.pc] /\ Top.id \in Ids
      /\ specs[Top.id].compiled /\ Instr.id \in Ids
  BY <1>1, InstrFacts, FrameFacts
<1>3. specs[Instr.id].compiled
  BY <1>1, <1>2 DEF CodeInv, Uses, Code
<1>4. Instr.id \in Pos
  BY <1>2, Facts
<1>5. Evaluate(Instr.id, "import", Initialised(modules, Instr.id))
  BY <1>3 DEF ImportModule
<1>6. status' # "aborted"
  BY <1>1, <1>4, <1>5, EvaluateKeeps
<1> QED
  BY <1>1, <1>6, CodeStutters

LEMMA NextCode ==
  ASSUME IInv, CallInv, CodeInv, Acyclic(program), Shared(program), [Next]_vars
  PROVE  CodeInv'
<1>1. CASE ImportAgain \/ ImportKnown \/ CompileCall \/ CompileUse
  <2>1. PICK c : Advances(c)
    BY <1>1, StatementAdvances
  <2>2. /\ UNCHANGED <<program, specs, modules, frames, status, started, finished>> /\ Compiles
    BY <1>1, StatementAdvances
  <2> QED
    BY <2>1, <2>2, CodeAdvances
<1>2. CASE ImportNew
  BY <1>2, CodeNew
<1>3. CASE CompileFails
  BY <1>3, CodeFails
<1>4. CASE CompileEnd
  <2>1. ~specs[Compiler.id].compiled
    <3>1. Len(compiling) \in DOMAIN compiling /\ Compiler = compiling[Len(compiling)]
      BY <1>4, CurrentFile DEF CompileEnd
    <3> QED
      BY <3>1 DEF CodeInv, Chain
  <2> QED
    BY <1>4, <2>1, CodeGoesOn, CodeRuns
<1>5. CASE NotTaken \/ ImportEvaluated \/ Use \/ Catch
  <2>1. UNCHANGED <<program, specs, compiling>> /\ status' = "running"
    BY <1>5, StepInv
  <2>2. status \in {"running", "raising"}
    BY <1>5 DEF NotTaken, ImportEvaluated, Use, Catch, Executes, Runs
  <2> QED
    BY <2>1, <2>2, CodeStutters
<1>6. CASE ImportModule
  BY <1>6, CodeImport
<1>7. CASE DynamicImport
  BY <1>7, CodeDynamic
<1>8. CASE Throw
  <2>1. UNCHANGED <<program, specs, compiling>> /\ status' = "raising" /\ status = "running"
    BY <1>8 DEF Throw, Executes, Runs
  <2> QED
    BY <2>1, CodeStutters
<1>9. CASE Halt \/ Unwind
  <2>1. UNCHANGED <<program, specs, compiling>> /\ status \in {"running", "raising"}
    BY <1>9, HaltInv, UnwindInv DEF Leave
  <2>2. status' # "aborted"
    BY <1>9, <2>1 DEF Halt, Unwind, Leave
  <2> QED
    BY <2>1, <2>2, CodeStutters
<1>10. CASE UNCHANGED vars
  BY <1>10 DEF vars, CodeInv, Ids
<1> QED
  BY <1>1, <1>2, <1>3, <1>4, <1>5, <1>6, <1>7, <1>8, <1>9, <1>10
     DEF Next, Compile, Execute

LEMMA WellTyped ==
  ASSUME IInv, CodeInv
  PROVE  TypeOK
<1>1. /\ DOMAIN program \subseteq Names
      /\ \A id \in Ids : specs[id].name \in Names /\ specs[id].compiled \in BOOLEAN
  BY Facts DEF Modspec
<1>2. frames # <<>> => DOMAIN modules = Ids
  BY FrameFacts
<1>3. \A i \in DOMAIN frames : frames[i].id \in Ids
  BY FramesOk
<1>4. \A i \in DOMAIN compiling : compiling[i].id \in Ids
  BY DEF IInv, Compiled, FileOk, Ids
<1>5. /\ status \in {"running", "raising", "done", "failed", "aborted"}
      /\ DOMAIN started \subseteq Ids /\ finished \subseteq Ids
  BY DEF IInv, Types
<1>6. OneModulePerName /\ NeverAborts
  BY DEF IInv, Table, OneModulePerName, NeverAborts, CodeInv, Ids
<1> QED
  BY <1>1, <1>2, <1>3, <1>4, <1>5, <1>6 DEF TypeOK

(* The type invariant, and with it that neither assertion about the code of *)
(* a module fails: a file is compiled once, and a body is only run when     *)
(* there is code for it. It holds if no files import each other, if         *)
(* module::import_ is called in files that are not imported by statement,   *)
(* in one place for each file, and if what two such files both import is    *)
(* imported by <main> too.                                                 *)
THEOREM TypeCorrect ==
  ASSUME \A p \in Programs : Acyclic(p) /\ Separate(p) /\ OneWay(p) /\ Shared(p)
  PROVE  Spec => []TypeOK
<1>1. IInv => Acyclic(program) /\ Separate(program) /\ OneWay(program) /\ Shared(program)
  BY DEF IInv, Types
<1>2. Init => OnceInv /\ CallInv /\ CodeInv
  BY <1>1, InitInv, InitOnce, InitCall, InitCode
<1>3. IInv /\ OnceInv /\ CallInv /\ CodeInv /\ [Next]_vars => OnceInv' /\ CallInv' /\ CodeInv'
  BY <1>1, NextOnce, NextCall, NextCode
<1>4. IInv /\ CodeInv => TypeOK
  BY WellTyped
<1> QED
  BY <1>2, <1>3, <1>4, Inductive, PTL DEF Spec
=============================================================================
