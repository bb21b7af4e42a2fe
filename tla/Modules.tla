-------------------------------- MODULE Modules --------------------------------
(****************************************************************************)
(* Modules: compiling a source into one, importing, and the variables that  *)
(* importers take. A module is registered before its source is compiled,    *)
(* its body runs as a function of the djuru that imports it, and the        *)
(* variables are taken afterwards from vm->lastModule, a field of the       *)
(* virtual machine that every import of every djuru writes.                 *)
(*                                                                          *)
(* A source is a sequence of statements, of which only those are kept that  *)
(* declare or read a module's variables, import, or leave the body. Which   *)
(* djuru may be switched to, and which ones an error ends, is Djuru's: here *)
(* it may be any.                                                           *)
(****************************************************************************)
EXTENDS Integers, Sequences, SequencesExt

CONSTANTS Name,        \* names of modules, as the host resolves them
          Variable,    \* names of variables
          Sources,     \* what a source may be
          Djuru, None,
          MaxRuns      \* a bound on the runs the host starts

\* The statements that are kept. <<"from", x, m>> declares x and imports it
\* from m; "RETURN" is a `segin` at the top of the module.
Statement ==
  ({"define", "use"} \X Variable) \cup ({"import"} \X Name) \cup ({"from"} \X Variable \X Name)
    \cup {<<"switch">>, <<"fail">>, <<"RETURN">>}

\* What a variable holds. "line" is the number of the line an undeclared
\* variable is first used on, and to the code a number like any other.
Values == {"absent", "line", "null", "number", "object"}

ASSUME ModulesAssumption ==
  /\ Sources \subseteq Seq(Statement)
  /\ None \notin Name /\ None \notin Djuru
  /\ None \notin [Variable -> Values]

VARIABLES
  modules,     \* vm->modules: the variables of each module, None if there is no such module
  lastModule,  \* vm->lastModule
  cur,         \* vm->djuru, None between runs
  frames,      \* the module bodies each djuru is in: their module and the rest of their code
  runs,        \* how many runs the host has started
  broken,      \* history: modules whose compilation has failed
  left,        \* history: modules whose body has returned before its end
  cut          \* history: modules whose body an error has ended
history == <<broken, left, cut>>
vars == <<modules, lastModule, cur, frames, runs, history>>

IsNum(v) == v \in {"line", "number"}
NoVariables == [x \in Variable |-> "absent"]

(****************************************************************************)
(* The compiler, as far as it declares the module's variables.              *)
(****************************************************************************)
\* A number in a variable that is there is taken for an implicit declaration.
MSCDefineVariable(s, x) ==
  IF s.variables[x] = "absent" \/ IsNum(s.variables[x])
  THEN [s EXCEPT !.variables[x] = "null"]
  ELSE [s EXCEPT !.hasError = TRUE]
MSCDeclareVariable(s, x) ==
  IF s.variables[x] = "absent" THEN [s EXCEPT !.variables[x] = "line"] ELSE s
Emit(s, code) == [s EXCEPT !.code = @ \o code]

CompileStatement(s, statement) ==
  LET x == statement[2] IN
  CASE statement[1] = "define" -> Emit(MSCDefineVariable(s, x), << <<"STORE_MODULE_VAR", x>> >>)
    [] statement[1] = "use"    -> Emit(MSCDeclareVariable(s, x), << <<"LOAD_MODULE_VAR", x>> >>)
    [] statement[1] = "import" -> Emit(s, << <<"IMPORT_MODULE", x>> >>)
    [] statement[1] = "from"   -> Emit(MSCDefineVariable(s, x), << <<"IMPORT_MODULE", statement[3]>>,
                                                                   <<"IMPORT_VARIABLE", x, statement[3]>> >>)
    [] OTHER -> Emit(s, <<statement>>)

\* The compiler's state after each of the statements.
Compilation(variables, source) ==
  LET after[n \in 0 .. Len(source)] ==
        IF n = 0 THEN [variables |-> variables, code |-> <<>>, hasError |-> FALSE]
                 ELSE CompileStatement(after[n - 1], source[n])
  IN  after
Compiled(variables, source) == Compilation(variables, source)[Len(source)]
Body(s) == s.code \o << <<"END_MODULE">>, <<"RETURN">> >>

\* Fault: variables that were used and never defined are not looked for.
MSCCompile_unchecked(variables, source) ==
  LET s == Compiled(variables, source)
  IN [s EXCEPT !.code = Body(s)]

\* The variables that are new and still hold a line were never defined.
MSCCompile(variables, source) ==
  LET s == Compiled(variables, source)
      undefined == \E x \in Variable : variables[x] = "absent" /\ IsNum(s.variables[x])
  IN [s EXCEPT !.code = Body(s), !.hasError = @ \/ undefined]

\* A module that is there is compiled into.
VariablesOf(name) == IF modules[name] = None THEN NoVariables ELSE modules[name]

\* The module keeps the variables the source declared, also if it fails.
compileInModule(name, source) ==
  LET s == MSCCompile(VariablesOf(name), source) IN
  /\ modules' = [modules EXCEPT ![name] = s.variables]
  /\ broken' = IF s.hasError THEN broken \cup {name} ELSE broken

Compiles(name, source) == ~MSCCompile(VariablesOf(name), source).hasError
BodyOf(name, source) == [module |-> name, code |-> MSCCompile(VariablesOf(name), source).code]

(****************************************************************************)
(* Runs and bodies.                                                         *)
(****************************************************************************)
Init ==
  /\ modules = [m \in Name |-> None] /\ lastModule = None
  /\ cur = None /\ frames = [d \in Djuru |-> <<>>] /\ runs = 0
  /\ broken = {} /\ left = {} /\ cut = {}

MSCInterpret(d, name, source) ==
  /\ cur = None /\ frames[d] = <<>> /\ runs < MaxRuns
  /\ runs' = runs + 1
  /\ compileInModule(name, source)
  /\ IF Compiles(name, source)
     THEN cur' = d /\ frames' = [frames EXCEPT ![d] = <<BodyOf(name, source)>>]
     ELSE UNCHANGED <<cur, frames>>
  /\ UNCHANGED <<lastModule, left, cut>>

Frame == Last(frames[cur])
At(op) == cur # None /\ Head(Frame.code)[1] = op
Operand == Head(Frame.code)[2]
Advanced == [frames EXCEPT ![cur][Len(frames[cur])].code = Tail(@)]
Waiting(fs) == {d \in Djuru : fs[d] # <<>>}

\* An error ends the djuru that runs and those it came through.
RuntimeError ==
  \E dead \in SUBSET Djuru :
    /\ cur \in dead
    /\ frames' = [d \in Djuru |-> IF d \in dead THEN <<>> ELSE frames[d]]
    /\ cut' = cut \cup {f.module : f \in UNION {Range(frames[d]) : d \in dead}}
    /\ cur' \in {None} \cup Waiting(frames')

STORE_MODULE_VAR ==
  /\ At("STORE_MODULE_VAR")
  /\ \E v \in {"number", "object"} : modules' = [modules EXCEPT ![Frame.module][Operand] = v]
  /\ frames' = Advanced
  /\ UNCHANGED <<lastModule, cur, runs, history>>

LOAD_MODULE_VAR == At("LOAD_MODULE_VAR") /\ frames' = Advanced /\ UNCHANGED <<modules, lastModule, cur, runs, history>>

\* Fault: the end of a body leaves the last import of the body.
END_MODULE_kept == At("END_MODULE") /\ frames' = Advanced /\ UNCHANGED <<modules, lastModule, cur, runs, history>>

END_MODULE ==
  /\ At("END_MODULE")
  /\ lastModule' = Frame.module
  /\ frames' = Advanced
  /\ UNCHANGED <<modules, cur, runs, history>>

\* The end of a body, or `segin` before its end, which skips END_MODULE.
RETURN ==
  /\ At("RETURN")
  /\ left' = IF Len(Frame.code) > 1 THEN left \cup {Frame.module} ELSE left
  /\ frames' = [frames EXCEPT ![cur] = Front(@)]
  /\ cur' \in IF frames'[cur] # <<>> THEN {cur} ELSE {None} \cup Waiting(frames')
  /\ UNCHANGED <<modules, lastModule, runs, broken, cut>>

\* A module that is there is taken as loaded. The host may have no source for
\* another, and its source may not compile.
AlreadyLoaded ==
  /\ At("IMPORT_MODULE") /\ modules[Operand] # None
  /\ lastModule' = Operand
  /\ frames' = Advanced
  /\ UNCHANGED <<modules, cur, runs, history>>

\* Fault: the body of a module is not run.
RunBody_skipped(source) ==
  /\ compileInModule(Operand, source)
  /\ Compiles(Operand, source)
  /\ frames' = Advanced
  /\ lastModule' = Operand
  /\ UNCHANGED <<cur, runs, left, cut>>

\* The frame of the body is put on top of the importing one.
RunBody(source) ==
  /\ compileInModule(Operand, source)
  /\ Compiles(Operand, source)
  /\ frames' = [Advanced EXCEPT ![cur] = Append(@, BodyOf(Operand, source))]
  /\ UNCHANGED <<lastModule, cur, runs, left, cut>>

importModule ==
  /\ At("IMPORT_MODULE") /\ modules[Operand] = None
  /\ \/ \E source \in Sources : RunBody(source)
     \/ \E source \in Sources :
          compileInModule(Operand, source) /\ ~Compiles(Operand, source)
          /\ RuntimeError /\ UNCHANGED <<lastModule, runs, left>>
     \/ RuntimeError /\ UNCHANGED <<modules, lastModule, runs, broken, left>>

\* A value that is imported is stored in the importer's variable: null and a
\* line's number are then values like any other. Without a last module the
\* code has no meaning.
IMPORT_VARIABLE ==
  /\ At("IMPORT_VARIABLE") /\ lastModule # None
  /\ LET v == modules[lastModule][Operand] IN
     IF v = "absent" THEN RuntimeError /\ UNCHANGED modules
     ELSE /\ modules' = [modules EXCEPT ![Frame.module][Operand] =
                           IF v = "null" THEN "object" ELSE IF IsNum(v) THEN "number" ELSE v]
          /\ frames' = Advanced
          /\ UNCHANGED <<cur, cut>>
  /\ UNCHANGED <<lastModule, runs, broken, left>>

\* What else a body does: switch to another djuru or back to the host, or fail.
Switch ==
  /\ At("switch")
  /\ frames' = Advanced
  /\ cur' \in {None} \cup Waiting(frames)
  /\ UNCHANGED <<modules, lastModule, runs, history>>
Failure == At("fail") /\ RuntimeError /\ UNCHANGED <<modules, lastModule, runs, broken, left>>

Next ==
  \/ \E d \in Djuru, name \in Name, source \in Sources : MSCInterpret(d, name, source)
  \/ STORE_MODULE_VAR \/ LOAD_MODULE_VAR \/ END_MODULE \/ RETURN
  \/ AlreadyLoaded \/ importModule \/ IMPORT_VARIABLE
  \/ Switch \/ Failure

Spec == Init /\ [][Next]_vars

(****************************************************************************)
(* Properties.                                                              *)
(****************************************************************************)
\* The module that the running import statement names.
Imported == Head(Frame.code)[3]
Bodies(m) == {d \in Djuru : \E f \in Range(frames[d]) : f.module = m}

\* IMPORT_VARIABLE takes a variable from the module that its own statement
\* imports, whatever that module imports in turn and whatever other djurus
\* import while its body runs ("when that finishes executing the imported
\* module, it leaves the ObjModule in vm->lastModule"). A body that has left
\* before its end leaves another module there.
ImportsFromItsModule == At("IMPORT_VARIABLE") /\ Imported \notin left => lastModule = Imported

\* "When that finishes executing the imported module, it leaves the ObjModule
\* in vm->lastModule" (the compiler's import), so that every variable is taken
\* from the module its statement names. A `segin` at the top of the module
\* finishes it without.
LastModuleIsImported == At("IMPORT_VARIABLE") => lastModule = Imported

\* What an import takes has its value: the module's body has run to its end,
\* unless it is not over yet (modules that import each other, a djuru that
\* waits inside it) or never will be, because it left, failed or did not
\* compile. Such a module counts as loaded all the same.
CompleteWhenImported ==
  At("IMPORT_VARIABLE") /\ Imported \notin left \cup cut \cup broken /\ Bodies(Imported) = {}
    => modules[Imported][Operand] # "null"

\* A script never reads the line number of an implicit declaration, unless
\* the module's compilation has failed and left it there.
NoLineNumbers ==
  /\ At("LOAD_MODULE_VAR") /\ Frame.module \notin broken => modules[Frame.module][Operand] # "line"
  /\ At("IMPORT_VARIABLE") /\ lastModule \notin broken \cup {None} => modules[lastModule][Operand] # "line"
===============================================================================
