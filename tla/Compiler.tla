------------------------------- MODULE Compiler -------------------------------
(****************************************************************************)
(* The single-pass compiler: scopes, locals, upvalues, jumps and the code   *)
(* of every statement, expression and definition.                           *)
(*                                                                          *)
(* The grammar functions of Compiler.c call each other as they meet tokens. *)
(* Here the C stack of such calls is `todo`, a sequence of tasks: some are  *)
(* the C functions that emit code or change the compiler, which Run carries *)
(* out; the others are what the next tokens decide ("expression",           *)
(* "statement", ...), and each action below takes one and replaces it by    *)
(* the tasks of a grammar function. `budget` bounds the script: an action   *)
(* pays the cost of what it adds, and has one only in some `grammars`.      *)
(*                                                                          *)
(* History variables: every declaration has a number; `env` says which are  *)
(* visible, in the order of the script; the cells of the code, the upvalues *)
(* and `marks` carry those numbers, so that Bytecode!Walk can say whether   *)
(* an instruction finds the variable the script means. `hits` has the known *)
(* defects of Compiler.c that the program has met.                          *)
(****************************************************************************)
EXTENDS Bytecode, SequencesExt

CONSTANTS Names,        \* what a script calls its variables
          Used,         \* those that occur in more than patterns
          Grammars,     \* the parts of the language, each a record: cost, of each kind
                        \* of phrase it has; budget, the bound on a script's cost;
                        \* patterns and lists (of parameters), that a script may have
          MaxArguments, \* bound on the arguments of a call
          MAX_LOCALS,   \* the length of compiler->locals
          None          \* the C NULL

ASSUME CompilerAssumption ==
  /\ {MaxArguments, MAX_LOCALS} \subseteq Nat
  /\ Used \subseteq Names
  /\ \A g \in Grammars : g.budget \in Nat /\ \A kind \in DOMAIN g.cost : g.cost[kind] \in Nat

VARIABLES
  compiler,  \* what the C code keeps while it compiles, a record:
             \*   fns     compiler and its parents, the innermost last
             \*   module  for each name "none", "declared" (used, not yet
             \*           defined) or "defined" as a variable of the module
             \*   ret     what the last statement left: a "value" it reports,
             \*           a "hidden" value it does not, "none", or it is "gone"
             \*   env, ids, statics (the declarations of static fields), hits, failed,
             \*   last (the function just finished)
  todo,      \* the tasks
  grammar,   \* the part of the language the script is written in
  budget     \* what is left of the bound on the script

vars == <<compiler, todo, grammar, budget>>

(****************************************************************************)
(* The records of the C code.                                               *)
(****************************************************************************)
Local(name, depth, id, soft) == [name |-> name, depth |-> depth, isUpvalue |-> FALSE, id |-> id, soft |-> soft]

\* initCompiler. The receiver is local 0, called `ale` in a method. dotSource
\* is not initialised.
NewCompiler(isMethod, isTop, id) ==
  [locals |-> <<Local(IF isMethod THEN "ale" ELSE "", -1, id, FALSE)>>,
   scopeDepth |-> IF isTop THEN -1 ELSE 0,
   numSlots |-> 1, maxSlots |-> 1, code |-> <<>>, upvalues |-> <<>>, loops |-> <<>>,
   enclosingClass |-> None, isInitializer |-> FALSE, isExtension |-> FALSE, dotSource |-> "unset",
   attributes |-> FALSE, numAttributes |-> 0,
   jumps |-> <<>>, targets |-> <<>>,                             \* C locals of the grammar functions
   marks |-> <<>>, params |-> <<>>, receiver |-> id, leaked |-> 0, ale |-> 0]  \* history

Top(s) == s.fns[Len(s.fns)]
WithTop(s, f) == [s EXCEPT !.fns[Len(s.fns)] = f]
Hit(s, defect, when) == IF when THEN [s EXCEPT !.hits = @ \cup {defect}] ELSE s
Fail(s, when) == IF when THEN [s EXCEPT !.failed = TRUE] ELSE s

(****************************************************************************)
(* Emitting code.                                                           *)
(****************************************************************************)
EmitCell(f, b, n, id) == [f EXCEPT !.code = Append(@, Cell(b, n, id))]

\* Fault: the slots in use before the instruction.
EmitOp_stale(f, b, n, id) ==
  [EmitCell(f, b, n, id) EXCEPT !.numSlots = @ + stackEffects(b, n),
                                !.maxSlots = IF f.numSlots > @ THEN f.numSlots ELSE @]

\* emitOp: unlike emitByte it counts the slots the instruction takes or frees.
UseSlots(f, slots) == [f EXCEPT !.numSlots = slots, !.maxSlots = IF slots > @ THEN slots ELSE @]
EmitOp(f, b, n, id) == UseSlots(EmitCell(f, b, n, id), f.numSlots + stackEffects(b, n))

EmitByteArg(f, b, n, arg, id) == EmitCell(EmitOp(f, b, n, id), "arg", arg, 0)
EmitShortArg(f, b, n, arg, id) == EmitCell(EmitByteArg(f, b, n, arg, id), "arg", 0, 0)

\* emitJump: the placeholder's index goes to a C local, here on f.jumps.
EmitJump(f, b) ==
  [EmitShortArg(f, b, 0, 0, 0) EXCEPT !.jumps = Append(@, Len(f.code) + 2)]

\* patchJump: the distance from the placeholder's end to the end of the code.
PatchJump(f, at) == [f EXCEPT !.code[at].n = Len(f.code) - at - 1]

\* loadLocal: the first nine slots have instructions of one byte.
LoadLocal(f, slot, id) ==
  IF slot <= 8 THEN EmitOp(f, "LOAD_LOCAL_", slot, id) ELSE EmitByteArg(f, "LOAD_LOCAL", 0, slot, id)

\* callMethod, callSignature: OP_CALL_0 + n.
CallMethod(f, n) == EmitShortArg(f, "CALL_", n, 0, 0)

(****************************************************************************)
(* Scopes and names.                                                        *)
(****************************************************************************)
\* Fault: the outermost local of that name.
ResolveLocal_outermost(f, name) == SelectInSeq(f.locals, LAMBDA l : l.name = name) - 1

\* The slot of the innermost local of that name, -1 when there is none.
ResolveLocal(f, name) == SelectLastInSeq(f.locals, LAMBDA l : l.name = name) - 1

\* addUpvalue: the same variable is captured once.
AddUpvalue(fns, k, isLocal, index, id) ==
  LET old  == fns[k].upvalues
      same == {i \in DOMAIN old : old[i].isLocal = isLocal /\ old[i].index = index}
  IN IF same # {} THEN [fns |-> fns, index |-> (CHOOSE i \in same : TRUE) - 1]
     ELSE [fns   |-> [fns EXCEPT ![k].upvalues = Append(@, [isLocal |-> isLocal, index |-> index, id |-> id])],
           index |-> Len(old)]

\* Fault: the search stops at the boundary of a method, as the line in comments
\* has it, but for the exception of names that begin with `_`: static fields
\* no longer do.
RECURSIVE FindUpvalue_stops(_, _, _, _)
FindUpvalue_stops(fns, k, name, id) ==
  IF k = 1 \/ fns[k - 1].enclosingClass # None THEN [fns |-> fns, index |-> -1]
  ELSE LET slot == ResolveLocal(fns[k - 1], name)
           far  == FindUpvalue_stops(fns, k - 1, name, id)
       IN CASE slot # -1 ->
                 AddUpvalue([fns EXCEPT ![k - 1].locals[slot + 1].isUpvalue = TRUE], k, TRUE, slot, id)
            [] slot = -1 /\ far.index # -1 -> AddUpvalue(far.fns, k, FALSE, far.index, id)
            [] OTHER -> [fns |-> fns, index |-> -1]

\* findUpvalue: the variable of an enclosing function, through every function
\* in between. Its test for the boundary of a method is commented out.
RECURSIVE FindUpvalue(_, _, _, _)
FindUpvalue(fns, k, name, id) ==
  IF k = 1 THEN [fns |-> fns, index |-> -1]
  ELSE LET slot == ResolveLocal(fns[k - 1], name)
           far  == FindUpvalue(fns, k - 1, name, id)
       IN CASE slot # -1 ->
                 AddUpvalue([fns EXCEPT ![k - 1].locals[slot + 1].isUpvalue = TRUE], k, TRUE, slot, id)
            [] slot = -1 /\ far.index # -1 -> AddUpvalue(far.fns, k, FALSE, far.index, id)
            [] OTHER -> [fns |-> fns, index |-> -1]

\* What the script means by a name: its innermost declaration still in scope.
Meaning(s, name) ==
  LET seen == FlattenSeq(s.env)
      i    == SelectLastInSeq(seen, LAMBDA d : d.name = name)
  IN IF i = 0 THEN Global ELSE seen[i].id

\* resolveNonmodule; the variable goes to a C local, here on f.targets.
Found(scope, index, id) == [scope |-> scope, index |-> index, id |-> id]
PushTarget(s, v) == WithTop(s, [Top(s) EXCEPT !.targets = Append(@, v)])
IsSoft(s, id) == \E f \in Range(s.fns) : \E l \in Range(f.locals) : l.id = id /\ l.soft
TakeUpvalue(s, up, id) ==
  Hit(PushTarget([s EXCEPT !.fns = up.fns], Found("upvalue", up.index, id)), "softly closed",
      up.index # -1 /\ IsSoft(s, id))
ResolveAs(s, name, slot, id) ==
  IF slot # -1 THEN PushTarget(s, Found("local", slot, id))
  ELSE TakeUpvalue(s, FindUpvalue(s.fns, Len(s.fns), name, id), id)
ResolveNonmodule(s, name) == ResolveAs(s, name, ResolveLocal(Top(s), name), Meaning(s, name))

Target(s) == Last(Top(s).targets)
DropTarget(s) == WithTop(s, [Top(s) EXCEPT !.targets = Front(@)])

\* A local around a class whose method is being compiled, other than a static
\* field. findUpvalue takes it, the comment above findUpvalue says it does not.
AroundMethod(s, id) ==
  /\ id \notin s.statics
  /\ \E k \in 1 .. Len(s.fns) - 1 :
       /\ s.fns[k].enclosingClass # None
       /\ \E j \in 1 .. k : \E l \in Range(s.fns[j].locals) : l.id = id

\* name(): a name found nowhere, as `r` says, is declared as a variable of the
\* module. Its id is that of what the script means by the name, so that a
\* local missed shows; one that is AroundMethod need not be found.
DeclareUnless(r, s, name) ==
  IF Target(r).index # -1 THEN r
  ELSE [PushTarget(s, Found("module", 0, IF AroundMethod(s, Meaning(s, name)) THEN Global ELSE Meaning(s, name)))
        EXCEPT !.module[name] = IF @ = "none" THEN "declared" ELSE @]
ResolveName(s, name) == DeclareUnless(ResolveNonmodule(s, name), s, name)

\* loadVariable and the stores of bareName.
LoadVariable(f, v) ==
  CASE v.scope = "local"   -> LoadLocal(f, v.index, v.id)
    [] v.scope = "upvalue" -> EmitByteArg(f, "LOAD_UPVALUE", 0, v.index, v.id)
    [] v.scope = "module"  -> EmitShortArg(f, "LOAD_MODULE_VAR", 0, 0, v.id)
StoreVariable(f, v, binds) ==
  CASE v.scope = "local"   -> EmitByteArg(f, "STORE_LOCAL", binds, v.index, v.id)
    [] v.scope = "upvalue" -> EmitByteArg(f, "STORE_UPVALUE", 0, v.index, v.id)
    [] v.scope = "module"  -> EmitShortArg(f, "STORE_MODULE_VAR", 0, 0, v.id)

LoadTarget(s) == DropTarget(WithTop(s, LoadVariable(Top(s), Target(s))))
StoreTarget(s, binds) == DropTarget(WithTop(s, StoreVariable(Top(s), Target(s), binds)))

LoadCoreVariable(f) == EmitShortArg(f, "LOAD_MODULE_VAR", 0, 0, Global)

\* The value on top of the stack is the variable's: a mark for Walk.
Mark(f, id) == [f EXCEPT !.marks = Append(@, <<Len(f.code) + 1, id>>)]

\* addLocal. `under` is the number of temporaries of unfinished expressions
\* on the stack: the local's slot is only its index when there are none, and
\* when no statement has left its value there.
AddLocal(s, name, under, soft) ==
  LET f == Top(s)
      g == [f EXCEPT !.locals = Append(@, Local(name, f.scopeDepth, s.ids + 1, soft))]
      t == [WithTop(s, g) EXCEPT !.ids = @ + 1,
                                 !.env[Len(s.env)] = Append(@, [name |-> name, id |-> s.ids + 1])]
  IN Hit(Hit(t, "temporaries", under > 0), "unpopped", f.leaked > 0)

\* declareVariable, declareFunction.
Declare(s, name, under) ==
  LET f   == Top(s)
      dup == \E i \in DOMAIN f.locals :
               /\ f.locals[i].name = name
               /\ \A j \in i .. Len(f.locals) : f.locals[j].depth >= f.scopeDepth
  IN IF f.scopeDepth = -1
     THEN [Fail(s, s.module[name] = "defined") EXCEPT !.module[name] = "defined"]
     ELSE IF dup \/ Len(f.locals) = MAX_LOCALS THEN Fail(s, TRUE)
     ELSE AddLocal(s, name, under, FALSE)

\* defineVariable: a local's value is already in its slot.
Define(s, name) ==
  LET f == Top(s)
  IN WithTop(s, IF f.scopeDepth >= 0 THEN Mark(f, Meaning(s, name))
                ELSE EmitOp(EmitShortArg(f, "STORE_MODULE_VAR", 0, 0, Global), "POP", 0, 0))

\* Fault: captured locals are not told from the others.
DiscardLocals_pop(f, depth) ==
  FoldLeft(LAMBDA g, i : EmitCell(g, "POP", 0, 0), f, [i \in 1 .. Cardinality({i \in DOMAIN f.locals : f.locals[i].depth >= depth}) |-> i])

\* discardLocals emits bytes, so the slots in use are not counted down.
Discarded(f, depth) == {i \in DOMAIN f.locals : f.locals[i].depth >= depth}
DiscardLocals(f, depth) ==
  LET ends == SetToSortSeq(Discarded(f, depth), LAMBDA i, j : i > j)
  IN FoldLeft(LAMBDA g, i : EmitCell(g, IF f.locals[i].isUpvalue THEN "CLOSE_UPVALUE" ELSE "POP", 0, 0), f, ends)

\* pushScope, popScope, and softPopScope, which leaves the last local's value
\* on the stack.
PushScope(s) == [WithTop(s, [Top(s) EXCEPT !.scopeDepth = @ + 1]) EXCEPT !.env = Append(@, <<>>)]
LeaveScope(s, f) ==
  LET popped == Cardinality(Discarded(f, f.scopeDepth))
  IN [WithTop(s, [f EXCEPT !.locals = SubSeq(@, 1, Len(@) - popped), !.numSlots = @ - popped,
                           !.scopeDepth = @ - 1])
      EXCEPT !.env = Front(@)]
PopScope(s) == LeaveScope(s, DiscardLocals(Top(s), Top(s).scopeDepth))
SoftPopScope(s) == LET t == LeaveScope(s, Top(s)) IN WithTop(t, Mark(Top(t), Temporary))

\* A value nobody pops: what is declared above it later is in the wrong slot.
Leak(s, when) ==
  LET f == Top(s)
  IN IF ~when THEN s
     ELSE Hit(WithTop(s, [f EXCEPT !.leaked = @ + 1]), "unpopped", f.jumps # <<>> \/ f.loops # <<>>)

(****************************************************************************)
(* Loops, statements and functions.                                         *)
(****************************************************************************)
\* startLoop, testExitLoop, loopBody. The C code sets exitJump and body later.
StartLoop(f) == [f EXCEPT !.loops = Append(@, [start |-> Len(f.code) - 1, scopeDepth |-> f.scopeDepth,
                                               exitJump |-> 0, body |-> 0])]
ExitAt(f) == [f EXCEPT !.jumps = Front(@), !.loops[Len(f.loops)].exitJump = Last(f.jumps)]
TestExitLoop(f) == ExitAt(EmitJump(f, "JUMP_IF"))
\* Fault: the offset is one too small.
EmitLoop_short(f) == EmitShortArg(f, "LOOP", 0, Len(f.code) - Last(f.loops).start + 1, 0)

LoopBody(f) == [f EXCEPT !.loops[Len(f.loops)].body = Len(f.code) + 1]
EmitLoop(f) == EmitShortArg(f, "LOOP", 0, Len(f.code) - Last(f.loops).start + 2, 0)

\* endLoop's search for the placeholders of breaks, from the loop's body on.
RECURSIVE PatchBreaks(_, _)
PatchBreaks(f, i) ==
  CASE i > Len(f.code) -> f
    [] i <= Len(f.code) /\ f.code[i].b = "END" ->
         PatchBreaks(PatchJump([f EXCEPT !.code[i].b = "JUMP"], i + 1), i + 3)
    [] OTHER -> PatchBreaks(f, i + 1 + getByteCountForArguments(f.code, i))
EndLoop(f) ==
  LET loop == Last(f.loops)
  IN [PatchBreaks(PatchJump(EmitLoop(f), loop.exitJump), loop.body) EXCEPT !.loops = Front(@)]

\* Fault: the scopes of the loop's body are not ended.
Break_keeps(s) ==
  IF Top(s).loops = <<>> THEN Fail(s, TRUE)
  ELSE Hit(WithTop(s, EmitShortArg(Top(s), "END", 0, 0, 0)), "break in condition", Last(Top(s).loops).body = 0)

\* break and continue; both end the scopes of the loop's body first.
Break(s) ==
  LET f == Top(s)
      g == DiscardLocals(f, Last(f.loops).scopeDepth + 1)
  IN IF f.loops = <<>> THEN Fail(s, TRUE)
     ELSE Hit(WithTop(s, EmitShortArg(g, "END", 0, 0, 0)), "break in condition", Last(f.loops).body = 0)
Continue(s) ==
  LET f == Top(s)
  IN IF f.loops = <<>> THEN Fail(s, TRUE)
     ELSE WithTop(s, EmitLoop(DiscardLocals(f, Last(f.loops).scopeDepth + 1)))

\* The nearest class around the code.
Classes(s) == SelectSeq(s.fns, LAMBDA f : f.enclosingClass # None)

\* Whether the name after a dot is taken for a field of that class.
IsField(s, declared, garbage) ==
  LET source == Top(s).dotSource
  IN /\ declared /\ Classes(s) # <<>> /\ Last(Classes(s)).enclosingClass.fields > 0
     /\ \/ source = "this"
        \/ source = "unset" /\ garbage

\* this_: `ale` is local 0 of a method, or captured from one.
NoteThis(s)    == WithTop(s, [Top(s) EXCEPT !.ale = Len(Top(s).code)])
LoadReceiver(s) == Hit(NoteThis(LoadTarget(s)), "no ale", Target(s).index = -1)
LoadThis(s)     == LoadReceiver(ResolveNonmodule(s, "ale"))

\* initCompiler for the function that begins.
BeginFunction(s, kind) ==
  LET isMethod == kind # "function"
      id == IF isMethod THEN FirstThis - s.ids ELSE 0
      f  == [NewCompiler(isMethod, FALSE, id) EXCEPT !.isInitializer = kind = "initializer",
                                                     !.isExtension = kind = "extension"]
  IN [s EXCEPT !.fns = Append(@, f), !.ids = @ + 1,
               !.env = Append(@, IF isMethod THEN <<[name |-> "ale", id |-> id]>> ELSE <<>>)]

\* The end of finishBody.
EndBody(s) ==
  LET f == Top(s)
      g == CASE f.isInitializer /\ s.ret = "value" -> EmitOp(EmitOp(f, "POP", 0, 0), "LOAD_LOCAL_", 0, f.receiver)
             [] f.isInitializer /\ s.ret # "value" -> EmitOp(f, "LOAD_LOCAL_", 0, f.receiver)
             [] OTHER -> IF s.ret = "value" THEN f ELSE EmitOp(f, "NULL", 0, 0)
  IN WithTop(s, EmitOp(g, "RETURN", 0, 0))

\* endCompiler: the parent makes the closure, with one pair of bytes for each
\* upvalue.
EndFunction(s) ==
  LET f   == EmitOp(Top(s), "END", 0, 0)
      t   == [s EXCEPT !.fns = Front(@), !.env = Front(@), !.last = f]
      Pair(g, u) == EmitCell(EmitCell(g, "arg", IF u.isLocal THEN 1 ELSE 0, u.id), "arg", u.index, 0)
  IN IF Len(s.fns) = 1 THEN t
     ELSE WithTop(t, FoldLeft(Pair, EmitShortArg(Top(t), "CLOSURE", 0, Len(f.upvalues), 0), f.upvalues))

(****************************************************************************)
(* Classes: their attributes, static fields, and the fields of `ale`.       *)
(****************************************************************************)
\* matchAttribute: one attribute before a definition; those that are there at
\* run time are kept in a map.
MatchAttribute(f, isRuntime) == [f EXCEPT !.numAttributes = @ + 1, !.attributes = @ \/ isRuntime]

\* classDefinition's ClassInfo, which takes the attributes.
EnterClass(f) ==
  [f EXCEPT !.enclosingClass = [var |-> Last(f.targets), fields |-> 0, attributes |-> f.attributes,
                                methodAttributes |-> FALSE],
            !.targets = Front(@), !.attributes = FALSE, !.numAttributes = 0]

\* copyMethodAttributes; the method's own compiler is on top.
CopyMethodAttributes(s) ==
  LET k == Len(s.fns) - 1
  IN [s EXCEPT !.fns[k].numAttributes = 0, !.fns[k].attributes = FALSE,
               !.fns[k].enclosingClass.methodAttributes = @ \/ s.fns[k].attributes]

\* The class's variable is declared; where a local, its slot gets the name first.
MarkIfLocal(s)     == IF Target(s).scope = "local" THEN WithTop(s, Mark(Top(s), Target(s).id)) ELSE s
NameClass(s, name) ==
  MarkIfLocal(ResolveName(WithTop(s, EmitShortArg(Top(s), "CONSTANT", 0, 0, 0)), name))

\* declareFunction, by the parent of the compiler that has read the parameters.
DeclareFunction(s, name, under) ==
  LET d == Declare([s EXCEPT !.fns = Front(@), !.env = Front(@)], name, under)
  IN [d EXCEPT !.fns = Append(@, Top(s)), !.env = Append(@, Last(s.env))]

\* staticField: the variable of a name not seen before in this function.
DeclareStatic(s, name, under) ==
  IF ResolveLocal(Top(s), name) # -1 THEN s
  ELSE LET d == Declare(s, name, under)
           t == [d EXCEPT !.statics = @ \cup {d.ids}]
       IN  Define(WithTop(t, EmitOp(Top(t), "NULL", 0, 0)), name)

\* callSignature for a getter; namedCall for a setter, before and after the
\* value.
Get(s, declared, garbage) ==
  IF IsField(s, declared, garbage)
  THEN Hit(WithTop(s, EmitByteArg(Top(s), "LOAD_FIELD", 0, 0, 0)), "stale dotSource", Top(s).ale # Len(Top(s).code))
  ELSE WithTop(s, CallMethod(Top(s), 0))
ChooseSetter(s, declared, garbage) ==
  LET isField == IsField(s, declared, garbage)
  IN Hit(PushTarget(s, Found(IF isField THEN "field" ELSE "method", 0, 0)), "stale dotSource",
         isField /\ Top(s).ale # Len(Top(s).code))
Set(s) ==
  DropTarget(WithTop(s, IF Target(s).scope = "field" THEN EmitByteArg(Top(s), "STORE_FIELD", 0, 0, 0)
                        ELSE CallMethod(Top(s), 1)))

(****************************************************************************)
(* Values of blocks. statement and definition return whether they left a    *)
(* value on the stack, here s.ret; what they leave without saying so leaks. *)
(****************************************************************************)
EmitPop(s) == WithTop(s, EmitOp(Top(s), "POP", 0, 0))

\* A block's value goes to its hidden local.
StoreBlock(s) ==
  IF s.ret # "value" THEN s
  ELSE EmitPop(StoreTarget(ResolveName(s, "tmpBlck "), 0))

\* finishBlock: the value of an item that is not the last, and of the block.
PopValue(s, expr) ==
  IF expr /\ s.ret = "value" THEN EmitPop(s) ELSE Leak(s, expr /\ s.ret = "hidden")
EndItems(s, expr) ==
  [Leak(s, expr /\ s.ret = "hidden") EXCEPT !.ret = IF @ = "gone" \/ (expr /\ @ = "value") THEN @ ELSE "none"]

\* The value of `segin` alone.
Result(s) == WithTop(s, IF Top(s).isInitializer THEN EmitOp(Top(s), "LOAD_LOCAL_", 0, Top(s).receiver)
                        ELSE EmitOp(Top(s), "NULL", 0, 0))

(****************************************************************************)
(* The tasks.                                                               *)
(****************************************************************************)
Op(b)             == <<"op", b, 0>>
Call(n)           == <<"short", "CALL_", n, 0>>
Load(name)        == <<"load", name>>
Expression(n)     == <<"expression", n, FALSE>>
Receiver(n)       == <<"expression", n, TRUE>>
Statement(expr,n) == <<"statement", expr, n>>
Definition(expr,n) == <<"definition", expr, n>>
FinishBlock(expr,n) == <<"block", expr, n>>
Ret(v)            == <<"ret", v>>
Hidden(name, n)   == <<"addLocal", name, n, "value">>
Constant          == <<"short", "CONSTANT", 0, 0>>
Core              == <<"core">>
Do0(name)         == <<name>>

\* The arguments of a call whose receiver is on top of n temporaries.
Arguments(k, n) == [i \in 1 .. k |-> Expression(n + i)]

\* A task on the innermost compiler alone.
OnTop(f, t) ==
  CASE t[1] = "op"          -> EmitOp(f, t[2], t[3], 0)
    [] t[1] = "short"       -> EmitShortArg(f, t[2], t[3], t[4], 0)
    [] t[1] = "byteArg"     -> EmitByteArg(f, t[2], 0, t[3], 0)
    [] t[1] = "super"       -> EmitCell(EmitCell(EmitShortArg(f, "SUPER_", t[2], 0, 0), "arg", 0, 0), "arg", 0, 0)
    [] t[1] = "pop"         -> EmitCell(f, "POP", 0, 0)
    [] t[1] = "core"        -> LoadCoreVariable(f)
    [] t[1] = "argument"    -> LoadLocal(f, Len(f.params), Free)
    [] t[1] = "forward"     -> EmitShortArg(f, "CALL_", Len(f.params), 0, 0)
    [] t[1] = "newArgument" -> [f EXCEPT !.params = Append(@, Free)]
    [] t[1] = "jump"        -> EmitJump(f, t[2])
    [] t[1] = "patch"       -> [PatchJump(f, Last(f.jumps)) EXCEPT !.jumps = Front(@), !.ale = 0]
    [] t[1] = "patchUnder"  -> [PatchJump(f, f.jumps[Len(f.jumps) - 1]) EXCEPT !.jumps = RemoveAt(@, Len(@) - 1)]
    [] t[1] = "startLoop"   -> StartLoop(f)
    [] t[1] = "testExit"    -> TestExitLoop(f)
    [] t[1] = "loopBody"    -> LoopBody(f)
    [] t[1] = "endLoop"     -> EndLoop(f)
    [] t[1] = "dotSource"   -> [f EXCEPT !.dotSource = t[2]]
    [] t[1] = "newField"    -> [f EXCEPT !.enclosingClass.fields = @ + 1]
    [] t[1] = "loadClass"   -> LoadVariable(f, f.enclosingClass.var)
    [] t[1] = "attribute"   -> MatchAttribute(f, t[2])
    [] t[1] = "class"       -> IF t[2] THEN EmitOp(f, "EXTERN_CLASS", 0, 0) ELSE EmitByteArg(f, "CLASS", 0, 255, 0)
    [] t[1] = "enterClass"  -> EnterClass(f)
    [] t[1] = "leaveClass"  -> [f EXCEPT !.enclosingClass = None]
TopTasks == {"op", "short", "byteArg", "super", "pop", "core", "argument", "forward", "newArgument", "jump", "patch", "patchUnder",
             "startLoop", "testExit", "loopBody", "endLoop", "dotSource", "newField", "loadClass", "attribute",
             "class", "enterClass", "leaveClass"}

\* Any other task.
OnCompiler(s, t) ==
  LET f == Top(s)
  IN CASE t[1] = "pushScope"   -> PushScope(s)
       [] t[1] = "popScope"    -> PopScope(s)
       [] t[1] = "softPop"     -> SoftPopScope(s)
       [] t[1] = "addLocal"    -> LET a == AddLocal(s, t[2], t[3], t[4] = "soft") 
                                  IN WithTop(a, Mark(Top(a), IF t[4] = "free" THEN Free ELSE a.ids))
       [] t[1] = "loopCheck"   -> Fail(s, Len(f.locals) + 3 > MAX_LOCALS)
       [] t[1] = "declare"     -> Declare(s, t[2], t[3])
       [] t[1] = "define"      -> Define(s, t[2])
       [] t[1] = "declareOuter" -> DeclareFunction(s, t[2], t[3])
       [] t[1] = "declareStatic" -> DeclareStatic(s, t[2], t[3])
       [] t[1] = "dropTarget"  -> DropTarget(s)
       [] t[1] = "className"   -> NameClass(s, t[2])
       [] t[1] = "fresh"       -> IF f.scopeDepth = -1 THEN s ELSE WithTop(s, Mark(EmitOp(f, "NULL", 0, 0),
                                                                                IF t[2] THEN Free ELSE Last(f.locals).id))
       [] t[1] = "parameter"   -> LET d == Declare(s, t[2], 0)
                                  IN Hit(WithTop(d, [Top(d) EXCEPT !.params = Append(@, d.ids)]),
                                         "pattern parameter", Free \in Range(f.params))
       [] t[1] = "anonymous"   -> Hit(WithTop(s, [f EXCEPT !.params = Append(@, Free)]),
                                      "pattern parameter", Free \in Range(f.params))
       [] t[1] = "load"        -> LoadTarget(ResolveName(s, t[2]))
       [] t[1] = "resolve"     -> ResolveName(s, t[2])
       [] t[1] = "store"       -> StoreTarget(s, 0)
       [] t[1] = "assign"      -> StoreTarget(ResolveName(s, t[2]), 1)
       [] t[1] = "get"         -> Get(s, t[2], t[3])
       [] t[1] = "setTarget"   -> ChooseSetter(s, t[2], t[3])
       [] t[1] = "set"         -> Set(s)
       [] t[1] = "this"        -> IF Classes(s) # <<>> \/ f.isExtension THEN LoadThis(s) ELSE Fail(s, TRUE)
       [] t[1] = "break"       -> Break(s)
       [] t[1] = "continue"    -> Continue(s)
       [] t[1] = "result"      -> Result(s)
       [] t[1] = "noInit"      -> Fail(s, f.isInitializer)
       [] t[1] = "ret"         -> [s EXCEPT !.ret = t[2]]
       [] t[1] = "branch"      -> Hit(s, "no value", t[2] /\ s.ret = "none")
       [] t[1] = "storeBlock"  -> StoreBlock(s)
       [] t[1] = "blockValue"  -> [s EXCEPT !.ret = IF @ = "none" THEN "hidden" ELSE @]
       [] t[1] = "unpopped"    -> Leak(s, s.ret \in {"value", "hidden"})
       [] t[1] = "leak"        -> Leak(s, TRUE)
       [] t[1] = "popValue"    -> PopValue(s, t[2])
       [] t[1] = "endItems"    -> EndItems(s, t[2])
       [] t[1] = "begin"       -> BeginFunction(s, t[2])
       [] t[1] = "abandon"     -> [s EXCEPT !.fns = Front(@), !.env = Front(@)]
       [] t[1] = "endBody"     -> EndBody(s)
       [] t[1] = "end"         -> EndFunction(s)
       [] t[1] = "methodAttributes" -> CopyMethodAttributes(s)
       [] t[1] = "disallow"    -> Fail(s, f.numAttributes > 0)
       [] t[1] = "noUndefined" -> Fail(s, \E x \in Names : s.module[x] = "declared")

\* declarePattern, and parsePattern where it declares: a null for each local.
RECURSIVE DeclarePattern(_, _, _)
DeclarePattern(pattern, isParameter, n) ==
  IF pattern.type \in {"name", "rest"} THEN << <<"declare", pattern.name, n>>, <<"fresh", isParameter>> >>
  ELSE FlattenSeq([i \in DOMAIN pattern.items |-> DeclarePattern(pattern.items[i], isParameter, n)])

\* assignVariable: the pop is not counted.
Assign(name) == << <<"assign", name>>, Do0("pop") >>

\* handleDestructuration of the value on top of the stack.
RECURSIVE Destructure(_)
Destructure(pattern) ==
  LET isMap == pattern.type = "object"
      Element(i) ==
        LET item == pattern.items[i]
            Forget == <<Load("map_m "), Constant, Call(1), Do0("pop")>>
        IN IF item.type = "rest"
           THEN <<Core, Call(0)>>
                \o (IF isMap
                    THEN << <<"assign", "map_m ">>, Load("tmp_ "), Call(1)>>
                         \o FlattenSeq([j \in 1 .. i - 1 |-> Forget])
                    ELSE <<Load("tmp_ "), Constant, Load("tmp_ "), Call(0), Call(1), Call(1), Call(1)>>)
                \o Assign(item.name)
           ELSE <<Load("tmp_ "), Constant, Call(1)>>
                \o (IF item.type = "name" THEN Assign(item.name) ELSE Destructure(item))
  IN <<Do0("pushScope"), <<"addLocal", "tmp_ ", 0, "free">>, <<"assign", "tmp_ ">> >>
     \o (IF isMap THEN <<Op("NULL"), <<"addLocal", "map_m ", 0, "free">> >> ELSE <<>>)
     \o FlattenSeq([i \in DOMAIN pattern.items |-> Element(i)])
     \o <<Do0("popScope")>>

\* finishParameterList.
Parameter(pattern) ==
  IF pattern.type = "name" THEN << <<"parameter", pattern.name>> >>
  ELSE << Do0("anonymous") >> \o DeclarePattern(pattern, TRUE, 0) \o << Do0("argument") >> \o Destructure(pattern)
       \o << Op("POP") >>
Parameters(list) == FlattenSeq([i \in DOMAIN list |-> Parameter(list[i])])

\* emitClassAttributes, of one attribute for the class or for one method.
EmitAttributes == <<Core, Call(0), Constant, Core, Call(0), Constant, Core, Call(0), Constant, Call(1), Call(2), Call(2)>>
EmitAttributeMethods == <<Core, Call(0), Constant>> \o EmitAttributes \o <<Call(2)>>
ClassAttributes(class) ==
  IF ~class.attributes /\ ~class.methodAttributes THEN <<>>
  ELSE <<Core>> \o (IF class.attributes THEN EmitAttributes ELSE <<Op("NULL")>>)
       \o (IF class.methodAttributes THEN EmitAttributeMethods ELSE <<Op("NULL")>>)
       \o <<Call(2), Do0("loadClass"), Op("END_CLASS")>>

\* The tasks that the next tokens of the script decide.
ScriptChoices == {"program", "definition", "statement", "expression", "block", "more", "members", "when"}

\* Whether the C code goes on, with the first of the tasks.
GoesOn(s, tasks) == ~s.failed /\ s.last = None /\ tasks # <<>> /\ Head(tasks)[1] \notin ScriptChoices

Do(s, t) == IF t[1] \in TopTasks THEN WithTop(s, OnTop(Top(s), t)) ELSE OnCompiler(s, t)

\* Carries out the tasks up to the next one that the script decides, or to the
\* end of a function.
RECURSIVE Run(_, _)
Run(s, tasks) ==
  CASE ~GoesOn(s, tasks) -> [compiler |-> s, todo |-> IF s.failed THEN <<>> ELSE tasks]
    [] GoesOn(s, tasks) /\ Head(tasks)[1] = "attributes" ->
         Run(s, ClassAttributes(Top(s).enclosingClass) \o Tail(tasks))
    [] OTHER -> Run(Do(s, Head(tasks)), Tail(tasks))

\* The C code runs, after what the script has decided or the end of a function.
Become(r) == compiler' = r.compiler /\ todo' = r.todo
Compile ==
  /\ todo # <<>> /\ (compiler.last # None \/ Head(todo)[1] \notin ScriptChoices)
  /\ Become(Run([compiler EXCEPT !.last = None], todo))
  /\ UNCHANGED <<grammar, budget>>

\* The next tokens of the script are a phrase of some kind.
Produce(kind, tasks) ==
  /\ kind \in DOMAIN grammar.cost
  /\ budget >= grammar.cost[kind]
  /\ budget' = budget - grammar.cost[kind]
  /\ todo' = tasks \o Tail(todo)
  /\ UNCHANGED <<compiler, grammar>>

AtTask(kind) == compiler.last = None /\ todo # <<>> /\ Head(todo)[1] = kind

(****************************************************************************)
(* Expressions: the functions of the rules table, each with the operands it *)
(* compiles. n is the number of temporaries under the expression.           *)
(****************************************************************************)
Body(parameters) == Parameters(parameters) \o <<FinishBlock(FALSE, 0), Do0("endBody"), Do0("end")>>
Closure(parameters) == << <<"begin", "function">> >> \o Body(parameters)

\* ifStatement, of a statement or of an expression.
If(expr, n, isElse) ==
  <<Expression(n), <<"jump", "JUMP_IF">>, Statement(expr, n), <<"branch", expr>> >>
  \o (IF isElse THEN << <<"jump", "JUMP">>, Do0("patchUnder"), Statement(expr, n), <<"branch", expr>>, Do0("patch")>>
      ELSE << Do0("patch"), Ret("none"), <<"branch", expr>> >>)
  \o <<Ret(IF expr THEN "value" ELSE "none")>>

\* What an expression task knows: how many temporaries are under it, and what
\* a name at its start does to dotSource.
Under     == Head(todo)[2]
DotSource == IF Head(todo)[3] THEN << <<"dotSource", "id">> >> ELSE <<>>
\* The value on top of the stack is null or not; either way it stays.
NullTest  == <<Op("LOAD_ON"), Op("NULL"), Call(1), <<"jump", "OR">> >>

boolean == \E b \in {"TRUE", "FALSE"} : Produce(b, <<Op(b)>>)
void_   == \E b \in {"VOID", "NULL"} : Produce(b, <<Op(b)>>)
literal == Produce("literal", <<Constant>>)
name    == \E x \in Used : Produce("name", DotSource \o <<Load(x)>>)
bareName == \E x \in Used : Produce("assign", << <<"resolve", x>>, Expression(Under), Do0("store") >>)
this_   == Produce("this", << <<"dotSource", "this">>, Do0("this")>>)
super_  == \E k \in 0 .. MaxArguments :
             Produce("super", << Do0("this"), <<"dotSource", "super">> >> \o Arguments(k, Under) \o << <<"super", k>> >>)
infixOp == Produce("infix", <<Expression(Under), Expression(Under + 1), Call(1)>>)
unaryOp == Produce("unary", <<Expression(Under), Call(0)>>)
and_    == \E b \in {"AND", "OR"} :
             Produce("and", <<Expression(Under), <<"jump", b>>, Expression(Under), Do0("patch")>>)
\* `a ?? b`
conditional ==
  Produce("nullish", <<Expression(Under)>> \o NullTest \o <<Do0("pop"), Expression(Under), <<"jump", "JUMP">>,
                                                           Do0("patchUnder"), Do0("pop"), Do0("patch")>>)

\* After a dot: a field, a getter, a setter, a call with arguments and a block.
namedCall ==
  \E declared \in BOOLEAN, garbage \in BOOLEAN :
    \/ Produce("getter", <<Receiver(Under), <<"get", declared, garbage>> >>)
    \/ Produce("setter", <<Receiver(Under), <<"setTarget", declared, garbage>>, Expression(Under + 1), Do0("set")>>)
methodCall ==
  \E k \in 0 .. MaxArguments :
    \/ Produce("call", <<Receiver(Under)>> \o Arguments(k, Under) \o <<Call(k)>>)
    \/ \E l \in grammar.lists :
         Produce("call", <<Receiver(Under)>> \o Arguments(k, Under) \o Closure(l) \o <<Call(k + 1)>>)
\* `a?.b`
call == Produce("null check", <<Receiver(Under)>> \o NullTest
                              \o << <<"get", FALSE, FALSE>>, <<"jump", "JUMP">>, Do0("patchUnder"), Do0("pop"), Do0("patch")>>)
functionCall ==
  \E k \in 0 .. MaxArguments :
    \/ Produce("function call", <<Expression(Under)>> \o Arguments(k, Under) \o << <<"short", "CALL", 0, k>> >>)
    \/ \E l \in grammar.lists :
         Produce("function call", <<Expression(Under)>> \o Arguments(k, Under) \o Closure(l) \o << <<"short", "CALL", 0, k + 1>> >>)
subscript ==
  \E k \in 0 .. MaxArguments :
    \/ Produce("subscript", <<Expression(Under)>> \o Arguments(k, Under) \o <<Call(k)>>)
    \/ Produce("subscript", <<Expression(Under)>> \o Arguments(k, Under) \o <<Expression(Under + k + 1), Call(k + 1)>>)

list == \E k \in 0 .. MaxArguments :
          Produce("list", <<Core, Call(0)>> \o FlattenSeq([i \in 1 .. k |-> <<Expression(Under + 1), Call(1)>>]))
\* An entry, or another map that is spread into this one.
map  == \E element \in {<<Expression(Under + 1), Expression(Under + 2), Call(2)>>, <<Expression(Under + 1), Call(1)>>} :
          Produce("map", <<Core, Call(0)>> \o element)
stringInterpolation ==
  Produce("interpolation", <<Core, Call(0), Constant, Call(1), Expression(Under + 1), Call(1), Constant, Call(1), Call(0)>>)

ifExpression   == \E isElse \in BOOLEAN : Produce("if expression", If(TRUE, Under, isElse))
whenExpression == \E x \in Used \cup {"tumamin "} :
  Produce("when", << Do0("pushScope"), Expression(Under), <<"addLocal", x, Under, "soft">>, <<"when", x, Under, -1>> >>)

ExpressionStep ==
  /\ AtTask("expression")
  /\ \/ boolean \/ void_ \/ literal \/ name \/ bareName \/ this_ \/ super_ \/ infixOp \/ unaryOp \/ and_ \/ conditional
     \/ namedCall \/ methodCall \/ call \/ functionCall \/ subscript
     \/ list \/ map \/ stringInterpolation \/ ifExpression \/ whenExpression

(****************************************************************************)
(* Statements.                                                              *)
(****************************************************************************)
\* A block: as an expression its value goes to a hidden local, whose slot is
\* what is left when the scope ends.
Block(expr, n) ==
  IF expr THEN <<Do0("pushScope"), Op("NULL"), <<"addLocal", "tmpBlck ", n, "soft">>, Do0("pushScope"),
                 FinishBlock(TRUE, n), Do0("storeBlock"), Do0("popScope"), Do0("softPop"), Do0("blockValue")>>
  ELSE <<Do0("pushScope"), FinishBlock(FALSE, n), Do0("popScope"), Do0("unpopped")>>

\* forStatement, over a variable or a pattern.
For(pattern, step, n) ==
  <<Do0("pushScope"), Expression(n), Do0("loopCheck"), Hidden("seq ", n), Op("NULL"), Hidden("iter ", n)>>
  \o (CASE step = "none" -> <<Constant>>
        [] step = "up"   -> <<Expression(n)>>
        [] step = "down" -> <<Expression(n), Call(0)>>)
  \o <<Hidden("step ", n), Do0("startLoop"), Load("seq "), Load("iter "), Load("step "), Call(2),
       <<"resolve", "iter ">>, Do0("store"), Do0("testExit"), Load("seq "), Load("iter "), Call(1), Do0("pushScope")>>
  \o (IF pattern.type = "name" THEN <<Hidden(pattern.name, n)>>
      ELSE <<Hidden("tmpLd ", n)>> \o DeclarePattern(pattern, FALSE, n) \o <<Load("tmpLd ")>> \o Destructure(pattern))
  \o <<Do0("loopBody"), Statement(FALSE, n), Do0("popScope"), Do0("endLoop"), Do0("popScope"), Ret("none")>>

\* Whether the statement's value is used.
IsUsed == Head(todo)[2]
\* The temporaries under a statement or a definition.
Beneath == Head(todo)[3]

breakStatement    == Produce("break", <<Do0("break"), Ret("gone")>>)
continueStatement == Produce("break", <<Do0("continue"), Ret("gone")>>)
forStatement == \E p \in grammar.patterns, step \in {"none", "up", "down"} :
                  Produce(IF step = "none" THEN "for" ELSE "for step", For(p, step, Beneath))
ifStatement  == \E isElse \in BOOLEAN : Produce("if", If(IsUsed, Beneath, isElse))
returnStatement ==
  \/ Produce("return", <<Do0("result"), Op("RETURN"), Ret("gone")>>)
  \/ Produce("return", <<Do0("noInit"), Expression(Beneath), Op("RETURN"), Ret("gone")>>)
whileStatement ==
  Produce("while", <<Do0("startLoop"), Expression(Beneath), Do0("testExit"), Do0("loopBody"),
                     Statement(FALSE, Beneath), Do0("endLoop"), Ret("none")>>)
blockStatement == Produce("block", Block(IsUsed, Beneath))
expressionStatement ==
  Produce("expression", <<Expression(Beneath)>> \o (IF IsUsed THEN <<>> ELSE <<Op("POP")>>) \o <<Ret("value")>>)

StatementStep ==
  /\ AtTask("statement")
  /\ \/ breakStatement \/ continueStatement \/ forStatement \/ ifStatement \/ returnStatement \/ whileStatement
     \/ blockStatement \/ expressionStatement

\* finishBlock after the brace: nothing, one expression on the line, or
\* definitions on lines of their own.
BlockStep ==
  /\ AtTask("block")
  /\ LET expr == Head(todo)[2]
         n    == Head(todo)[3]
     IN \/ Produce("empty", <<Ret("none")>>)
        \/ Produce("line", <<Expression(n), Ret("value")>>)
        \/ Produce("lines", <<Definition(expr, n), <<"more", expr, n>> >>)
MoreStep ==
  /\ AtTask("more")
  /\ LET expr == Head(todo)[2]
         n    == Head(todo)[3]
     IN \/ Produce("empty", << <<"endItems", expr>> >>)
        \/ Produce("lines", << <<"popValue", expr>>, Definition(expr, n), <<"more", expr, n>> >>)

\* whenExpression after the discriminant x, a local: its branches, then the
\* `note` that is the last one. exits counts the jumps to the end.
WhenStep ==
  /\ AtTask("when")
  /\ LET x     == Head(todo)[2]
         n     == Head(todo)[3]
         exits == Head(todo)[4]
         Else  == IF exits = -1 THEN <<>> ELSE << <<"jump", "JUMP">>, Do0("patchUnder")>>
         Branch(test) == Else \o <<Load(x)>> \o test \o << <<"jump", "JUMP_IF">>, Statement(TRUE, n), <<"branch", TRUE>>,
                                                       <<"when", x, n, exits + 1>> >>
     IN \/ Produce("branch", Branch(<<Expression(n + 1), Call(1)>>))
        \/ exits >= 0 /\ Produce("empty", Else \o <<Statement(TRUE, n), <<"branch", TRUE>> >>
                                          \o [i \in 1 .. exits + 1 |-> Do0("patch")]
                                          \o << <<"resolve", x>>, Do0("store"), Do0("pop"), Do0("softPop")>>)

(****************************************************************************)
(* Definitions.                                                             *)
(****************************************************************************)
\* variableDefinition: the variable is not in scope in its initialiser.
Variable(x, value, n) == value \o << <<"declare", x, n>>, <<"define", x>> >>
PatternVariables(p, n) == DeclarePattern(p, FALSE, n) \o <<Expression(n)>> \o Destructure(p)

\* functionDefinition; the function is in scope in its own body.
Function(x, parameters, n) ==
  << <<"begin", "function">> >> \o Parameters(parameters) \o << <<"declareOuter", x, n>> >>
  \o <<FinishBlock(FALSE, 0), Do0("endBody"), Do0("end"), <<"define", x>> >>
\* `tii Class.name() {...}`
Extension(x, isStatic) ==
  << <<"begin", "extension">> >> \o Body(<<>>)
  \o <<Load(x), <<"short", IF isStatic THEN "METHOD_STATIC" ELSE "METHOD_INSTANCE", 0, 0>> >>

\* import: a module, and variables of it.
Import(names, n) ==
  << <<"short", "IMPORT_MODULE", 0, 0>>, Op("POP")>>
  \o FlattenSeq([i \in DOMAIN names |-> << <<"declare", names[i], n>>, <<"short", "IMPORT_VARIABLE", 0, 0>>,
                                           <<"define", names[i]>> >>])

\* classDefinition: name, superclass, CLASS, then the members in a scope of
\* their own.
Class(x, isExtern, superclass, hasBody, n) ==
  << <<"declare", x, n>>, <<"className", x>> >> \o superclass \o << <<"class", isExtern>>, <<"define", x>>, Do0("pushScope")>>
  \o (IF hasBody THEN << Do0("enterClass"), <<"members", isExtern, n>> >> ELSE <<Do0("dropTarget"), Do0("popScope")>>)

IsModule == Top(compiler).scopeDepth = -1

DefinitionStep ==
  /\ AtTask("definition")
  /\ LET expr == Head(todo)[2]
         n    == Head(todo)[3]
         Superclasses == {<<Core>>, <<Expression(IF IsModule THEN n + 1 ELSE n)>>}
         Done(tasks) == <<Do0("disallow")>> \o tasks \o <<Ret("none")>>
     IN \/ \E isRuntime \in BOOLEAN : Produce("attribute", << <<"attribute", isRuntime>>, Definition(FALSE, n), Ret("none")>>)
        \/ \E x \in Used, isExtern \in BOOLEAN, superclass \in Superclasses, hasBody \in BOOLEAN :
             Produce(IF hasBody THEN "class" ELSE "empty class", Class(x, isExtern, superclass, hasBody, n) \o <<Ret("none")>>)
        \/ \E names \in {<<>>} \cup {<<x>> : x \in Used} : Produce("import", Done(Import(names, n)))
        \/ \E x \in Used, value \in {<<Expression(n)>>, <<Op("NULL")>>} : Produce("var", Done(Variable(x, value, n)))
        \/ \E p \in {p \in grammar.patterns : p.type # "name"} : Produce("pattern", Done(PatternVariables(p, n)))
        \/ \E x \in Used, l \in grammar.lists : Produce("function", Done(Function(x, l, n)))
        \/ \E x \in Used, isStatic \in BOOLEAN : Produce("extension", Done(Extension(x, isStatic)))
        \/ Produce("statement", << Do0("disallow"), Statement(expr, n)>>)

\* field, with the getter and the setter a public field gets.
BindTo(isStatic) == <<Do0("loadClass"), <<"short", IF isStatic THEN "METHOD_STATIC" ELSE "METHOD_INSTANCE", 0, 0>> >>
Accessors(isStatic) ==
  << <<"begin", "method">>, Do0("anonymous"), Do0("argument"), <<"byteArg", "STORE_FIELD_THIS", 0>>, Op("NULL"),
     Op("RETURN"), Do0("end")>> \o BindTo(isStatic)
  \o << <<"begin", "method">>, <<"byteArg", "LOAD_FIELD_THIS", 0>>, Op("RETURN"), Do0("end")>> \o BindTo(isStatic)
Field(value, isPublic) ==
  value \o <<Do0("newField"), Do0("loadClass"), <<"byteArg", "FIELD", 0>> >> \o (IF isPublic THEN Accessors(FALSE) ELSE <<>>)

\* staticField: a local of the class's scope, and the value of the declaration.
StaticField(x, value, isPublic, n) ==
  << <<"declareStatic", x, n>> >> \o (IF value = <<>> THEN <<Load(x)>> ELSE << <<"resolve", x>> >> \o value \o <<Do0("store")>>)
  \o <<Do0("leak")>> \o (IF isPublic THEN Accessors(TRUE) ELSE <<>>)

\* method; a constructor also gets a method of the metaclass that makes the
\* instance and calls it.
Method(parameters, isStatic) ==
  << <<"begin", "method">> >> \o Parameters(parameters) \o <<Do0("methodAttributes"), FinishBlock(FALSE, 0), Do0("endBody"), Do0("end")>>
  \o BindTo(isStatic)
ExternMethod(parameters, isStatic) ==
  << <<"begin", "method">> >> \o Parameters(parameters) \o <<Do0("methodAttributes"), Do0("abandon"), Constant>> \o BindTo(isStatic)
Constructor(parameters, isExtern) ==
  << <<"begin", "initializer">> >> \o Parameters(parameters) \o <<Do0("methodAttributes"), FinishBlock(FALSE, 0), Do0("endBody"), Do0("end")>>
  \o BindTo(FALSE)
  \o << <<"begin", "method">> >> \o [i \in DOMAIN parameters |-> Do0("newArgument")]
  \o << Op(IF isExtern THEN "EXTERN_CONSTRUCT" ELSE "CONSTRUCT"), Do0("forward"), Op("RETURN"), Do0("end")>>
  \o BindTo(TRUE)

MemberStep ==
  /\ AtTask("members")
  /\ LET isExtern == Head(todo)[2]
         n        == Head(todo)[3]
         Again(tasks) == tasks \o << <<"members", isExtern, n>> >>
     IN \/ \E isRuntime \in BOOLEAN : Produce("attribute", Again(<< <<"attribute", isRuntime>> >>))
        \/ \E value \in {<<Expression(n)>>, <<Op("NULL")>>}, isPublic \in BOOLEAN :
             ~isExtern /\ Produce("field", Again(Field(value, isPublic)))
        \/ \E x \in Used, value \in {<<Expression(n)>>, <<>>}, isPublic \in BOOLEAN :
             Produce("static field", Again(StaticField(x, value, isPublic, n)))
        \/ \E l \in grammar.lists, isStatic \in BOOLEAN :
             \/ Produce("method", Again(Method(l, isStatic)))
             \/ Produce("extern method", Again(ExternMethod(l, isStatic)))
        \/ \E l \in grammar.lists : Produce("constructor", Again(Constructor(l, isExtern)))
        \/ Produce("empty", <<Do0("attributes"), Do0("leaveClass"), Do0("popScope")>>)

(****************************************************************************)
(* MSCCompile: definitions to the end of the source, or one expression.     *)
(****************************************************************************)
ProgramStep ==
  /\ AtTask("program")
  /\ \/ Produce("lines", <<Definition(FALSE, 0), <<"program">> >>)
     \/ Produce("empty", <<Op("END_MODULE"), Op("RETURN"), Do0("noUndefined"), Do0("end")>>)

Init ==
  /\ compiler = [fns |-> <<NewCompiler(FALSE, TRUE, 0)>>, module |-> [x \in Names |-> "none"], ret |-> "none",
                 env |-> <<<<>>>>, ids |-> 0, statics |-> {}, hits |-> {}, failed |-> FALSE, last |-> None]
  /\ grammar \in Grammars
  /\ budget = grammar.budget
  /\ todo \in { << <<"program">> >>, <<Expression(0), Op("RETURN"), Do0("noUndefined"), Do0("end")>> }

Next == \/ ExpressionStep \/ StatementStep \/ BlockStep \/ MoreStep \/ WhenStep
        \/ DefinitionStep \/ MemberStep \/ ProgramStep \/ Compile

Spec == Init /\ [][Next]_vars

\* The scripts that meet none of the known defects.
SafeNext == Next /\ compiler'.hits = {}
SafeSpec == Init /\ [][SafeNext]_vars

\* The scripts that may also declare a local on top of the operands of an
\* expression that is not over, as in `a.b(tumamin(c) { ... })`.
NestedSpec == Init /\ [][Next /\ compiler'.hits \subseteq {"temporaries"}]_vars

(****************************************************************************)
(* Properties. Each is about the functions of the script, as they end.      *)
(****************************************************************************)
Finished == compiler.last # None
Lacks(flaw) == Finished => flaw \notin WalkOf(compiler.last).flaws

\* Every path to an instruction brings a stack of the same height, with the
\* same variables in the same slots: the jumps of if, tumamin, and, or, the
\* null checks, loops, break and continue leave it balanced.
JoinsAgree == Lacks("join")

\* Every LOAD_LOCAL and STORE_LOCAL names the slot that holds the variable
\* the script means there, no instruction takes more than there is, and
\* LOAD_FIELD and STORE_FIELD, whose index is into the class around the code,
\* are used on `ale` only.
LocalsInPlace == Lacks("slot") /\ Lacks("field")

\* Every upvalue instruction, and every capture of a CLOSURE, reaches the
\* variable the script means, through any number of functions, and no name
\* that means a local or a static field is taken for a variable of the module.
\* Whether a method may close over a local around its class is left open (the
\* comment above findUpvalue and its code disagree): if it does, it must reach
\* that very local.
UpvaluesMatch == Lacks("upvalue")

\* "If it reaches a method boundary, this stops and returns -1 since methods
\* do not close over local variables": what a method of a class captures are
\* the static fields, which are locals of the scope of the class's body. The
\* test for the boundary is in comments, so that this is false of the code.
MethodsCloseOverNoLocals ==
  Finished /\ IsThis(compiler.last.receiver) /\ ~compiler.last.isExtension
    => \A u \in Range(compiler.last.upvalues) : u.id \in compiler.statics

\* A variable that a closure captures never ends with a plain POP.
CapturedAreClosed == Lacks("close")

\* Every jump lands on an instruction, and no placeholder of a break is left.
JumpsLand == Lacks("jump")

\* The stack never grows past what a call makes room for: the receiver, the
\* arguments and maxSlots.
StackFits ==
  Finished => WalkOf(compiler.last).high <= 1 + Len(compiler.last.params) + compiler.last.maxSlots
===============================================================================
