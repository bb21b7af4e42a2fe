------------------------------- MODULE Routines -------------------------------
(****************************************************************************)
(* The C code that works on the heap, as routines. What is kept of each C   *)
(* function is its allocations and its writes of pointers, in their order:  *)
(* a routine is a sequence of such steps over the C locals, and the         *)
(* routines of MVM.c, Value.c, Core.c and Compiler.c are put together as    *)
(* their calls are. Heap runs them.                                         *)
(*                                                                          *)
(* Numbers, null and the raw memory of buffers are left out: what matters   *)
(* of a buffer is that growing it allocates. A node is an object or one of  *)
(* the C structs that hold pointers to objects.                             *)
(****************************************************************************)
EXTENDS Integers, Sequences, FiniteSets, SequencesExt, TLC

CONSTANT DefaultsAreObjects  \* whether scripts give fields objects as defaults
ASSUME RoutinesAssumption == DefaultsAreObjects \in BOOLEAN

Kinds == {"class", "closure", "djuru", "extern", "fn", "instance", "list", "map", "module", "string", "upvalue"}

\* The objects of a virtual machine that runs a script: its modules, the class
\* Class, a djuru in a function with a nested one, and variables that hold a
\* value of each kind.
Boot == [modules |-> "map", core |-> "module", Class |-> "class", main |-> "djuru", script |-> "closure",
         code |-> "fn", nested_code |-> "fn", aClass |-> "class", aList |-> "list", aMap |-> "map", aString |-> "string",
         literal_string |-> "string", aClosure |-> "closure"]
BootPoints ==
  {<<"vm", "modules", "modules">>, <<"vm", "djuru", "main">>, <<"vm", "core", "Class">>,
   <<"modules", "entries", "core">>, <<"core", "variables", "aClass">>, <<"core", "variables", "aList">>,
   <<"core", "variables", "aMap">>, <<"core", "variables", "aString">>, <<"core", "variables", "aClosure">>,
   <<"main", "frames", "script">>, <<"script", "fn", "code">>, <<"code", "constants", "nested_code">>,
   <<"code", "constants", "literal_string">>, <<"aMap", "entries", "aString">>,
   <<"code", "module", "core">>, <<"nested_code", "module", "core">>,
   <<"aClass", "superclass", "Class">>, <<"aClosure", "fn", "nested_code">>}
Structs == {"vm", "parser", "compiler", "nested", "classInfo"}
Garbage == "garbage"   \* what is read from memory that was not initialised
Freed   == "freed"     \* a pointer to an object that was freed

\* Fault: fewer temporary roots than nested C functions push.
MSC_MAX_TEMP_ROOTS_few == 3
MSC_MAX_TEMP_ROOTS == 8

\* What the function that blackens an object of a type grays. The defaults of
\* a class's fields and the class of a foreign object are not among it, nor
\* are a function's module and the slot an open upvalue stands for.
Blackened(k) ==
  CASE k = "class" -> {"classObj", "superclass", "methods", "name", "attributes"}
    [] k = "closure" -> {"fn", "upvalues"}
    [] k = "fn" -> {"constants"}
    [] k = "djuru" -> {"frames", "openUpvalues", "caller", "error"}
    [] k = "instance" -> {"classObj", "fields"}
    [] k = "list" -> {"elements"}
    [] k = "map" -> {"entries"}
    [] k = "module" -> {"variables", "variableNames", "name"}
    [] k = "upvalue" -> {"closed"}
    [] OTHER -> {}

\* MSCMarkCompiler: the compilers from vm->compiler up through their parents,
\* given the pointers there are.
Compilers(pointers) ==
  LET inner == {p[3] : p \in {p \in pointers : p[1] = "vm" /\ p[2] = "compiler"}}
  IN inner \cup {p[3] : p \in {p \in pointers : p[1] \in inner /\ p[2] = "parent"}}

\* The pointers of structs that the collector starts from.
Followed(pointers) ==
  LET compilers == Compilers(pointers)
      infos     == {p[3] : p \in {p \in pointers : p[1] \in compilers /\ p[2] = "enclosingClass"}}
  IN ({"vm"} \X {"modules", "djuru", "handles", "methodNames"})
       \cup (compilers \X {"function", "attributes", "constants"})
       \cup (infos \X {"methodAttributes", "classAttributes", "fields"})
       \cup (IF compilers = {} THEN {} ELSE {"parser"} \X {"previous", "current", "next"})

(****************************************************************************)
(* Steps. `x` and `y` are C locals, structs or objects that are always      *)
(* there; `holds` are the pointers a new object is given or a write adds.   *)
(****************************************************************************)
Step(op, x, label, y) == [op |-> op, x |-> x, label |-> label, y |-> y, holds |-> {}, exposed |-> FALSE]
Plain(op, x) == Step(op, x, "", x)

Reallocate        == Plain("reallocate", "vm")                              \* memory that is no object
New(x, k, holds)  == [Step("new", x, k, x) EXCEPT !.holds = holds]          \* x = an object
Ensure(x, l, k)   == Step("ensure", x, l, k)                                \* if (!x->l) x->l = an object
Link(x, holds)    == [Plain("link", x) EXCEPT !.holds = holds]
Unlink(x, l, y)   == Step("unlink", x, l, y)
Set(x, l, y)      == Step("set", x, l, y)                                   \* x->l = y
Copy(x, l, y)     == Step("copy", x, l, y)                                  \* the pointers of y->l, to x->l
Slot(x, y)        == Step("slot", x, "", y)                                 \* x->stack[0] = y
Clear(x, l)       == Step("clear", x, l, x)
Forget(x)         == Plain("forget", x)                                     \* the end of a C struct's life
Load(y, x, l, k)  == [Step("load", x, l, y) EXCEPT !.holds = {k}]            \* y = x->l, or one of them
Find(y, x, l, k)  == [Load(y, x, l, k) EXCEPT !.op = "find"]                \* the same, or return if there is none
Root(x)           == Plain("root", x)
Unroot            == Plain("unroot", "vm")
Push(x)           == Plain("push", x)                                       \* on the stack of the djuru that runs
Drop              == Plain("drop", "vm")
Here              == "djuru now"                                            \* vm->djuru, as a node
Shift             == Plain("shift", "parser")                               \* nextToken's first two lines
Peek(x)           == Plain("peek", x)                                       \* x = the top of the stack

Allocating == {"reallocate", "new", "ensure"}
Peeks(code) == \E i \in DOMAIN code : code[i].op = "peek"

\* The locals that a step reads.
Reads(st) ==
  {h[2] : h \in IF st.op = "new" \/ st.op = "link" THEN st.holds ELSE {}}
    \cup (IF st.op \in {"new", "peek", "drop", "unroot", "shift", "forget"} THEN {} ELSE {st.x})
    \cup (IF st.op \in {"unlink", "set", "copy", "slot"} THEN {st.y} ELSE {})

\* Steps at whose allocations the collector would free something in use, or
\* read what is not initialised: the code's own faults, one by one below.
Exposed(steps) == [i \in DOMAIN steps |-> [steps[i] EXCEPT !.exposed = TRUE]]

(****************************************************************************)
(* Value.c and Helper.c.                                                    *)
(****************************************************************************)
MSCStringAllocate(r) == <<New(r, "string", {})>>
MSCMapFrom(r)        == <<New(r, "map", {})>>
MSCListFrom(r)       == <<Reallocate, New(r, "list", {})>>
MSCUpvalueFrom(r)    == <<New(r, "upvalue", {})>>
MSCClosureFrom(r, fn)  == <<New(r, "closure", {<<"fn", fn>>})>>
MSCFunctionFrom(r, holds) == <<Reallocate, New(r, "fn", holds)>>
MSCModuleFrom(r, name) == <<New(r, "module", {<<"name", name>>}), Root(r), Unroot>>
MSCSingleClass(r, name) == <<New(r, "class", {<<"name", name>>}), Root(r), Unroot>>
MSCExternFrom(r, class) == <<New(r, "extern", {<<"classObj", class>>})>>
MSCInstanceFrom(r, class) == <<New(r, "instance", {<<"classObj", class>>}), Copy(r, "fields", class)>>

\* The frames are assigned only after the stack's allocation, for which the
\* djuru is already on the list of objects.
MSCDjuruFrom(r, closure) ==
  <<Reallocate, New(r, "djuru", {<<"frames", Garbage>>}), Root(r)>> \o Exposed(<<Reallocate>>)
    \o <<Clear(r, "frames"), Link(r, {<<"frames", closure>>}), Slot(r, closure), Unroot>>

MSCListInsert(list, value) == <<Root(value), Reallocate, Unroot, Link(list, {<<"elements", value>>})>>
MSCListRemoveAt(r, list) == <<Load(r, list, "elements", "any"), Root(r), Unlink(list, "elements", r), Reallocate, Unroot>>
MSCMapSet(map, entry)  == <<Reallocate, Link(map, {<<"entries", e>> : e \in entry})>>
MSCMapRemove(r, map)   == <<Load(r, map, "entries", "any"), Unlink(map, "entries", r), Root(r), Reallocate, Unroot>>

MSCBindMethod(class, closure) == <<Reallocate, Link(class, {<<"methods", closure>>})>>
MSCBindField(class, defaults) == <<Reallocate, Link(class, {<<"fields", d>> : d \in defaults})>>
MSCBindSuperclass(class, superclass) ==
  <<Reallocate, Copy(class, "fields", superclass), Set(class, "superclass", superclass),
    Reallocate, Copy(class, "methods", superclass)>>
MSCClassFrom(r, parent, name) ==
  MSCStringAllocate("metaclassName") \o <<Root("metaclassName")>> \o MSCSingleClass("metaclass", "metaclassName")
    \o <<Set("metaclass", "classObj", "Class"), Unroot, Root("metaclass")>> \o MSCBindSuperclass("metaclass", "Class")
    \o MSCSingleClass(r, name) \o <<Root(r), Set(r, "classObj", "metaclass")>> \o MSCBindSuperclass(r, parent)
    \o <<Unroot, Unroot>>

MSCSymbolTableAdd(x, symbols) ==
  MSCStringAllocate("symbol") \o <<Root("symbol"), Reallocate, Link(x, {<<symbols, "symbol">>}), Unroot>>

(****************************************************************************)
(* Compiler.c: the parser's tokens, and the compilers of the script and of  *)
(* a function in it.                                                        *)
(****************************************************************************)
\* nextToken, and the string it may make for a name or a literal. Another
\* token leaves next's value as it is.
Lex == <<Shift>>
LexString == <<Shift, Reallocate>> \o MSCStringAllocate("token") \o <<Set("parser", "next", "token")>>

initCompiler(c, parents) ==
  <<Set("vm", "compiler", c), Link(c, parents)>> \o MSCMapFrom("map") \o <<Set(c, "attributes", "map")>>
    \o MSCFunctionFrom("function", {<<"module", "module">>}) \o <<Set(c, "function", "function")>>

addConstant(c, constant) ==
  <<Load("fn", c, "function", "fn"), Root(constant), Reallocate, Link("fn", {<<"constants", constant>>}), Unroot,
    Ensure(c, "constants", "map"), Load("constants", c, "constants", "map")>> \o MSCMapSet("constants", {constant})

\* A string literal: it is a constant once it is the previous token.
StringLiteral(c) == Lex \o Lex \o <<Load("literal", "parser", "previous", "string")>> \o addConstant(c, "literal")

endCompiler(c, parent) ==
  <<Reallocate, Load("compiled", c, "function", "fn")>> \o addConstant(parent, "compiled")
    \o <<Reallocate, Set("vm", "compiler", parent), Forget(c)>>

FunctionLiteral == LexString \o initCompiler("nested", {<<"parent", "compiler">>}) \o StringLiteral("nested")
                     \o endCompiler("nested", "compiler")

\* The new map and list are no roots while the map they go to may grow.
addToAttributeGroup(group, key, value) ==
  <<Root(group), Root(key), Root(value), Load("attributes", "compiler", "attributes", "map")>>
    \o MSCMapFrom("groupMap") \o Exposed(MSCMapSet("attributes", {group, "groupMap"}))
    \o MSCListFrom("items") \o Exposed(MSCMapSet("groupMap", {key, "items"}))
    \o <<Reallocate, Link("items", {<<"elements", value>>}), Unroot, Unroot, Unroot>>

\* `@!group(key = value)`, with the next line's first token a name. The group
\* is out of the parser's three tokens when the value is lexed.
matchAttribute ==
  LexString \o Lex \o LexString \o <<Load("group", "parser", "previous", "string")>>
    \o Lex \o Exposed(LexString) \o <<Load("key", "parser", "previous", "string")>>
    \o Lex \o Lex \o <<Load("value", "parser", "previous", "string")>>
    \o addToAttributeGroup("group", "key", "value") \o LexString

copyAttributes(into) ==
  <<Load("attributes", "compiler", "attributes", "map"), Reallocate, Copy(into, "entries", "attributes"),
    Clear("attributes", "entries")>>

\* The key is no root while the class's map of methods may grow.
copyMethodAttributes ==
  MSCMapFrom("methodAttr") \o <<Root("methodAttr")>> \o copyAttributes("methodAttr")
    \o <<Ensure("classInfo", "methodAttributes", "map"), Load("methods", "classInfo", "methodAttributes", "map")>>
    \o MSCStringAllocate("signature") \o Exposed(MSCMapSet("methods", {"signature", "methodAttr"})) \o <<Unroot>>

method == LexString \o initCompiler("nested", {<<"parent", "compiler">>}) \o copyMethodAttributes
            \o MSCSymbolTableAdd("vm", "methodNames") \o StringLiteral("nested") \o endCompiler("nested", "compiler")

\* A class, after attributes and with attributes before its method. The map
\* for the class's attributes is in classInfo, which the compiler does not
\* hold yet.
ClassBody == LexString \o matchAttribute \o method
classDefinition ==
  matchAttribute \o MSCSymbolTableAdd("module", "variableNames") \o <<Reallocate>>
    \o MSCStringAllocate("className") \o addConstant("compiler", "className") \o LexString
    \o <<Set("classInfo", "name", "className")>>
    \o MSCMapFrom("into") \o <<Set("classInfo", "classAttributes", "into")>> \o Exposed(copyAttributes("into"))
    \o <<Set("compiler", "enclosingClass", "classInfo")>> \o ClassBody
    \o <<Load("entries", "classInfo", "classAttributes", "map"), Load("entry", "entries", "entries", "string")>>
    \o addConstant("compiler", "entry") \o <<Clear("compiler", "enclosingClass"), Forget("classInfo")>>

\* A class after an error: addConstant keeps nothing, so that nothing but
\* classInfo holds the class's name.
classAfterError ==
  MSCStringAllocate("className") \o <<Set("classInfo", "name", "className"), Set("compiler", "enclosingClass", "classInfo")>>
    \o Exposed(LexString) \o <<Clear("compiler", "enclosingClass"), Forget("classInfo")>>

\* MSCCompile of a script. The parser's first token is made before the
\* compiler is the virtual machine's. A script with an error gives no function.
Compiled(body) == LexString \o Exposed(LexString) \o initCompiler("compiler", {}) \o body
MSCCompile(r, body) ==
  Compiled(body)
    \o <<Reallocate, Load(r, "compiler", "function", "fn"), Clear("vm", "compiler"), Forget("compiler"), Forget("parser")>>
MSCCompile_fails(body) == Compiled(body) \o <<Clear("vm", "compiler"), Forget("compiler"), Forget("parser")>>

(****************************************************************************)
(* MVM.c and the primitives of Core.c, as the script and the host run them. *)
(* A routine whose first step loads something can be run when it is there.  *)
(****************************************************************************)
LoadModuleVar(r, k) == <<Load(r, "core", "variables", k), Push(r)>>
StoreModuleVar      == <<Peek("value"), Link("core", {<<"variables", "value">>}), Drop>>
Overwrite(k)        == <<Load("value", "core", "variables", k), Unlink("core", "variables", "value")>>
Returns(steps, r)   == steps \o <<Push(r)>>

list_add    == LoadModuleVar("list", "list") \o LoadModuleVar("value", "any")
                 \o <<Reallocate, Link("list", {<<"elements", "value">>}), Drop>>
list_insert == LoadModuleVar("list", "list") \o LoadModuleVar("value", "any") \o MSCListInsert("list", "value") \o <<Drop, Drop>>
list_remove == <<Load("list", "core", "variables", "list"), Find("first", "list", "elements", "any"), Push("list")>>
                 \o MSCListRemoveAt("removed", "list") \o <<Drop, Push("removed")>>
map_put     == LoadModuleVar("map", "map") \o LoadModuleVar("value", "any") \o MSCMapSet("map", {"value"}) \o <<Drop, Drop>>
map_remove  == <<Load("map", "core", "variables", "map"), Find("first", "map", "entries", "any"), Push("map")>>
                 \o MSCMapRemove("removed", "map") \o <<Drop, Push("removed")>>
range_toString == MSCStringAllocate("from") \o <<Root("from")>> \o MSCStringAllocate("to") \o <<Root("to")>>
                    \o Returns(MSCStringAllocate("result") \o <<Unroot, Unroot>>, "result")

\* OP_CONSTRUCT, and the host's allocation of a foreign object (createExtern).
Construct(from) == <<Load("class", "core", "variables", "class"), Push("class")>> \o from
                           \o <<Drop, Push("instance")>>

setField == <<Load("instance", "core", "variables", "instance")>> \o LoadModuleVar("value", "any")
              \o <<Link("instance", {<<"fields", "value">>})>>

\* OP_CLASS. The superclass is off the stack when the class is made, which is
\* safe as long as something else holds it, here its variable. The name is.
createClass == LoadModuleVar("name", "string") \o LoadModuleVar("superclass", "class")
                 \o <<Drop>> \o MSCClassFrom("class", "superclass", "name") \o <<Drop, Push("class")>>
bindMethod  == LoadModuleVar("method", "closure") \o LoadModuleVar("class", "class")
                 \o MSCBindMethod("class", "method") \o <<Drop, Drop>>
\* OP_FIELD. The default is off the stack when the class is given it, and the
\* collector does not follow the class's pointer to it.
bindField   == LoadModuleVar("value", "list") \o LoadModuleVar("class", "class") \o <<Drop, Drop>>
                 \o MSCBindField("class", IF DefaultsAreObjects THEN {"value"} ELSE {})
endClass    == LoadModuleVar("class", "class") \o Returns(MSCMapFrom("attributes"), "attributes")
                 \o <<Link("class", {<<"attributes", "attributes">>}), Drop, Drop>>

\* OP_CLOSURE of a nested function with a captured variable.
captureUpvalue == MSCUpvalueFrom("upvalue") \o <<Link(Here, {<<"openUpvalues", "upvalue">>})>>
closureOfNested == <<Load("frame", Here, "frames", "closure"), Load("this fn", "frame", "fn", "fn"),
                     Find("function", "this fn", "constants", "fn")>>
                    \o Returns(MSCClosureFrom("closure", "function"), "closure") \o captureUpvalue
                    \o <<Link("closure", {<<"upvalues", "upvalue">>})>>
closeUpvalues  == <<Load("upvalue", Here, "openUpvalues", "upvalue"), Peek("value"), Link("upvalue", {<<"closed", "value">>}),
                    Unlink(Here, "openUpvalues", "upvalue"), Drop>>

djuru_new    == LoadModuleVar("fn", "closure") \o MSCDjuruFrom("djuru", "fn") \o <<Drop, Push("djuru")>>
djuru_call   == <<Load("djuru", "core", "variables", "djuru"), Load("caller", "vm", "djuru", "djuru"), Clear("djuru", "caller"),
                  Link("djuru", {<<"caller", "caller">>}), Set("vm", "djuru", "djuru")>>
djuru_return == <<Load("caller", Here, "caller", "djuru"), Clear(Here, "caller"), Clear(Here, "frames"), Set("vm", "djuru", "caller")>>

MSCMakeHandle(r)   == <<Root(r), Reallocate, Unroot, Link("vm", {<<"handles", r>>})>>
MSCReleaseHandle   == <<Load("value", "vm", "handles", "any"), Unlink("vm", "handles", "value")>>
MSCMakeCallHandle  == MSCSymbolTableAdd("vm", "methodNames") \o MSCFunctionFrom("fn", {}) \o MSCMakeHandle("fn")
                        \o MSCClosureFrom("closure", "fn")
                        \o <<Unlink("vm", "handles", "fn"), Link("vm", {<<"handles", "closure">>}), Reallocate>>

MSCDefineVariable(module, value) ==
  <<Root(value)>> \o MSCSymbolTableAdd(module, "variableNames") \o <<Reallocate, Link(module, {<<"variables", value>>}), Unroot>>

\* Fault: the module that the map of modules grows for is no root.
newModule_unrooted(name) ==
  MSCModuleFrom("module", name) \o MSCMapSet("modules", {"module", name})
    \o <<Load("variable", "core", "variables", "class")>> \o MSCDefineVariable("module", "variable")

\* compileInModule of a module that is not loaded: it is registered and given
\* one of the core module's variables, and its source is compiled.
newModule(name) ==
  MSCModuleFrom("module", name) \o <<Root("module")>> \o MSCMapSet("modules", {"module", name}) \o <<Unroot>>
    \o <<Load("variable", "core", "variables", "class")>> \o MSCDefineVariable("module", "variable")
compileInModule(r, name, body) ==
  newModule(name) \o MSCCompile("code of it", body) \o <<Root("code of it")>> \o MSCClosureFrom(r, "code of it") \o <<Unroot>>
compileInModule_fails(name, body) == newModule(name) \o MSCCompile_fails(body)

MSCInterpret(body) ==
  MSCStringAllocate("name") \o <<Root("name")>> \o compileInModule("closure", "name", body) \o <<Unroot>>
    \o <<Root("closure")>> \o MSCDjuruFrom("thread", "closure") \o <<Unroot, Set("vm", "djuru", "thread")>>

Aborts == MSCStringAllocate("message") \o <<Clear(Here, "error"), Link(Here, {<<"error", "message">>})>>

\* Fault: the name stays a root when there is no such module.
importModule_missing_rooted == MSCStringAllocate("name") \o <<Root("name")>> \o Aborts

\* OP_IMPORT_MODULE of a module that is not loaded; the host has resolved its
\* name to another string. There may be no such module, or it may not compile.
importModule(body)   == MSCStringAllocate("name") \o <<Root("name")>>
                          \o Returns(compileInModule("closure", "name", body) \o <<Unroot>>, "closure")
importModule_missing == MSCStringAllocate("name") \o <<Root("name")>> \o Aborts \o <<Unroot>>
importModule_uncompiled(body) == MSCStringAllocate("name") \o <<Root("name")>> \o compileInModule_fails("name", body)
                                   \o Aborts \o <<Unroot>>

Code ==
  [StoreModuleVar |-> StoreModuleVar, Overwrite_list |-> Overwrite("list"), Overwrite_string |-> Overwrite("string"),
   Overwrite_closure |-> Overwrite("closure"), Overwrite_djuru |-> Overwrite("djuru"), pop |-> <<Peek("value"), Drop>>,
   string_new |-> Returns(MSCStringAllocate("string"), "string"), map_new |-> Returns(MSCMapFrom("map"), "map"),
   list_new |-> Returns(MSCListFrom("list"), "list"), list_add |-> list_add, list_insert |-> list_insert,
   list_remove |-> list_remove, map_put |-> map_put, map_remove |-> map_remove, range_toString |-> range_toString,
   instance |-> Construct(MSCInstanceFrom("instance", "class")), extern |-> Construct(MSCExternFrom("instance", "class")), createClass |-> createClass,
   bindMethod |-> bindMethod, bindField |-> bindField, endClass |-> endClass, closure |-> closureOfNested, setField |-> setField,
   closeUpvalues |-> closeUpvalues, djuru_new |-> djuru_new, djuru_call |-> djuru_call, djuru_return |-> djuru_return,
   MSCMakeHandle |-> <<Peek("value")>> \o MSCMakeHandle("value"), MSCReleaseHandle |-> MSCReleaseHandle,
   MSCMakeCallHandle |-> MSCMakeCallHandle, interpret |-> MSCInterpret(StringLiteral("compiler")),
   interpret_class |-> MSCInterpret(classDefinition), interpret_error |-> MSCInterpret(classAfterError),
   import |-> importModule(FunctionLiteral), import_missing |-> importModule_missing,
   import_uncompiled |-> importModule_uncompiled(StringLiteral("compiler"))]
===============================================================================
