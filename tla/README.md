# A TLA+ verification of the Mosc virtual machine

Mosc is a small class-based scripting language; this repository is its compiler
and bytecode virtual machine, embedded in a C program through `src/src/api/msc.h`.
The project beside this file models the machine's own logic in TLA+, checks it
with TLC on small instances, and proves the central invariants with TLAPS for
every value of the constants. Paths are relative to the directory that holds
`src/`; `map` in `PROJECT.json` gives the lines behind each definition.

## Inventory

The machine is one thread. What runs in parallel runs as coroutines, and what is
hard about it is not preemption but *re-entry*: C code holds a pointer, a slot
index or a caller while a script, a callback of the host or a collection changes
what it stands for. The compiler is one pass that computes, while it reads, where
everything will be when the code runs.

| Component | State | Operations | What makes it correct | Module |
|---|---|---|---|---|
| Djurus (coroutines): `builtin/Core.c`, `runtime/MVM.c` | `vm->djuru`; per djuru frames, caller, state, error, stack | `new call try yield suspend transfer transferError`, call and return, `runtimeError`, the host's `MSCInterpret`, `MSCCall` | callers form chains; a return or an error resumes something that can run; the host gets the result of what it called | `Djuru` |
| Map (`wala`): `memory/Value.c`, `builtin/Core.c` | `entries`, `capacity`, `count` | `[k]=v`, `[k]`, `containsKey`, `bo`, `diosi`, spread, iteration | it is a finite function; every search ends; a loop sees each entry once | `HashMap` |
| Locals, frames, upvalues: `runtime/MVM.c`, `MVM.h`, `memory/Value.c` | stack, frames, open upvalues, the interpreter's registers | load/store, closure creation, return, stack growth | a closure sees the variable it captured, however often the stack moves and in whichever order scopes end | `Closures` |
| Compiler: `compiler/Compiler.c` | scopes, locals, upvalues, loops, code | one pass over the tokens | local index = run-time stack slot; captures find their variable; jumps land where they should | `Compiler`, `Bytecode` |
| Parser: `compiler/Parser.c` | position, tokens, interpolation nesting | next token | a string with interpolations is one expression | `Parser`, `StringNesting` |
| Collector: `memory/GC.c`, `Value.c` | object list, marks, gray stack | mark, sweep | frees what cannot be reached, and only that | `GC` |
| Allocation: `Value.c`, `MVM.c`, `Compiler.c`, `Core.c` | pointers between objects, temporary roots, handles | everything that allocates, which may collect | nothing in use is unreachable at an allocation; roots nest | `Heap` |
| Modules: `MVM.c` | `vm->modules`, `vm->lastModule`, variables | import, define, declare | a module runs once; every import sees complete variables of the module it names | `Modules` |
| Embedding API: `MVM.c`, `api/msc.h` | `apiStack`, handles | slots, handles, calls | slots survive whatever the call does | in `Djuru`, `Closures`, `Heap` |
| Lists and buffers: `Value.c`, `Core.c`, `Helper.h` | `data`, `count`, `capacity` | add, insert, remove, iterate | index and capacity agree; loops end | what they allocate: `Heap` |
| Classes: `Value.c`, `MVM.c` | method tables, field tables, superclass | class, method and field instructions, lookup | an inherited method finds its own fields | what they allocate: `Heap`; compiling them: `Compiler` |
| Numbers, ranges, strings | none | pure functions | bounds | |
| Core library: `core.msc` | lazy sequences' fields | iterate, iteratorValue | a sequence gives what its definition says | |
| Fan, Kunfe, debugger | none of interest | reflection, random numbers, printing | | |

How they meet: the interpreter loop (`runInterpreter`) keeps the running djuru,
frame, instruction pointer and stack start in C locals and writes them back
(`STORE_FRAME`, `LOAD_FRAME`) around calls; primitives change `vm->djuru` and the
loop follows; every allocation may start the collector, which walks all of it; a
foreign method runs host code inside an instruction; the compiler calls the
allocator and the map while modules are half defined. The hard behaviours are
listed one by one, with their lines, under `hazards` in `PROJECT.json`, each with
the properties that are about it.

The modules meet by what each leaves to another. `Djuru` says which djuru may run
and abstracts stacks; `Closures` keeps stacks and lets any djuru run, and so does
`Modules`. `GC` shows that the collector keeps what its roots reach, over any
heap; `Heap` shows that at every allocation the roots reach what the C code goes
on to use. `Compiler` shows that a captured local ends with `OP_CLOSE_UPVALUE`
and that stack slots are where the code says; `Closures` starts from that.

## The modules

| # | Module(s) | Models | Abstract specification | Theorems |
|---|---|---|---|---|
| 1 | `Djuru`, `DjuruStack`, `DjuruRefinement`, `DjuruProofs` | coroutines and switches | a stack of coroutines | the chain of callers, every safety property of the run, the refinement |
| 2 | `HashMap`, `FiniteMap`, `HashMapRefinement`, `HashMapProofs` | the hash table, resizes, loops | a finite function | the table is sound at every turn of every loop, every safety property of the run, the refinement |
| 3 | `Closures`, `ClosuresProofs` | locals, frames, upvalues, moves of the stack | the history variables `bound` and `content` | closures see their variables, and the invariant behind it |
| 4 | `Compiler`, `Bytecode` | scopes, slots, upvalues, jumps, every statement and definition | the script's own environment, `env` | |
| 5 | `Parser`, `StringNesting`, `ParserProofs` | the lexer | strings in code in strings, by recursion | every property of the run |
| 6 | `GC`, `GCProofs` | marking and sweeping | `Reachable` | the collector is safe and complete |
| 7 | `Heap`, `Routines`, `RoutinesCheck`, `HeapProofs` | the C code that allocates, as allocations and pointer writes | what is known before each step, `Known` | every property of the run, for any number of objects and calls |
| 8 | `Modules`, `ModulesProofs` | declarations, imports, the order in which bodies run | | all three properties of the run |

`MC<module>` holds what a module needs to be instantiated for TLC. A definition
called `<name>_<word>`, commented "Fault", is a mutated form of the one after it: the
plausible bug that the property named with it in `PROJECT.json` catches.

`Induction` holds what the proof modules need of induction over the numbers, up and
down, stated for a *set*, which the provers can instantiate, instead of an operator;
and that functions defined by recursion exist (`RecursionUp`, `RecursionDown`).

What is left, in order: proofs about `Compiler`, beginning with what does not rest on
recursive operators (the bookkeeping of scopes); the numbering of inherited
fields and extension methods (`Classes`); list loops; lazy sequences.

## Djuru: coroutines

`Djuru.tla` keeps one field of `struct Djuru` per variable: `caller`, `state`,
`aborted` (`error` is not null), `frames` (`numOfFrames`), `capacity` (`frameCapacity`) and
`ran` (whether the first frame's `ip` has moved, which `runDjuru` looks at). What switches do
to stacks is in `Closures`. The code doubles the array of
frames when it is full (`Grown`) and has no limit to it: `MaxFrames` is a bound on calls,
for TLC. `cur` is `vm->djuru`, `api` is
`vm->apiStack # NULL`, `entry` says which host function runs the interpreter.

| Action | Code |
|---|---|
| `MSCInterpret`, `MSCEnsureSlots`, `MSCCall` | the host between runs; `MSCCall` runs the djuru that holds the slots, which an earlier run may have left with a caller, a state and an error |
| `djuru_new`, `djuru_call`, `djuru_try`, `djuru_transfer`, `djuru_transferError`, `djuru_yield`, `djuru_suspend` | the primitives of `Core.c`; `Claim`, `MayClaim` and `SwitchTo` are the parts of `runDjuru` |
| `callFunction`, `ReturnToFrame`, `ReturnToHost`, `ReturnToCaller` | calls and `OP_RETURN` |
| `RuntimeFailure` | whatever sets an error on the running djuru |
| `UnwindCaller`, `CatchError`, `CatchWithoutCaller`, `UncaughtError` | one turn each of `runtimeError`'s loop; `walker` is its `current` |

`CallSpec` is all of it without transfers; `Spec` adds the three transfer
primitives. `FairSpec` assumes weak fairness of `runtimeError` only: it is a C loop
that nothing can suspend. Scripts are under no fairness.

`DjuruStack.tla` is the abstract specification: a stack of coroutines in which a
call pushes one that is not on the stack and not over, a yield or return pops, and
an error pops until it pops one that was tried. `DjuruRefinement.tla` reads this
stack off the `caller` fields.

| Run | Bounds | Shows |
|---|---|---|
| `call` (module `DjuruRefinement`) | 4 djurus, 2 frames, room for 1 at first, no transfers | no frame is pushed past the end of its array, which grows in time (`TypeOK`), the chain of callers is sound (`CallersWait`), no finished or aborted djuru runs (`NeverCrashes`, `NeverRunsAborted`), a tried djuru can give its error away (`TriedHasCaller`), the host gets its own result (`HostGetsOwnResult`), the inductive invariant `CallInv`, and the refinement `RunsAsAStack` |
| `transfer` | 3 djurus, 2 frames | with transfers the error walk ends, although callers can form cycles (`UnwindEnds`) |
| `transfer_finished` | 3 djurus | with transfers, a djuru without a caller that is not a root may call *itself*, and its return loads `frames[-1]` (`NeverCrashes` fails; `NeverRunsAborted` fails the same way, by a djuru that tries itself) |

Four djurus are enough for a chain of three and a fourth that interferes; nothing
names a particular djuru, and a call looks at two at a time. Two frames tell the
last return from the others, and with room for one at first the array grows when the second
is pushed. The number of host runs is not bounded.

**Proofs** (`DjuruProofs.tla`), for any set of djurus, any `INITIAL_CALL_FRAMES` and any `MaxFrames`:
`TypeCorrect` and `TriedCaller` for `Spec`; `ChainsStaySound`, `DeadNeverRuns`,
`WaitingCallers` and `HostResult` for `CallSpec`. None of the safety properties is
inductive. That a return resumes something alive (`NeverCrashes`) needs that a
caller is live (`LinkInv`), which needs that nobody but its callee can run it (the
callers are injective, and what runs is no one's caller), and that, because errors
go through `state`, a tried djuru has a caller and a chain ends in a root
(`ChainInv`). Between turns of `runtimeError` the djuru it stands at is aborted and
must still count as one of the chain: hence `Active`, next to `Live`, and
`Focused`, which is the walker while there is one. `SlotsInv` is what `MSCCall`
needs, and `FreshDjuru` what an allocation needs. The proof has one lemma per
action (`<action>Step`), each conjunct by conjunct.

`AbortedNeverRuns` (`CallSpec => []NeverRunsAborted`) follows from the same invariant.
`ImplementsStack` is the refinement, `CallSpec => RunsAsAStack`: the callers, from the
djuru at work on, form a sequence of different djurus that have frames, have run, and have no
error (`Chained`, `StackInv`), so that the mapping, a recursive function, has the
value one expects; then a call maps to a push, a yield or return to a pop, a turn of
the error walk to a pop or nothing, and every other action to a stutter.

Only checked: `UnwindEnds` (liveness).

## HashMap: maps

`HashMap.tla` keeps `entries`, `capacity` and `count` as in `struct Map`; an entry
with key `UNDEFINED_VAL` is an empty slot if its value is `FALSE_VAL` and a
tombstone if it is `TRUE_VAL`, as in the code. Keys stand for classes of equal
values, and `Hash` is any function from them. `findEntry` is a pure search, and is
modelled by what it finds: `Hit` (the walk from the key's hash comes to it),
`Target` (the first tombstone passed, or the empty slot) and `Stuck` (neither).

`MSCMapResize` is one action per turn of its loop (`StartResize`, `CopyEntry`,
`FinishResize`), since a collection can run inside its allocation; `MSCMapSet` is
`StartSet` and `insertEntries` around it; `MSCMapAddAll` of a map to itself is a
turn per slot, since every `MSCMapSet` can replace the array it walks. A spread of
another map is a sequence of `MSCMapSet`. Script loops (`StartLoop`,
`map_iterate`, `EndLoop`) interleave with any of these, as the body of the loop.
`seen`, `twice`, `changed` and `moved` are history variables.

| Run | Bounds | Shows |
|---|---|---|
| `map` | 3 keys of which some share hashes, smallest capacity 2 in place of 16, capacity at most 16, loops in both directions | `EveryEntryFound`, `CountIsExact`, `AlwaysRoom`, `NeverSparse`, the inductive `MapInv`, `LoopGivesEachOnce` for bodies that neither add or remove keys nor make the map move, `IsAFiniteMap` (refinement of `FiniteMap`) and `CallsReturn` |
| `loop_assign` | 4 keys | a body that only assigns to existing keys can make the map move (`EntriesAppearOnce` fails) |

Three keys fill, grow and shrink tables from capacity 2 on and collide with each
other and with tombstones. The smallest capacity is a constant of the model because
16 slots with so few keys would never meet the limits. `FairSpec` assumes that C code
which has started goes on (`Continue`).

**Proofs** (`HashMapProofs.tla`): `MapInvariant`, `EntriesFound`, `CountExact` and
`AlwaysRoomBelowTheWord`, under the named assumptions of the constants (finite keys,
hashes in `Nat`, `MinCapacity` at least 2) and `NoWrap`, which says that `MaxCapacity *
MAP_LOAD_PERCENT` fits the word; without it the property is false: `capacity * 90` wraps
in `uint32_t` from a capacity of 2^26 on. The induction needs, besides what is to be
shown: that every slot walked past to an entry is not empty (`Sound`, through `Hit`), for
both arrays while a resize copies; that the copied entries are those below `turn`
(`CopyInv`); and that room was made before the entry arrives (`LoadInv`). `NeverStuck` is
the pigeonhole step: fewer used slots than slots leaves one to insert into.
`InsertKeepsSound` and `RemoveKeepsSound` are about single writes.

`TypesHold`, `NeverSparseBelowTheWord` and `LoopsGiveEachOnce` add the other safety
properties of the run; for the last, that what a loop has `seen` are the keys of the
slots it has passed, for as long as the map has not moved. `ImplementsFiniteMap` is the refinement
`IsAFiniteMap`: only the write at the end of a set, a removal and a clear change which keys
have which values; every turn of a resize leaves them all, because those not yet
copied are still found in the old array.

Only checked: `CallsReturn` (liveness).

## Closures: locals, frames, upvalues

`Closures.tla` keeps the stacks with values in the slots of variables,
`frames` with `stackStart` and closure, `open` (`openUpvalues`, sorted from the
top), `upvalue` (`value` as a djuru and slot, or `Closed`; `closed`), the closures'
upvalues, and `start`, the register `stackStart` of `runInterpreter`, which is a
variable of its own because the code reloads it only at `LOAD_FRAME`. A pointer
into memory that was given back is `Freed`; the model stops where the C code has no
meaning. `name`, `bound` and `content` are history variables: which script variable
a slot and an upvalue stand for, and what was last stored in it.

| Action | Code |
|---|---|
| `PushTemporary`, `DeclareLocal`, `StoreLocal`, `EndScope` | pushes, locals, `OP_POP` and `OP_CLOSE_UPVALUE` |
| `MakeClosure`, `captureUpvalue`, `ShareUpvalue` | `OP_CLOSURE`, a turn of its loop at a time |
| `StoreUpvalue` | `OP_STORE_UPVALUE`, through the pointer |
| `callFunction`, `Return`, `callExtern` | with `moves`, whether `MSCEnsureStack` moved the stack |
| `MSCInterpret`, `djuru_new`, `SwitchTo`, `Stop`, `Finish`, `FinishInto` | what switches do to stacks; an aborted djuru is one that is left and never resumed |
| `Collect` | the sweep of a djuru nothing refers to |

`SafeSpec` has foreign methods that ask for no more slots than there are, and
collections of djurus without open upvalues; `Spec` has all of them, and the last
run below is of it.

| Run | Bounds | Shows |
|---|---|---|
| `closures` | 2 djurus, 4 slots, 2 frames, 2 closures of up to 2 upvalues, 2 variables | `ClosuresSeeVariables`, and `ClosureInv`: locals hold what was stored last (`LocalsKept`), a variable never has two upvalues (`OneUpvaluePerVariable`), the register is fresh (`RegisterFresh`) |
| `stack_collected` | 2 frames, `Spec` | a closure over a local of a djuru that stopped and was collected reads freed memory |

Two djurus are what it takes for a closure to run away from the stack it captured;
two closures are the least that can share or confuse an upvalue, and two upvalues
the least whose order in the list matters. A variable is never used again once its
scope has ended, so runs are bounded by `MaxVariables` declarations. With two frames
the stack moves under a waiting one; more frames, slots and captures are the proof's.

**Proofs** (`ClosuresProofs.tla`), for any bounds, any number of djurus, any values:
`ClosuresInvariant` (`SafeSpec => []ClosureInv`) and `VariablesSeen`
(`SafeSpec => []ClosuresSeeVariables`). That a closure sees its variables is not
inductive: an upvalue says nothing of which variable it is for. The invariant
needs:

- which variable an upvalue serves, as long as it is open and after (`BindInv`,
  through `Serves`), and that no slot is a second place of a variable (`NameInv`);
- that the open list goes strictly down the stack and holds *every* open upvalue
  (`OpenInv`): then the search of `captureUpvalue` finds the upvalue of a slot if
  there is one (`CaptureFinds`), and `closeUpvalues` closes all that it must and no other
  (`ClosesFromLast`), although both stop at the first upvalue that does not fit;
- that every frame has slots of its own from its start on (`FrameInv`), so what
  `Return` cuts off is what it closes, and the register is the running frame's
  (`RegisterFresh`);
- that where a resumed djuru's value is written no variable is (`WaitingInv`), and
  that a parameter's slot holds what its caller pushed (`TemporariesNull`);
- that an upvalue and a variable determine each other
  (`OneUpvaluePerVariable`), for the writes through one closure that others see.

The proof has a lemma for each way variables are disturbed (a push, a cut, a write to
a slot, a write to a closed upvalue, a new parameter, a capture), and one per action,
`<action>Keeps`, on top. `Spec`, with the two faults, is outside the theorem.

## Compiler: slots, captures, jumps

The grammar functions of `Compiler.c` call each other as they meet tokens. The C
stack of these calls is the variable `todo`, a sequence of tasks. `Run` carries out
the tasks that emit code or change `compiler`; the others ("expression", "statement",
"block", "definition", "members", ...) are what the next tokens decide, and each
action takes one and replaces it by the tasks of a grammar function. So a behaviour
is a script, chosen phrase by phrase as it is compiled; no token is modelled.
`budget` bounds it: a grammar gives each kind of phrase a cost.

| Action | Code |
|---|---|
| `ExpressionStep`, `WhenStep` | `expression` and the prefix and infix functions of its rules: literals, names, calls with and without function arguments, getters and setters, subscripts, `and`/`or`, null checks, assignment, `nii` and `tumamin` as expressions, functions, `ale`, `faa` |
| `StatementStep`, `BlockStep`, `MoreStep` | statements, blocks, loops over conditions and over iterators, `atike`, `ipan`, `segin` |
| `DefinitionStep`, `MemberStep` | variables, patterns, classes with fields, statics, methods, constructors and attributes, extensions, imports |
| `ProgramStep`, `Compile` | `MSCCompile`, and what follows the end of a function |

Every declaration gets a number. `env` is the environment the script means, kept
beside what the compiler keeps; each emitted cell carries the number of the variable
the script means there. `Bytecode!Walk` then follows a finished function the way
`runInterpreter` does, along every path of jumps, with a stack that says which
variable each slot holds. The properties compare the two:

| Property | Says |
|---|---|
| `LocalsInPlace` | a local's instruction names the slot its variable is in; the stack is never short; field instructions by bare index are used on `ale` only |
| `UpvaluesMatch` | a capture, through any number of functions, and every use of it reach the variable the script means, and no name of a local or a static field is taken for a variable of the module |
| `CapturedAreClosed` | a captured local never ends with a plain `OP_POP` |
| `JoinsAgree` | all paths to an instruction bring the same stack |
| `JumpsLand` | jumps land on instructions, and the placeholders of `atike` are all replaced |
| `StackFits` | the stack stays within `maxSlots`, which is what a call makes room for |

The run `compiler` takes every script within the budgets of nine grammars
(`MCCompiler`: operators, scopes, loops, patterns, functions, conditions of many
branches, breaks, captures, classes), two names and `MAX_LOCALS` 6. A grammar keeps
the phrases that can interact and gives them three to six steps; scripts of that size
nest each pair of constructs both ways. It holds for `SafeSpec`, which leaves out
the scripts that meet one of eight defects, each of which breaks a property; the
compiler marks them in `hits` where they happen:

| In `hits` | The defect |
|---|---|
| "temporaries" | a block or `tumamin` used as an expression declares a local while temporaries of the expression around it are on the stack: the local's index is below its slot |
| "no value" | a branch of a `nii` or `tumamin` expression ends in a statement that leaves no value |
| "unpopped" | the value a block's last item leaves, which nobody pops, inside a loop or a jump or beneath a local that is declared later |
| "break in condition" | a loop's condition contains an `atike` or `ipan`, before the loop's body is known |
| "softly closed" | a closure captures a local of a scope that `softPopScope` ends, which emits no close |
| "pattern parameter" | parameters after one that is a pattern are declared behind the variables of the pattern |
| "no ale" | `ale` is loaded where there is none |
| "stale dotSource" | `dotSource` was never set, or is left from an earlier dot, and a getter or setter of another object is compiled as a field of this one |

What a script means by a name is its innermost declaration around it. Of one thing the
source says two: the comment above `findUpvalue` has methods close over no local variables,
and the code, where the test for it is in comments, lets them. `UpvaluesMatch` takes no side.
A local around a method's class (`AroundMethod`) may be captured, and must then be the right
one all the way, or be taken for a variable of the module. Static fields, which are locals
of the class's scope (`statics`), must be found: the test, put back as it is written,
would lose them, because it excepts names that begin with `_`, which static fields no longer do
(`FindUpvalue_stops`, the property's mutant).

Left out: precedence climbing (an expression is a choice of forms), the table of
constants, signatures and their mangling, the text of errors, the limits of
constants, upvalues and jumps. Nothing is proved: the properties are about what a
recursive walk computes.

## Parser: tokens

`Parser.tla` is `nextToken` over a sequence of characters, a few of which stand for those
the code treats alike. Each disjunct of `NextToken` is a way a call goes. `parens` and
`interpolating` are `parser->parens` and the nesting of interpolations; `lexed`, a history
variable, collects the tokens. `StringNesting.tla` says what the tokens are by plain
recursion: code holds strings, strings hold code. The lexer recurses on nothing and must
agree.

The run `parser` lexes every text over seven alphabets (`MCParser`): nested strings,
escapes, numerals, comments, raw strings, operators, with up to two nested interpolations.
`TokensNest` is the agreement; `NestingSound` says that the stack of parentheses counts
what is open; `RawTextSurvives`, that the scan of a raw string, with its two remembered
positions, costs it no text but the two lines its quotes are on, when they are blank;
`LexingAdvances`, that each call gets further. The documentation keeps those lines too
(`values.md`: raw strings "are kept the way you write them"), the code cuts them, and
`RawTextSurvives` allows both; `TokensNest` takes a raw string's text as the code has it.
Seven pieces open and close two levels with braces inside.

`StaysInSource` is stated and in no run: an unfinished escape or raw string reads past
the terminating zero. The model stops where the code reads beyond its source.

**Proofs** (`ParserProofs.tla`), for every source (a C string: `SourcesAssumption`) and every
bound on nesting: `NestingHolds`, `AlwaysAdvances` and `RawTextSurvivesScan`. The invariant `IInv`
is small: the source is a text, the position a number, each open interpolation
counts at least one brace. What is hard is that lexing advances, since a call may
step back over characters several times; so the lemmas (`SkippedAdvances`,
`StringAdvances`, `EscapeAdvances`, `NumberAdvances`, ...) say of each part of a token where
it ends. These parts are recursive functions: that a function as described exists
is shown first, and their properties then by induction from the end of the source. For raw
strings, `ScanInv` says what the loop of `readRawString` remembers after each character;
at its end that is `Trimmed` (`RawIsTrimmed`, for every sequence of characters), and `CutInv`
carries this to every token. It includes `next`, which a lone `?` makes a token once more.

The second half of `ParserProofs.tla` proves `TokensNest`, the agreement with the recursive reference, in
three parts. First the reference: `Code`, `String` and `Program` are recursive functions
that read only further on, so they exist and have a type (`TokensIs`, `ProgramIs`).
Second, strings: what one call of `readString` makes is the first token of what
`String` gives there, and a string goes on after it (`PartMatches`). Third, the stack:
`Continues` says of `parens` what is left to be made, as a chain of stacks, each with one
brace less than the one before, down to the empty one, from which the program goes on;
opening a brace, closing it, and closing an interpolation each take the chain one link up or down
(`OpenStep`, `CloseStep`). The invariant `NestInv` is then that the tokens made
so far followed by what is left are `Program[1]`, as long as there was no error.

## GC and Heap: memory

`GC.tla` is `MSCGCCollect` step by step over any heap: `traced` is what each object's
blacken function grays, `isDark` and `gray` are the marks and the stack, `ahead` is
what the sweep has not come to. Between collections `Mutate` writes any pointers and
roots. The order in which gray objects are taken is left open. Fairness is weak fairness of
`Collect`: a collection runs to its end inside the allocation that started it.

The run `collector` has three objects, enough for a cycle and an object beside it:
`CollectorInv` (the tri-colour invariant, and for the sweep that what is kept holds
the roots and is closed), `ReachableKept`, `NothingElseKept` and `CollectionEnds`.
**Proofs** (`GCProofs.tla`), for any set of objects: `CollectorCorrect`,
`CollectionIsSafe` and `CollectionIsComplete`, from `CollectorInv`, which is
inductive, and `NothingElseKept` relative to it; the sweep frees objects and so
changes `Reachable`, which is why `SweepReachable` is needed. `CollectionEnds` is
only checked.

`Heap.tla` asks the other half: is what C code uses reachable, or rooted, at every
allocation? In `Routines.tla` a C function is a sequence of allocations, pointer reads and
writes over its local variables, and the functions are put together as their calls are: string,
list, map, closure, upvalue, djuru, class, method and field construction, symbol
tables, handles, `MSCInterpret`, imports, and the compiler's literals, functions and
attributes. `Heap` executes such steps on a heap (one action per kind of step), collects in
their allocations, and `Call` runs any of the routines, one after the other. A routine that
takes a value from the stack is only called with one above slot 0, as the compiler's
code does; without that guard the value would be the stack's bottom.

The run `heap` has three routines and 60 objects (none runs out) and checks
`NothingDangles` (no pointer to a freed object remains, followed or not, and no local
variable that is still read is one), `RootsBalanced`, on every way out of a routine
(`importModule` has three: loaded, no source, a source that does not compile), and
`RootsHaveRoom`, that the array of eight temporary roots is never too short. `SafeSpec`
collects in *every* allocation, which is what `MSC_DEBUG_TRACE_GC` builds do and the worst
case: collecting less often frees nothing more. Three routines make an object, change what
holds it, and allocate again. `SafeSpec` does not collect in the steps marked `Exposed`,
which are known to be unsafe: checked one by one, the first breaks `MarksInitialised` and
each of the others breaks `NothingDangles` as soon as it is not marked:

- `MSCDjuruFrom` roots a djuru whose arrays are not initialised and then allocates;
- the attribute map, and the list in it, are held by nothing while they grow, and the
  attributes of a class, a group or a method reach the compiler's state too late;
- the class's name after an error in its definition;
- the parser's first token, which is read before `vm->compiler` is set.

`Spec` collects in these too.

Some code is safe only as long as the script keeps a class in a variable, and the
routines keep it there: `OP_CLASS` pops the superclass and `OP_FIELD` the class before
their last use of it; nothing marks the class of a foreign object. The default value of
a field is not marked either (`MSCBlackenClass`). The constant `DefaultsAreObjects` says
whether scripts give fields objects as defaults; it is false in both runs.

**Proofs** (`HeapProofs.tla`), for any finite set `Fresh` and any `MaxCalls`, under
`HeapAssumption` (new objects are not those of `Boot`) and `DefaultsAreNoObjects` (fields'
defaults are numbers and the like): `NothingEverDangles`,
`RootsAlwaysBalanced`, `RootsAlwaysFit`, `HeapTypeCorrect` and `MarksAlwaysInitialised`, of
which no run checks the last two. The routines are data, 36 of them with 699 steps, and an invariant for each
would be unreadable. The argument has two halves instead.

`RoutinesCheck.tla` goes through each routine once, from its first step to its last,
and computes what is known before each step: values are *symbols* (the step that made
each), with what the C locals and the stack hold, the kinds of values, which pointers
there are for certain, which ones structs may hold, and the temporary roots.
`Held` is what a collection is then certain to keep. `Verified` says that each step's
demands (`Allows`) are met, and that what is known at each allocation that may collect is
held (`SafeToCollect`). It names no variable and neither `Fresh` nor `MaxCalls`: it is a
finite computation over the text of the routines. TLC does it at the start of the run
`collector`, whose module `MCGC` extends `RoutinesCheck` for this.

`HeapProofs.tla` proves that what is so computed is true, whatever the heap. `Fits(val, a)`
says that the state is as `a` knows it when symbols have the values `val`; `Healthy`
is what always holds of objects, stacks and pointers, among others that each pointer of an
object is one the collector follows or leads to what it comes to otherwise (`Guarded`).
There is one lemma per kind of step, from `NewStep` to `SetStep`: the
step keeps the heap healthy, and it fits what is known after it (`RunStepFits`). For a
collection, `Reached` is a recursive function over sets of nodes; `GrowingIsDefined`
and `GrowingEnds` show that there is one and that it ends at a closed set, by the
number of nodes that are not marked yet. `HeldIsKept` is then the heart of
it: what is held as far as is known is reached, in any heap that fits. So a
collection takes nothing that is known (`KnownIsKept`, `CollectFits`). Between routines
the heap is `Quiet`: no struct but `vm` holds anything and there are no temporary roots,
which is where `RoutinesCheck` starts (`StartFits`) and where it must end
(`RestIsQuiet`). The invariant `HeapInv` puts the three together.

## Modules: imports

`Modules.tla` keeps `modules` (`vm->modules`, for each variable whether it is absent, null,
the line number of an implicit declaration, a number or an object), `lastModule`, `cur`
and `frames`, the bodies each djuru is in. A source is a sequence of statements, those that declare
or read variables, import, switch djurus, fail or return.

| Action | Code |
|---|---|
| `MSCInterpret` | the host compiles a source into a module, new or not, and runs it |
| `importModule`, `AlreadyLoaded` | `OP_IMPORT_MODULE`: register, compile, push the body's frame; or the module is there; or there is no source, or it fails to compile |
| `IMPORT_VARIABLE`, `END_MODULE`, `RETURN`, `LOAD_MODULE_VAR`, `STORE_MODULE_VAR` | the instructions |
| `MSCCompile`, `MSCDefineVariable`, `MSCDeclareVariable` (operators) | the compiler's part: implicit declarations hold their line number until they are defined |
| `Switch`, `Failure` | what else a body does: run another djuru, fail |

The run `modules` has three modules that import each other in every way, two djurus,
two host runs, one variable, and every source of up to two statements:

| Property | Says | Except |
|---|---|---|
| `ImportsFromItsModule` | an import takes its variables from the module it names, whatever ran in between | a body that returns early skips `OP_END_MODULE` and leaves another module in `lastModule` |
| `CompleteWhenImported` | what it takes has been defined | bodies that returned early, failed, did not compile, or are still running (cyclic imports): each stays registered and counts as loaded |
| `NoLineNumbers` | a script never reads an implicit declaration's line number | a module that failed to compile keeps them |

Each exception is a history variable (`left`, `cut`, `broken`), and TLC finds the property
violated without it. The first is against what the compiler says of imports
(`LastModuleIsImported`). Of the others, modules that did not compile and cycles, the
repository promises nothing. Three modules are an importer, what it imports, and what that
imports.

**Proofs** (`ModulesProofs.tla`), for any modules, sources, values and djurus, and any
number of runs: `RightModule`, `FinishedModules` and `LinesNeverRead`, under
`ModulesAssumption` (a source is a sequence of statements). What `MSCCompile`
leaves in the variables is a recursive function over the statements
(`Compilation`); `ModulesProofs` shows what it does to each kind of value. The
invariant has a part for each link of the argument: a frame's code is the rest of a
body of a registered module (`BodiesInv`); a body that is about to take a variable
waits for the body of the module it names, right above it (`WaitingInv`); when it is on
top, it is the running djuru's and `lastModule` is that module, or that one returned
early (`TopInv`: this is what nothing may come between); what runs has a frame
(`CurInv`) and what `lastModule` names is registered (`LastInv`); a line number is only in
a module that did not compile (`LinesInv`), and a null only in variables that a body
still on its way will define (`NullsInv`).

## What is proved, checked, and not modelled

Thirty-seven theorems are listed in `PROJECT.json`: those of `DjuruProofs`, `HashMapProofs`,
`ClosuresProofs`, `ParserProofs`, `GCProofs`, `HeapProofs` and `ModulesProofs`, for
every value of the constants under the assumptions named in the modules. They state every
safety property of the passing runs on `Djuru`, `HashMap`, `Closures`, `Parser`, `Modules`,
`GC` and `Heap`, and both refinements.

Checked by TLC only, within the bounds above:

- liveness (`UnwindEnds`, `CallsReturn`, `CollectionEnds`), which the provers have no
  means for;
- everything about `Compiler`, whose properties are about what `Bytecode!Walk`, a
  recursive operator, makes of the code;
- `Verified`, which the theorems of `HeapProofs` assume: a statement about the routines
  alone, without a variable or a constant that has a bound, so that evaluating it is
  deciding it.

Not modelled: values, except where a property tells them apart; instructions that only
compute; floating point and strings' contents; the elements of lists and loops over them; the
numbering of inherited fields and `findExtensionMethod`; the lazy sequences of
`core.msc`; Fan, Kunfe, the debugger; the build. Each has its reason in
`PROJECT.json`. Interleaved threads do not occur: a virtual machine is used by one thread at
a time.

## What does not hold

Three disagreements between the code and its own documentation are `findings` in
`PROJECT.json`, each with a run of its own: `transfer_finished`, `loop_assign` and
`stack_collected`. The other defects that modelling brought up are not among the runs.
Each is stated as a property, the passing runs leave it out as said above, and a
configuration beside the module has TLC refute the property in seconds
(`MCHashMap_AlwaysRoom` in about a minute):

| Configuration | Refutes | What happens |
|---|---|---|
| `MCDjuru_SuspendedCanBeCalled` | `SuspendedCanBeCalled` | a djuru that suspends itself keeps its caller, or its state of a root, and every later call of it fails |
| `MCHashMap_AlwaysRoom` | `AlwaysRoom` | at the end of the word (2^8 and a capacity of 4 stand for 2^32 and 2^26) the doubling of the capacity wraps, and the map is copied into an array too small for it |
| `MCClosures_RegisterFresh` | `RegisterFresh` | after a foreign method that makes the stack move, the interpreter goes on with the start of the old one |
| `MCCompiler_MethodsCloseOverNoLocals` | `MethodsCloseOverNoLocals` | a method captures a local around its class, against the comment above `findUpvalue` |
| `MCCompiler_LocalsInPlace` (`NestedSpec`: "temporaries" may happen) | `LocalsInPlace` | a `tumamin` among a call's arguments loads another slot than its value's |
| `MCParser_RawStringsKept` | `RawStringsKept` | a raw string loses the blank lines of its quotes, against the documentation |
| `MCParser_TokensDiffer` | `TokensDiffer` | a lone `?` makes no token and no error, so that the token before it counts twice (`TokensNest` leaves such texts out by `TokenIsNew`) |
| `MCParser_LinesRight` | `LinesRight` | a newline directly after a hexadecimal, octal or binary number is counted twice |
| `MCHeap_NothingUninitialised` | `NothingUninitialised` | a collection in `MSCDjuruFrom` meets fields of the new djuru that are not set |
| `MCHeap_CompilerDangles` | `NothingDangles` | a collection at the second of the tokens that `MSCCompile` reads first frees the value of the first |
| `MCHeap_DefaultDangles` | `NothingDangles` | an object that is the default of a field and that only its class holds is freed |
| `MCModules_LastModuleIsImported` | `LastModuleIsImported` | after a body that left early, its importer takes the variables of another module, or of none |

One more is in no model, since `Djuru` has no stack slots: `djuru_yield1` drops the slot of its
argument only when there is a caller, so that a djuru that yields a value to the host and is
resumed has a slot too many (`Core.c:207`). What else is known is in the lists of the
modules above and among the hazards, at its line.
