--------------------------------- MODULE Heap ---------------------------------
(****************************************************************************)
(* The heap and the C code that works on it. Any allocation may run the     *)
(* collector (MSCReallocate), so an object must be reachable by what the    *)
(* collector follows, or be a temporary root, at every allocation between   *)
(* its own and its last use. A routine of Routines runs step by step over   *)
(* the C locals (`reg`); the script and the host run any of them on any     *)
(* values (Call).                                                           *)
(****************************************************************************)
EXTENDS Routines

CONSTANTS Fresh,      \* objects that can be allocated
          MaxCalls    \* a bound on the routines run
ASSUME HeapAssumption ==
  /\ IsFiniteSet(Fresh) /\ MaxCalls \in Nat
  /\ Fresh \cap (DOMAIN Boot \cup Structs \cup {Garbage, Freed}) = {}

VARIABLES kind,              \* the type of each object, or "free"
          points,            \* the pointers: <<node, label, node>>
          stack,             \* the stack of each djuru
          tempRoots,         \* gc->tempRoots
          running, pc, reg,  \* the routine that runs, its next step, its C locals
          calls              \* how many routines have been run
heapVars    == <<kind, points, stack, tempRoots>>
programVars == <<running, pc, reg, calls>>
vars == <<heapVars, programVars>>

Object  == Fresh \cup DOMAIN Boot

live == {o \in Object : kind[o] # "free"}
Targets(n, label) == {e[3] : e \in {p \in points : p[1] = n /\ p[2] = label}}

\* What blackening some objects grays.
Traced(os) ==
  {p[3] : p \in {p \in points : p[1] \in os /\ p[2] \in Blackened(kind[p[1]])}}
    \cup UNION {Range(stack[o]) : o \in os}

roots == {p[3] : p \in {p \in points : <<p[1], p[2]>> \in Followed(points)}} \cup Range(tempRoots)

(****************************************************************************)
(* The machine: a step of the routine that runs, or a collection before it  *)
(* if the step allocates.                                                   *)
(****************************************************************************)
TheDjuru == CHOOSE d \in Targets("vm", "djuru") : TRUE
Node(x)  == IF x = Here THEN TheDjuru ELSE IF x \in DOMAIN reg THEN reg[x] ELSE x
Pointers(n, holds) == {<<n, h[1], Node(h[2])>> : h \in holds}
Without(n, l) == {p \in points : ~(p[1] = n /\ p[2] = l)}
step == Code[running][pc]
Found(s) == {o \in Targets(Node(s.x), s.label) : s.holds \cap {kind[o], "any"} # {}}

Init ==
  /\ kind = [o \in Object |-> IF o \in Fresh THEN "free" ELSE Boot[o]]
  /\ points = BootPoints
  /\ stack = [o \in Object |-> IF o = "main" THEN <<"script">> ELSE <<>>]
  /\ tempRoots = <<>>
  /\ running = "none" /\ pc = 0 /\ reg = <<>> /\ calls = 0

Call ==
  /\ running = "none" /\ calls < MaxCalls
  /\ calls' = calls + 1 /\ pc' = 1
  /\ \E name \in DOMAIN Code :
       /\ Code[name][1].op = "load" => Found(Code[name][1]) # {}
       /\ Peeks(Code[name]) => Len(stack[TheDjuru]) > 1
       /\ running' = name
  /\ UNCHANGED <<heapVars, reg>>

Return ==
  /\ running # "none" /\ pc > Len(Code[running])
  /\ running' = "none" /\ pc' = 0 /\ reg' = <<>>
  /\ UNCHANGED <<heapVars, calls>>

\* The routine's next step is an `op`.
Do(op) ==
  /\ running # "none" /\ pc <= Len(Code[running]) /\ step.op = op
  /\ pc' = pc + 1
  /\ UNCHANGED <<running, calls>>
Assign(x, o) == reg' = [y \in DOMAIN reg \cup {x} |-> IF y = x THEN o ELSE reg[y]]

DoReallocate == Do("reallocate") /\ UNCHANGED <<heapVars, reg>>
free == {o \in Fresh : kind[o] = "free"}
DoNew ==
  /\ Do("new") /\ free # {}
  /\ LET o == CHOOSE o \in free : TRUE
     IN /\ kind' = [kind EXCEPT ![o] = step.label]
        /\ points' = points \cup Pointers(o, step.holds)
        /\ Assign(step.x, o)
  /\ UNCHANGED <<stack, tempRoots>>
DoEnsure ==
  /\ Do("ensure")
  /\ \/ Targets(step.x, step.label) # {} /\ UNCHANGED <<kind, points>>
     \/ /\ Targets(step.x, step.label) = {} /\ free # {}
        /\ LET o == CHOOSE o \in free : TRUE
           IN kind' = [kind EXCEPT ![o] = step.y] /\ points' = points \cup {<<step.x, step.label, o>>}
  /\ UNCHANGED <<stack, tempRoots, reg>>

\* The steps that write pointers.
DoPoint ==
  /\ \E op \in {"link", "unlink", "set", "copy", "clear", "forget", "shift"} : Do(op)
  /\ LET n == Node(step.x) IN
     points' = CASE step.op = "link"   -> points \cup Pointers(n, step.holds)
                 [] step.op = "unlink" -> points \ {<<n, step.label, Node(step.y)>>}
                 [] step.op = "set"    -> Without(n, step.label) \cup {<<n, step.label, Node(step.y)>>}
                 [] step.op = "copy"   -> points \cup {<<n, step.label, o>> : o \in Targets(Node(step.y), step.label)}
                 [] step.op = "clear"  -> Without(n, step.label)
                 [] step.op = "forget" -> {p \in points : p[1] # step.x}
                 [] step.op = "shift"  -> {p \in points : p[1] # "parser" \/ p[2] = "next"}
                                            \cup {<<"parser", "previous", o>> : o \in Targets("parser", "current")}
                                            \cup {<<"parser", "current", o>> : o \in Targets("parser", "next")}
  /\ UNCHANGED <<kind, stack, tempRoots, reg>>

DoLoad == (Do("load") \/ Do("find")) /\ (\E o \in Found(step) : Assign(step.y, o)) /\ UNCHANGED heapVars
FindsNone ==
  /\ running # "none" /\ pc <= Len(Code[running]) /\ step.op = "find" /\ Found(step) = {}
  /\ pc' = Len(Code[running]) + 1
  /\ UNCHANGED <<heapVars, running, reg, calls>>

DoRoot   == Do("root") /\ tempRoots' = Append(tempRoots, Node(step.x)) /\ UNCHANGED <<kind, points, stack, reg>>
DoUnroot == Do("unroot") /\ tempRoots' = Front(tempRoots) /\ UNCHANGED <<kind, points, stack, reg>>

OnStack(d, values) == stack' = [stack EXCEPT ![d] = values] /\ UNCHANGED <<kind, points, tempRoots>>
DoPush == Do("push") /\ OnStack(TheDjuru, Append(stack[TheDjuru], Node(step.x))) /\ UNCHANGED reg
DoDrop == Do("drop") /\ OnStack(TheDjuru, Front(stack[TheDjuru])) /\ UNCHANGED reg
DoSlot == Do("slot") /\ OnStack(Node(step.x), <<Node(step.y)>>) /\ UNCHANGED reg
DoPeek == Do("peek") /\ Assign(step.x, Last(stack[TheDjuru])) /\ UNCHANGED heapVars

\* What a collection marks.
Nodes == Object \cup Structs \cup {Garbage, Freed}
Reached(os) ==
  LET reached[marked \in SUBSET Nodes] == LET more == marked \cup Traced(marked \cap Object)
                                          IN IF more = marked THEN marked ELSE reached[more]
  IN reached[os]

\* A collection in the allocation of the next step. A pointer to what is
\* freed stays where it is (Freed).
MSCGCCollect(kept) ==
  LET After(o) == IF o \in Object \ kept THEN Freed ELSE o IN
  /\ kind'      = [o \in Object |-> IF o \in kept THEN kind[o] ELSE "free"]
  /\ points'    = {<<p[1], p[2], After(p[3])>> : p \in {p \in points : p[1] \in Structs \cup kept}}
  /\ stack'     = [o \in Object |-> IF o \in kept THEN [i \in DOMAIN stack[o] |-> After(stack[o][i])] ELSE <<>>]
  /\ tempRoots' = [i \in DOMAIN tempRoots |-> After(tempRoots[i])]
  /\ reg'       = [x \in DOMAIN reg |-> After(reg[x])]

Allocates == running # "none" /\ pc <= Len(Code[running]) /\ step.op \in Allocating
Collect == Allocates /\ MSCGCCollect(Reached(roots)) /\ UNCHANGED <<running, pc, calls>>

Finished == running = "none" /\ calls = MaxCalls /\ UNCHANGED vars

RunStep == \/ DoReallocate \/ DoNew \/ DoEnsure \/ DoPoint \/ DoLoad \/ FindsNone \/ DoRoot \/ DoUnroot
           \/ DoPush \/ DoDrop \/ DoSlot \/ DoPeek
Next == Call \/ RunStep \/ Return \/ Collect \/ Finished
Spec == Init /\ [][Next]_vars

\* Every allocation collects, as in a build with MSC_DEBUG_TRACE_GC, but for
\* the exposed ones, of which none does. Collecting less often frees nothing
\* more: what a collection would free stays out of reach until it is freed.
CollectsFirst == Allocates /\ ~step.exposed => live \subseteq Reached(roots)
SafeNext == \/ Call \/ Return \/ Finished
            \/ RunStep /\ CollectsFirst
            \/ Collect /\ ~CollectsFirst
SafeSpec == Init /\ [][SafeNext]_vars

(****************************************************************************)
(* Properties.                                                              *)
(****************************************************************************)
\* Objects have types, and no C function has written a pointer into an object
\* that was freed: pointers start at one that is allocated, or in a C struct.
TypeOK ==
  /\ \A o \in Object : kind[o] \in Kinds \cup {"free"}
  /\ {p[1] : p \in points} \subseteq live \cup Structs
  /\ \A o \in Object : stack[o] # <<>> => kind[o] = "djuru"
  /\ running \in DOMAIN Code \cup {"none"} /\ calls \in 0..MaxCalls
  /\ tempRoots \in Seq(Object)

\* The C locals that the next step reads.
Read == IF running = "none" \/ pc > Len(Code[running]) THEN {} ELSE Reads(step)

\* No pointer to a freed object is left, whether or not the collector follows
\* it, and no C function uses one that it kept in a local variable.
NothingDangles ==
  /\ \A p \in points : p[3] # Freed
  /\ \A o \in Object : Freed \notin Range(stack[o])
  /\ Freed \notin Range(tempRoots)
  /\ \A x \in Read : Node(x) # Freed

\* A C function pops the roots it pushed, on each of its ways out.
RootsBalanced == running = "none" => tempRoots = <<>>

\* No nesting of C functions, that of the compiler's included, pushes more
\* temporary roots than the array holds ("Too many temporary roots.").
RootsHaveRoom == Len(tempRoots) <= MSC_MAX_TEMP_ROOTS

\* A collection meets nothing that is not initialised: the arrays of a djuru
\* are allocated before it is, "in case it triggers a GC" (MSCDjuruFrom). Not
\* so its stack, so that this does not hold at the exposed step there.
NothingUninitialised == Allocates => \A p \in points : p[3] # Garbage

\* The same at every allocation but the exposed ones.
MarksInitialised == Allocates /\ ~step.exposed => \A p \in points : p[3] # Garbage
===============================================================================
