------------------------------- MODULE Closures -------------------------------
(****************************************************************************)
(* Local variables, call frames and upvalues of the Mosc virtual machine:   *)
(* how closures capture the locals of the functions around them, how a      *)
(* captured local moves from the stack into its upvalue when its scope      *)
(* ends, and what happens to the pointers into a djuru's stack when the     *)
(* stack is moved to make room for a call, and when the djuru is collected. *)
(*                                                                          *)
(* Slots are numbered from 1. Temporaries all hold NULL_VAL: only variables *)
(* have values that matter. Which djuru runs is decided by Djuru; here any  *)
(* djuru that can run may be switched to. `name`, `content` and the `bound` *)
(* of closures are history variables: they say which variable of the script *)
(* a slot or an upvalue stands for, and what was last stored in it.         *)
(****************************************************************************)
EXTENDS Naturals, Sequences

CONSTANTS Djuru,         \* the djurus a run may allocate
          None,          \* the C NULL
          Value,         \* what a variable can hold
          NULL_VAL,      \* one of them
          Closed,        \* upvalue->value is &upvalue->closed
          Freed,         \* a pointer into memory that was given back
          MaxSlots,      \* bound on the slots of one stack
          MaxFrames,     \* bound on the call frames of one djuru
          MaxClosures,   \* bound on the closures of a run
          MaxCaptures,   \* bound on the upvalues of one closure
          MaxVariables   \* bound on the variables of a run

ASSUME ClosuresAssumption ==
  /\ None \notin Djuru
  /\ NULL_VAL \in Value
  /\ Closed # Freed /\ Closed \notin Nat /\ Freed \notin Nat
  /\ {MaxSlots, MaxFrames, MaxClosures, MaxCaptures, MaxVariables} \subseteq Nat

VARIABLES
  cur,      \* vm->djuru
  start,    \* stackStart, a register of runInterpreter
  memory,   \* for each djuru whether it is allocated, and freed again
  stack,    \* djuru->stack below stackTop
  name,     \* for each slot its variable, 0 for a temporary
  frames,   \* djuru->frames: stackStart and closure (0: one without upvalues)
  open,     \* djuru->openUpvalues, from the top of the stack down
  upvalue,  \* the upvalues allocated so far: value and closed
  closure,  \* the closures allocated so far: their upvalues
  left,     \* how many upvalues OP_CLOSURE has still to capture
  content   \* what the script last stored in each variable

vars == <<cur, start, memory, stack, name, frames, open, upvalue, closure,
          left, content>>

stackVars == <<memory, stack, name, frames>>
upvalueVars == <<open, upvalue, closure, left>>

Pointer == (Nat \ {0}) \union {Closed, Freed}

Init ==
  /\ cur = None
  /\ start = Freed
  /\ memory = [d \in Djuru |-> "none"]
  /\ stack = [d \in Djuru |-> <<>>]
  /\ name = [d \in Djuru |-> <<>>]
  /\ frames = [d \in Djuru |-> <<>>]
  /\ open = [d \in Djuru |-> <<>>]
  /\ upvalue = <<>>
  /\ closure = <<>>
  /\ left = 0
  /\ content = <<>>

------------------------------------------------------------------------------
(* Helpers.                                                                 *)

\* The interpreter is between two instructions of cur. Beyond a register that
\* points into freed memory the C code has no meaning, and the model stops.
Running == cur # None /\ left = 0 /\ start # Freed

Frame(d) == frames[d][Len(frames[d])]
TopSlot(d) == Len(stack[d])
RoomFor(n) == TopSlot(cur) + n <= MaxSlots

\* The top n slots are temporaries of the running function.
Temporaries(n) ==
  /\ TopSlot(cur) - n >= start
  /\ \A i \in 1 .. n : name[cur][TopSlot(cur) + 1 - i] = 0

\* A variable that begins to exist, with its first value.
NewVariable == Len(content) + 1
Declare(v) == Len(content) < MaxVariables /\ content' = Append(content, v)

OpenOf(d) == {open[d][i] : i \in DOMAIN open[d]}

\* How many upvalues of d's open list, from its head, are in `passed`.
Walk(d, passed) ==
  CHOOSE n \in 0 .. Len(open[d]) :
    /\ \A i \in 1 .. n : open[d][i] \in passed
    /\ n < Len(open[d]) => open[d][n + 1] \notin passed

\* Fault: only an upvalue of the slot `last` itself is closed.
Closing_one(d, last) == Walk(d, {u \in OpenOf(d) : upvalue[u].slot = last})

\* How many upvalues closeUpvalues closes: those of `last` and above.
Closing(d, last) == Walk(d, {u \in OpenOf(d) : upvalue[u].slot >= last})

\* closeUpvalues: the value moves into the upvalue, which leaves the list.
closeUpvalues(d, last) ==
  LET n == Closing(d, last) IN
  /\ open' = [open EXCEPT ![d] = SubSeq(@, n + 1, Len(@))]
  /\ upvalue' =
       [u \in DOMAIN upvalue |->
          IF \E i \in 1 .. n : open[d][i] = u
          THEN [upvalue[u] EXCEPT !.slot = Closed,
                                  !.closed = stack[d][upvalue[u].slot]]
          ELSE upvalue[u]]

\* Fault: pointers are left as they are.
Rebased_not(p) == Freed

\* What MSCEnsureStack makes of a pointer into the old stack: the same slot of
\* the new one.
Rebased(p) == p

\* The open upvalues of d after MSCEnsureStack has moved its stack or not.
MovedUpvalues(d, moves) ==
  [u \in DOMAIN upvalue |->
     IF moves /\ upvalue[u].slot # Closed /\ upvalue[u].djuru = d
     THEN [upvalue[u] EXCEPT !.slot = Rebased(@)]
     ELSE upvalue[u]]

\* The call frames of d after MSCEnsureStack.
MovedFrames(d, moves) ==
  [i \in DOMAIN frames[d] |->
     IF moves THEN [frames[d][i] EXCEPT !.start = Rebased(@)]
     ELSE frames[d][i]]

\* A djuru with its first frame, as MSCDjuruFrom makes it.
NewDjuru(d, fn) ==
  /\ memory[d] = "none"
  /\ memory' = [memory EXCEPT ![d] = "live"]
  /\ stack' = [stack EXCEPT ![d] = <<NULL_VAL>>]
  /\ name' = [name EXCEPT ![d] = <<0>>]
  /\ frames' = [frames EXCEPT ![d] = <<[start |-> 1, fn |-> fn]>>]

------------------------------------------------------------------------------
(* Locals and temporaries of the running function.                          *)

\* Instructions that push: constants and copies of variables.
PushTemporary ==
  /\ Running
  /\ RoomFor(1)
  /\ stack' = [stack EXCEPT ![cur] = Append(@, NULL_VAL)]
  /\ name' = [name EXCEPT ![cur] = Append(@, 0)]
  /\ UNCHANGED <<cur, start, memory, frames, upvalueVars, content>>

\* A value is pushed and stays as the slot of a new local variable.
DeclareLocal(v) ==
  /\ Running
  /\ RoomFor(1)
  /\ Declare(v)
  /\ stack' = [stack EXCEPT ![cur] = Append(@, v)]
  /\ name' = [name EXCEPT ![cur] = Append(@, NewVariable)]
  /\ UNCHANGED <<cur, start, memory, frames, upvalueVars>>

\* OP_STORE_LOCAL: the slot is counted from the register.
StoreLocal(slot, v) ==
  /\ Running
  /\ slot \in start .. TopSlot(cur)
  /\ name[cur][slot] # 0
  /\ stack' = [stack EXCEPT ![cur][slot] = v]
  /\ content' = [content EXCEPT ![name[cur][slot]] = v]
  /\ UNCHANGED <<cur, start, memory, name, frames, upvalueVars>>

\* OP_CLOSE_UPVALUE, which ends the scope of a captured local, and OP_POP,
\* which ends that of another one and drops temporaries: the code compiled for
\* a local that no function captures has nothing to close.
EndScope ==
  /\ Running
  /\ TopSlot(cur) > start
  /\ closeUpvalues(cur, TopSlot(cur))
  /\ stack' = [stack EXCEPT ![cur] = SubSeq(@, 1, TopSlot(cur) - 1)]
  /\ name' = [name EXCEPT ![cur] = SubSeq(@, 1, TopSlot(cur) - 1)]
  /\ UNCHANGED <<cur, start, memory, frames, closure, left, content>>

------------------------------------------------------------------------------
(* Closures.                                                                *)

\* OP_CLOSURE: the closure is pushed before it captures its upvalues.
MakeClosure(captures) ==
  /\ Running
  /\ RoomFor(1)
  /\ Len(closure) < MaxClosures
  /\ closure' = Append(closure, [upvalues |-> <<>>, bound |-> <<>>])
  /\ left' = captures
  /\ stack' = [stack EXCEPT ![cur] = Append(@, NULL_VAL)]
  /\ name' = [name EXCEPT ![cur] = Append(@, 0)]
  /\ UNCHANGED <<cur, start, memory, frames, open, upvalue, content>>

\* One turn of OP_CLOSURE's loop: the new closure gets upvalue u for variable x.
Bind(u, x) ==
  /\ left' = left - 1
  /\ closure' = [closure EXCEPT ![Len(closure)] =
                   [upvalues |-> Append(@.upvalues, u),
                    bound    |-> Append(@.bound, x)]]

\* Fault: a new upvalue is linked in at the head of the list.
InsertAt_head(d, slot) == 0

\* Behind how many open upvalues captureUpvalue's search stops.
InsertAt(d, slot) == Walk(d, {u \in OpenOf(d) : upvalue[u].slot > slot})

\* Fault: the upvalue behind the ones passed is taken without a look.
Existing_next(d, slot) ==
  LET n == InsertAt(d, slot) IN
  {u \in DOMAIN upvalue : n < Len(open[d]) /\ u = open[d][n + 1]}

\* The upvalue captureUpvalue finds for the slot, if there is one.
Existing(d, slot) ==
  LET n == InsertAt(d, slot) IN
  {u \in DOMAIN upvalue :
     n < Len(open[d]) /\ u = open[d][n + 1] /\ upvalue[u].slot = slot}

\* captureUpvalue links a new upvalue between the n first ones and the others.
NewUpvalue(d, slot) ==
  LET n == InsertAt(d, slot) IN
  /\ upvalue' = Append(upvalue, [djuru |-> d, slot |-> slot,
                                 closed |-> NULL_VAL])
  /\ open' = [open EXCEPT ![d] = SubSeq(@, 1, n) \o <<Len(upvalue) + 1>>
                                  \o SubSeq(@, n + 1, Len(@))]

\* A capture of a local of the function that runs. The slot is counted from
\* the frame's start, not from the register.
captureUpvalue(slot) ==
  /\ left > 0
  /\ slot \in Frame(cur).start .. TopSlot(cur)
  /\ name[cur][slot] # 0
  /\ \/ \E u \in Existing(cur, slot) :
          /\ Bind(u, name[cur][slot])
          /\ UNCHANGED <<open, upvalue>>
     \/ /\ Existing(cur, slot) = {}
        /\ NewUpvalue(cur, slot)
        /\ Bind(Len(upvalue) + 1, name[cur][slot])
  /\ UNCHANGED <<cur, start, stackVars, content>>

\* A capture of a variable that the function that runs has captured itself.
ShareUpvalue(j) ==
  /\ left > 0
  /\ Frame(cur).fn # 0
  /\ j \in DOMAIN closure[Frame(cur).fn].upvalues
  /\ Bind(closure[Frame(cur).fn].upvalues[j], closure[Frame(cur).fn].bound[j])
  /\ UNCHANGED <<cur, start, stackVars, open, upvalue, content>>

\* The memory an upvalue points to is there.
Valid(u) ==
  \/ upvalue[u].slot = Closed
  \/ /\ memory[upvalue[u].djuru] = "live"
     /\ upvalue[u].slot \in DOMAIN stack[upvalue[u].djuru]

\* OP_STORE_UPVALUE: through the pointer of the upvalue.
StoreUpvalue(j, v) ==
  /\ Running
  /\ Frame(cur).fn # 0
  /\ j \in DOMAIN closure[Frame(cur).fn].upvalues
  /\ LET u == closure[Frame(cur).fn].upvalues[j] IN
       /\ Valid(u)
       /\ \/ /\ upvalue[u].slot = Closed
             /\ upvalue' = [upvalue EXCEPT ![u].closed = v]
             /\ UNCHANGED stack
          \/ /\ upvalue[u].slot # Closed
             /\ stack' = [stack EXCEPT ![upvalue[u].djuru][upvalue[u].slot] = v]
             /\ UNCHANGED upvalue
  /\ content' = [content EXCEPT ![closure[Frame(cur).fn].bound[j]] = v]
  /\ UNCHANGED <<cur, start, memory, name, frames, open, closure, left>>

------------------------------------------------------------------------------
(* Calls and returns.                                                       *)

\* callFunction and LOAD_FRAME: a function with a receiver and, if hasParameter,
\* one parameter. To make room for it the stack may move.
callFunction(fn, hasParameter, moves) ==
  LET size == IF hasParameter THEN 2 ELSE 1
      base == TopSlot(cur) - size + 1 IN
  /\ Running
  /\ Len(frames[cur]) < MaxFrames
  /\ Temporaries(size)
  /\ IF hasParameter
     THEN /\ Declare(NULL_VAL)
          /\ name' = [name EXCEPT ![cur][TopSlot(cur)] = NewVariable]
     ELSE UNCHANGED <<content, name>>
  /\ frames' = [frames EXCEPT ![cur] =
                  Append(MovedFrames(cur, moves), [start |-> base, fn |-> fn])]
  /\ upvalue' = MovedUpvalues(cur, moves)
  /\ start' = base
  /\ UNCHANGED <<cur, memory, stack, open, closure, left>>

\* OP_RETURN to a function of the same djuru: the result takes the place of
\* the receiver, and LOAD_FRAME reads the start of the frame below.
Return ==
  /\ Running
  /\ Len(frames[cur]) > 1
  /\ Temporaries(1)
  /\ closeUpvalues(cur, start)
  /\ frames' = [frames EXCEPT ![cur] = SubSeq(@, 1, Len(@) - 1)]
  /\ stack' = [stack EXCEPT ![cur] =
                 [SubSeq(@, 1, Frame(cur).start) EXCEPT ![start] = NULL_VAL]]
  /\ name' = [name EXCEPT ![cur] =
                [SubSeq(@, 1, Frame(cur).start) EXCEPT ![start] = 0]]
  /\ start' = frames[cur][Len(frames[cur]) - 1].start
  /\ UNCHANGED <<cur, memory, closure, left, content>>

\* A foreign method that returns: its arguments, here the receiver alone, and
\* its temporaries become its result. It may have asked for slots
\* (MSCEnsureSlots), for which the stack may have moved; no LOAD_FRAME follows.
callExtern(moves) ==
  /\ Running
  /\ Temporaries(1)
  /\ frames' = [frames EXCEPT ![cur] = MovedFrames(cur, moves)]
  /\ upvalue' = MovedUpvalues(cur, moves)
  /\ start' = IF moves THEN Freed ELSE start
  /\ UNCHANGED <<cur, memory, stack, name, open, closure, left, content>>

------------------------------------------------------------------------------
(* Djurus.                                                                  *)

MSCInterpret(d) ==
  /\ cur = None
  /\ NewDjuru(d, 0)
  /\ cur' = d
  /\ start' = 1
  /\ UNCHANGED <<upvalueVars, content>>

\* Djuru.new(fn): the function is on the stack of the djuru that runs.
djuru_new(d, fn) ==
  /\ Running
  /\ Temporaries(1)
  /\ NewDjuru(d, fn)
  /\ UNCHANGED <<cur, start, upvalueVars, content>>

\* d goes on with a value for the call, yield or transfer it had left by, or
\* starts: its parameter, if it has one, is pushed.
Resume(d, hasParameter) ==
  /\ frames[d] # <<>>
  /\ cur' = d
  /\ start' = Frame(d).start
  /\ IF TopSlot(d) > 1
     THEN /\ ~hasParameter
          /\ stack' = [stack EXCEPT ![d][TopSlot(d)] = NULL_VAL]
          /\ UNCHANGED <<name, content>>
     ELSE IF hasParameter
     THEN /\ Declare(NULL_VAL)
          /\ stack' = [stack EXCEPT ![d] = Append(@, NULL_VAL)]
          /\ name' = [name EXCEPT ![d] = Append(@, NewVariable)]
     ELSE UNCHANGED <<stack, name, content>>

\* A call, yield or transfer to d, or an error that a `try` of d gets.
SwitchTo(d, hasParameter) ==
  /\ Running
  /\ d # cur
  /\ Temporaries(1)
  /\ Resume(d, hasParameter)
  /\ UNCHANGED <<memory, frames, upvalueVars>>

\* Djuru.suspend, a yield to the host, and an error nobody catches.
Stop ==
  /\ Running
  /\ Temporaries(1)
  /\ cur' = None
  /\ start' = Freed
  /\ UNCHANGED <<stackVars, upvalueVars, content>>

\* The last OP_RETURN of a djuru, and nobody waits for it. The slots of a
\* djuru that is over are not looked at again.
Finish ==
  /\ Running
  /\ Len(frames[cur]) = 1
  /\ Temporaries(1)
  /\ closeUpvalues(cur, start)
  /\ frames' = [frames EXCEPT ![cur] = <<>>]
  /\ stack' = [stack EXCEPT ![cur] = <<>>]
  /\ name' = [name EXCEPT ![cur] = <<>>]
  /\ cur' = None
  /\ start' = Freed
  /\ UNCHANGED <<memory, closure, left, content>>

\* The last OP_RETURN of a djuru that d waits for.
FinishInto(d) ==
  /\ Running
  /\ d # cur
  /\ Len(frames[cur]) = 1
  /\ Temporaries(1)
  /\ frames[d] # <<>>
  /\ TopSlot(d) > 1
  /\ closeUpvalues(cur, start)
  /\ frames' = [frames EXCEPT ![cur] = <<>>]
  /\ stack' = [stack EXCEPT ![cur] = <<>>, ![d][TopSlot(d)] = NULL_VAL]
  /\ name' = [name EXCEPT ![cur] = <<>>]
  /\ cur' = d
  /\ start' = Frame(d).start
  /\ UNCHANGED <<memory, closure, left, content>>

\* A collection frees d, which nothing refers to any more, with its stack.
\* What an upvalue points to does not keep d: MSCBlackenUpvalue marks only the
\* upvalue's own value. Closures that d's functions made may live on.
Collect(d) ==
  /\ d # cur
  /\ memory[d] = "live"
  /\ memory' = [memory EXCEPT ![d] = "freed"]
  /\ stack' = [stack EXCEPT ![d] = <<>>]
  /\ name' = [name EXCEPT ![d] = <<>>]
  /\ frames' = [frames EXCEPT ![d] = <<>>]
  /\ open' = [open EXCEPT ![d] = <<>>]
  /\ UNCHANGED <<cur, start, upvalue, closure, left, content>>

------------------------------------------------------------------------------

Functions == 0 .. Len(closure)

Local ==
  \/ PushTemporary
  \/ \E v \in Value : DeclareLocal(v)
  \/ \E slot \in 1 .. MaxSlots, v \in Value : StoreLocal(slot, v)
  \/ EndScope

Capture ==
  \/ \E n \in 0 .. MaxCaptures : MakeClosure(n)
  \/ \E slot \in 1 .. MaxSlots : captureUpvalue(slot)
  \/ \E j \in 1 .. MaxCaptures : ShareUpvalue(j)
  \/ \E j \in 1 .. MaxCaptures, v \in Value : StoreUpvalue(j, v)

Call ==
  \/ \E fn \in Functions, hasParameter, moves \in BOOLEAN :
        callFunction(fn, hasParameter, moves)
  \/ Return

Switch ==
  \/ \E d \in Djuru : MSCInterpret(d)
  \/ \E d \in Djuru, fn \in Functions : djuru_new(d, fn)
  \/ \E d \in Djuru, hasParameter \in BOOLEAN : SwitchTo(d, hasParameter)
  \/ Stop
  \/ Finish
  \/ \E d \in Djuru : FinishInto(d)

\* Foreign methods that need no more slots than there are, and collections of
\* djurus none of whose locals is captured.
SafeNext ==
  \/ Local
  \/ Capture
  \/ Call
  \/ Switch
  \/ callExtern(FALSE)
  \/ \E d \in Djuru : open[d] = <<>> /\ Collect(d)

Next ==
  \/ SafeNext
  \/ callExtern(TRUE)
  \/ \E d \in Djuru : Collect(d)

SafeSpec == Init /\ [][SafeNext]_vars
Spec == Init /\ [][Next]_vars

------------------------------------------------------------------------------
(* Properties.                                                              *)

TypeOK ==
  /\ cur \in Djuru \union {None}
  /\ start \in (Nat \ {0}) \union {Freed}
  /\ memory \in [Djuru -> {"none", "live", "freed"}]
  /\ stack \in [Djuru -> Seq(Value)]
  /\ name \in [Djuru -> Seq(Nat)]
  /\ \A d \in Djuru : Len(name[d]) = Len(stack[d])
  /\ frames \in [Djuru -> Seq([start : Nat \ {0}, fn : Functions])]
  /\ open \in [Djuru -> Seq(DOMAIN upvalue)]
  /\ upvalue \in Seq([djuru : Djuru, slot : Pointer, closed : Value])
  /\ closure \in Seq([upvalues : Seq(DOMAIN upvalue),
                      bound : Seq(DOMAIN content)])
  /\ left \in Nat
  /\ content \in Seq(Value)

\* What a function reads through an upvalue: the value, or None for memory
\* that was given back.
Seen(u) ==
  CASE upvalue[u].slot = Closed -> upvalue[u].closed
    [] upvalue[u].slot # Closed /\ Valid(u) ->
         stack[upvalue[u].djuru][upvalue[u].slot]
    [] OTHER -> None

\* A closure reads of every variable it captured what was last stored in it,
\* by the function that declared it or by any closure, before and after its
\* scope has ended, wherever the stack has moved, in whichever djuru it runs.
ClosuresSeeVariables ==
  \A c \in DOMAIN closure : \A j \in DOMAIN closure[c].upvalues :
    Seen(closure[c].upvalues[j]) = content[closure[c].bound[j]]

\* The slot of every local holds what was last stored in the local, also by
\* closures, while other functions, djurus and stack moves come and go.
LocalsKept ==
  \A d \in Djuru : \A i \in DOMAIN stack[d] :
    name[d][i] # 0 => stack[d][i] = content[name[d][i]]

\* Closures that captured the same variable share one upvalue, and an upvalue
\* never serves a second variable that has taken the slot of the first.
OneUpvaluePerVariable ==
  \A c, e \in DOMAIN closure :
    \A i \in DOMAIN closure[c].upvalues, j \in DOMAIN closure[e].upvalues :
      closure[c].bound[i] = closure[e].bound[j] <=>
        closure[c].upvalues[i] = closure[e].upvalues[j]

\* The interpreter's register is the start of the running frame in the stack
\* as it is now ("we need to recalculate every pointer that points into the
\* old stack", MSCEnsureStack), and the djuru that runs has a frame.
RegisterFresh == cur # None => frames[cur] # <<>> /\ start = Frame(cur).start

------------------------------------------------------------------------------
(* The inductive invariant of SafeSpec.                                     *)

\* A djuru has slots and frames while it is live, and each frame has its own
\* part of the stack, which starts with its receiver.
FrameInv ==
  \A d \in Djuru :
    /\ memory[d] # "live" => frames[d] = <<>>
    /\ frames[d] = <<>> => stack[d] = <<>>
    /\ frames[d] # <<>> => frames[d][1].start = 1
    /\ \A i \in DOMAIN frames[d] : frames[d][i].start <= Len(stack[d])
    /\ \A i, j \in DOMAIN frames[d] :
         i < j => frames[d][i].start < frames[d][j].start

\* No two slots are the same variable.
NameInv ==
  /\ \A d \in Djuru : \A i \in DOMAIN name[d] : name[d][i] <= Len(content)
  /\ \A d \in Djuru : \A i \in DOMAIN name[d] :
       name[d][i] # 0 =>
         \A e \in Djuru : \A j \in DOMAIN name[e] :
           name[d][i] = name[e][j] => d = e /\ i = j

\* The list of open upvalues goes down the stack, has at most one upvalue for
\* a slot, and has all of them.
OpenInv ==
  /\ \A d \in Djuru :
       /\ \A i \in DOMAIN open[d] :
            /\ upvalue[open[d][i]].djuru = d
            /\ upvalue[open[d][i]].slot \in DOMAIN stack[d]
       /\ \A i, j \in DOMAIN open[d] :
            i < j => upvalue[open[d][j]].slot < upvalue[open[d][i]].slot
  /\ \A u \in DOMAIN upvalue :
       upvalue[u].slot # Closed =>
         \E i \in DOMAIN open[upvalue[u].djuru] : open[upvalue[u].djuru][i] = u

\* Upvalue u serves variable x: open, it points to the slot of x; closed, it
\* holds the value of x, which is on no stack any more.
Serves(u, x) ==
  IF upvalue[u].slot = Closed
  THEN /\ upvalue[u].closed = content[x]
       /\ \A d \in Djuru : \A i \in DOMAIN name[d] : name[d][i] # x
  ELSE name[upvalue[u].djuru][upvalue[u].slot] = x

\* The upvalues of a closure serve the variables they were captured for.
BindInv ==
  \A c \in DOMAIN closure :
    /\ DOMAIN closure[c].bound = DOMAIN closure[c].upvalues
    /\ \A j \in DOMAIN closure[c].upvalues :
         Serves(closure[c].upvalues[j], closure[c].bound[j])

\* A parameter's first value is what its caller pushed.
TemporariesNull ==
  \A d \in Djuru : \A i \in DOMAIN name[d] : name[d][i] = 0 => stack[d][i] = NULL_VAL

\* OP_CLOSURE captures for the closure it made last, in the djuru that runs.
CaptureInv == left > 0 => cur # None /\ closure # <<>>

\* The slot that takes the value a waiting djuru is resumed with is none of its
\* variables.
WaitingInv ==
  \A d \in Djuru \ {cur} :
    frames[d] # <<>> /\ TopSlot(d) > 1 => name[d][TopSlot(d)] = 0

\* The argument that closures see their variables: of the C code, it is about
\* every write to a stack, an upvalue and the list of open upvalues.
ClosureInv ==
  /\ TypeOK
  /\ FrameInv
  /\ NameInv
  /\ OpenInv
  /\ BindInv
  /\ LocalsKept
  /\ TemporariesNull
  /\ OneUpvaluePerVariable
  /\ RegisterFresh
  /\ CaptureInv
  /\ WaitingInv
=============================================================================
