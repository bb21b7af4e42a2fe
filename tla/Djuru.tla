-------------------------------- MODULE Djuru --------------------------------
(****************************************************************************)
(* The coroutines ("djuru") of the Mosc virtual machine: how scripts start, *)
(* call, try, yield, suspend and transfer between them, how the interpreter *)
(* returns from one to another, how a runtime error walks a chain of        *)
(* callers, and how the host enters the interpreter again between runs.     *)
(*                                                                          *)
(* A djuru is a member of the set Djuru; NULL is the model value None.      *)
(* Values, instructions and stacks are abstracted: a djuru keeps its number *)
(* of call frames, its caller, its state, and whether it has an error.      *)
(****************************************************************************)
EXTENDS Naturals

CONSTANTS Djuru,     \* the djurus a run may allocate
          None,      \* the C NULL
          INITIAL_CALL_FRAMES,  \* the frames a new djuru has room for
          MaxFrames  \* bound of the model on the call frames of one djuru

ASSUME DjuruAssumption ==
  /\ None \notin Djuru
  /\ INITIAL_CALL_FRAMES \in Nat \ {0}
  /\ MaxFrames \in Nat \ {0}

VARIABLES
  entry,    \* the host function that is running the interpreter, or "idle"
  cur,      \* vm->djuru
  walker,   \* `current` of runtimeError while it walks the callers
  api,      \* vm->apiStack # NULL
  crashed,  \* the interpreter used frames[-1] or a NULL caller
  made,     \* the djurus allocated so far
  frames,   \* djuru->numOfFrames
  capacity, \* djuru->frameCapacity
  ran,      \* djuru->frames[0].ip has left the start of the function
  caller,   \* djuru->caller
  state,    \* djuru->state
  aborted   \* the djurus whose error is not null

vars == <<entry, cur, walker, api, crashed, made, frames, capacity, ran,
          caller, state, aborted>>

State == {"try", "root", "other"}
Entry == {"idle", "MSCInterpret", "MSCCall"}

\* The interpreter loop is executing the code of cur.
Running == entry # "idle" /\ walker = None /\ ~crashed

\* runtimeError is walking the callers.
Unwinding == entry # "idle" /\ walker # None /\ ~crashed

\* No C code of the VM is on the stack: the host may call its API.
HostIdle == entry = "idle" /\ ~crashed

\* A script can only name a djuru made by Djuru.new or one that has run
\* (Djuru.current): those the API makes for its slots are hidden until then.
Known(d) == d \in made /\ (ran[d] \/ frames[d] > 0)

Finished(d) == Known(d) /\ frames[d] = 0

\* MSCDjuruFrom's initial values.
Init ==
  /\ entry = "idle"
  /\ cur = None
  /\ walker = None
  /\ api = FALSE
  /\ crashed = FALSE
  /\ made = {}
  /\ frames = [d \in Djuru |-> 0]
  /\ capacity = [d \in Djuru |-> INITIAL_CALL_FRAMES]
  /\ ran = [d \in Djuru |-> FALSE]
  /\ caller = [d \in Djuru |-> None]
  /\ state = [d \in Djuru |-> "other"]
  /\ aborted = {}

------------------------------------------------------------------------------
(* The host.                                                                *)

\* MSCInterpret: a fresh djuru for the compiled module, then runInterpreter.
MSCInterpret(d) ==
  /\ HostIdle
  /\ d \notin made
  /\ made' = made \union {d}
  /\ frames' = [frames EXCEPT ![d] = 1]
  /\ ran' = [ran EXCEPT ![d] = TRUE]
  /\ state' = [state EXCEPT ![d] = "root"]
  /\ cur' = d
  /\ api' = FALSE
  /\ entry' = "MSCInterpret"
  /\ UNCHANGED <<walker, crashed, capacity, caller, aborted>>

\* MSCEnsureSlots outside a foreign method: with no slots it makes a djuru
\* that has no frame.
MSCEnsureSlots(d) ==
  /\ HostIdle
  /\ ~api
  /\ d \notin made
  /\ made' = made \union {d}
  /\ cur' = d
  /\ api' = TRUE
  /\ UNCHANGED <<entry, walker, crashed, frames, capacity, ran, caller, state,
                 aborted>>

\* Fault: the array of frames grows one push too late.
Grown_late(d) ==
  IF frames[d] > capacity[d] THEN 2 * capacity[d] ELSE capacity[d]

\* callFunction doubles the array when it has no room for one more frame.
Grown(d) ==
  IF frames[d] + 1 > capacity[d] THEN 2 * capacity[d] ELSE capacity[d]

\* MSCCall: pushes the stub's frame on the djuru that holds the slots, which
\* may be the one left by an earlier run, and runs it as a root.
MSCCall ==
  /\ HostIdle
  /\ api
  /\ cur # None
  /\ frames[cur] = 0
  /\ capacity' = [capacity EXCEPT ![cur] = Grown(cur)]
  /\ frames' = [frames EXCEPT ![cur] = 1]
  /\ ran' = [ran EXCEPT ![cur] = TRUE]
  /\ state' = [state EXCEPT ![cur] = "root"]
  /\ api' = FALSE
  /\ entry' = "MSCCall"
  /\ UNCHANGED <<cur, walker, crashed, made, caller, aborted>>

------------------------------------------------------------------------------
(* Helpers of the primitives.                                               *)

\* The interpreter continues in d, which has n frames: LOAD_FRAME reads
\* frames[n - 1], which is outside the array when n is zero.
Resume(d, n) ==
  /\ cur' = d
  /\ crashed' = (n = 0)
  /\ UNCHANGED <<entry, api>>

\* The interpreter loop returns to the host because vm->djuru is NULL.
StopInterpreter ==
  /\ cur' = None
  /\ entry' = "idle"
  /\ api' = FALSE
  /\ UNCHANGED crashed

\* Fault: nothing is aborted.
Abort_not(d) == UNCHANGED aborted

\* d->error is set to something that is not null.
Abort(d) == aborted' = aborted \union {d}

\* Fault: d keeps its caller.
Unhook_not(d) == UNCHANGED caller

\* d->caller = NULL.
Unhook(d) == caller' = [caller EXCEPT ![d] = None]

\* An error is set on the running djuru and RUNTIME_ERROR enters
\* runtimeError.
Fail ==
  /\ Abort(cur)
  /\ walker' = cur
  /\ UNCHANGED <<entry, cur, api, crashed>>

\* Faults: MayClaim without one of its checks.
MayClaim_aborted(t) == caller[t] = None /\ state[t] # "root"
MayClaim_called(t) == t \notin aborted /\ state[t] # "root"
MayClaim_root(t) == t \notin aborted /\ caller[t] = None

\* The checks a call makes before it stores the caller.
MayClaim(t) == t \notin aborted /\ caller[t] = None /\ state[t] # "root"

\* Fault: the caller is not stored.
Claim_forgets(t) == UNCHANGED caller

\* runDjuru(isCall = true) as far as the caller field: it is stored before
\* the check that t has not finished.
Claim(t) ==
  caller' = IF MayClaim(t) THEN [caller EXCEPT ![t] = cur] ELSE caller

\* runDjuru succeeds and execution moves to t.
SwitchTo(t) ==
  /\ frames[t] > 0
  /\ ran' = [ran EXCEPT ![t] = TRUE]
  /\ cur' = t
  /\ UNCHANGED <<entry, api, crashed>>

------------------------------------------------------------------------------
(* Primitives of the Djuru class, executed by the running djuru.            *)

\* Djuru.new(fn): Djuru.kura in scripts.
djuru_new(d) ==
  /\ Running
  /\ d \notin made
  /\ made' = made \union {d}
  /\ frames' = [frames EXCEPT ![d] = 1]
  /\ UNCHANGED <<entry, cur, walker, api, crashed, capacity, ran, caller, state,
                 aborted>>

\* runDjuru(isCall = true): t runs, or the caller has an error.
RunCalled(t) ==
  /\ Running
  /\ Known(t)
  /\ Claim(t)
  /\ \/ /\ MayClaim(t)
        /\ SwitchTo(t)
        /\ UNCHANGED <<walker, aborted>>
     \/ /\ ~MayClaim(t) \/ frames[t] = 0
        /\ Fail
        /\ UNCHANGED ran
  /\ UNCHANGED <<made, frames, capacity>>

\* djuru_call and djuru_call1.
djuru_call(t) ==
  /\ RunCalled(t)
  /\ UNCHANGED state

\* Fault: vm->djuru is marked even if it is the djuru whose try was refused.
MarkTried_always == state' = [state EXCEPT ![cur'] = "try"]

\* `if (!MSCHasError(vm->djuru)) vm->djuru->state = DJURU_TRY`.
MarkTried ==
  state' = IF cur' \in aborted' THEN state ELSE [state EXCEPT ![cur'] = "try"]

\* djuru_try and djuru_try1.
djuru_try(t) ==
  /\ RunCalled(t)
  /\ MarkTried

\* djuru_transfer and djuru_transfer1: no caller is recorded.
djuru_transfer(t) ==
  /\ Running
  /\ Known(t)
  /\ \/ /\ t \notin aborted
        /\ SwitchTo(t)
        /\ UNCHANGED <<walker, aborted>>
     \/ /\ t \in aborted \/ frames[t] = 0
        /\ Fail
        /\ UNCHANGED ran
  /\ UNCHANGED <<made, frames, capacity, caller, state>>

\* djuru_transferError: the result of runDjuru is ignored and the error of
\* vm->djuru, the target or, after a refusal, the running djuru itself, is
\* overwritten with the argument. A null argument leaves vm->djuru without
\* an error, so that a refused transfer goes on.
djuru_transferError(t, isNull) ==
  LET accepted == t \notin aborted /\ frames[t] > 0
      here     == IF accepted THEN t ELSE cur
  IN
  /\ Running
  /\ Known(t)
  /\ cur' = here
  /\ ran' = IF accepted THEN [ran EXCEPT ![t] = TRUE] ELSE ran
  /\ aborted' = IF isNull THEN aborted \ {here} ELSE aborted \union {here}
  /\ walker' = IF isNull THEN None ELSE here
  /\ UNCHANGED <<entry, api, crashed, made, frames, capacity, caller, state>>

\* Fault: a djuru that yields stays tried.
ResetState_not(d) == UNCHANGED state

\* djuru_yield: `current->state = DJURU_OTHER`.
ResetState(d) == state' = [state EXCEPT ![d] = "other"]

\* Unhook the running djuru and go back to its caller, or leave the interpreter
\* when it has none.
YieldToCaller ==
  /\ Unhook(cur)
  /\ ResetState(cur)
  /\ \/ /\ caller[cur] = None
        /\ StopInterpreter
        /\ UNCHANGED walker
     \/ /\ caller[cur] # None
        /\ IF caller[cur] \in aborted
           THEN /\ cur' = caller[cur]
                /\ walker' = caller[cur]
                /\ UNCHANGED <<entry, api, crashed>>
           ELSE /\ Resume(caller[cur], frames[caller[cur]])
                /\ UNCHANGED walker
  /\ UNCHANGED <<made, frames, capacity, ran, aborted>>

\* djuru_yield, and djuru_yield1 with a value.
djuru_yield ==
  /\ Running
  /\ YieldToCaller

\* djuru_suspend: the interpreter stops and the chain of callers is kept.
djuru_suspend ==
  /\ Running
  /\ StopInterpreter
  /\ UNCHANGED <<walker, made, frames, capacity, ran, caller, state, aborted>>

------------------------------------------------------------------------------
(* The interpreter loop.                                                    *)

\* A script call that pushes a frame on the running djuru. The code has no
\* limit on the frames; MaxFrames only bounds the model.
callFunction ==
  /\ Running
  /\ frames[cur] < MaxFrames
  /\ capacity' = [capacity EXCEPT ![cur] = Grown(cur)]
  /\ frames' = [frames EXCEPT ![cur] = @ + 1]
  /\ UNCHANGED <<entry, cur, walker, api, crashed, made, ran, caller, state,
                 aborted>>

\* OP_RETURN from a function that is not the djuru's first.
ReturnToFrame ==
  /\ Running
  /\ frames[cur] > 1
  /\ frames' = [frames EXCEPT ![cur] = @ - 1]
  /\ UNCHANGED <<entry, cur, walker, api, crashed, made, capacity, ran, caller,
                 state, aborted>>

\* OP_RETURN from the first function with no caller: the run is over and
\* vm->djuru stays the djuru that ended. MSCCall then gives the host its stack.
ReturnToHost ==
  /\ Running
  /\ frames[cur] = 1
  /\ caller[cur] = None
  /\ frames' = [frames EXCEPT ![cur] = 0]
  /\ entry' = "idle"
  /\ api' = (entry = "MSCCall")
  /\ UNCHANGED <<cur, walker, crashed, made, capacity, ran, caller, state,
                 aborted>>

\* OP_RETURN from the first function of a called djuru.
ReturnToCaller ==
  /\ Running
  /\ frames[cur] = 1
  /\ caller[cur] # None
  /\ frames' = [frames EXCEPT ![cur] = 0]
  /\ Unhook(cur)
  /\ Resume(caller[cur], IF caller[cur] = cur THEN 0 ELSE frames[caller[cur]])
  /\ UNCHANGED <<walker, made, capacity, ran, state, aborted>>

\* Any instruction or primitive that ends in RUNTIME_ERROR with an error set
\* on vm->djuru: a missing method, a foreign method's abort, Djuru.abort(e).
RuntimeFailure ==
  /\ Running
  /\ Fail
  /\ UNCHANGED <<made, frames, capacity, ran, caller, state>>

------------------------------------------------------------------------------
(* runtimeError: one step for each turn of its loop. Nothing else can run   *)
(* between two turns, so the steps cannot be told from one long action.     *)

\* A djuru that was not tried is aborted and unhooked, and the walk goes on.
UnwindCaller ==
  /\ Unwinding
  /\ state[walker] # "try"
  /\ caller[walker] # None
  /\ Abort(walker)
  /\ Unhook(walker)
  /\ walker' = caller[walker]
  /\ UNCHANGED <<entry, cur, api, crashed, made, frames, capacity, ran, state>>

\* A tried djuru gives the error to its caller, which goes on; the caller
\* field is kept.
CatchError ==
  /\ Unwinding
  /\ state[walker] = "try"
  /\ caller[walker] # None
  /\ Abort(walker)
  /\ walker' = None
  /\ Resume(caller[walker], frames[caller[walker]])
  /\ UNCHANGED <<made, frames, capacity, ran, caller, state>>

\* A tried djuru without a caller: current->caller->stackTop is a read
\* through NULL.
CatchWithoutCaller ==
  /\ Unwinding
  /\ state[walker] = "try"
  /\ caller[walker] = None
  /\ Abort(walker)
  /\ crashed' = TRUE
  /\ UNCHANGED <<entry, cur, walker, api, made, frames, capacity, ran, caller,
                 state>>

\* No djuru of the chain was tried: the run ends with RESULT_RUNTIME_ERROR.
UncaughtError ==
  /\ Unwinding
  /\ state[walker] # "try"
  /\ caller[walker] = None
  /\ Abort(walker)
  /\ walker' = None
  /\ StopInterpreter
  /\ UNCHANGED <<made, frames, capacity, ran, caller, state>>

runtimeError ==
  \/ UnwindCaller
  \/ CatchError
  \/ CatchWithoutCaller
  \/ UncaughtError

------------------------------------------------------------------------------

Host ==
  \/ \E d \in Djuru : MSCInterpret(d) \/ MSCEnsureSlots(d)
  \/ MSCCall

\* The primitives that keep to the call / yield discipline.
CallPrimitive ==
  \/ \E d \in Djuru : djuru_new(d)
  \/ \E t \in Djuru : djuru_call(t) \/ djuru_try(t)
  \/ djuru_yield
  \/ djuru_suspend

\* Those that move to a djuru without recording who to come back to.
TransferPrimitive ==
  \E t \in Djuru :
     djuru_transfer(t) \/ \E isNull \in BOOLEAN : djuru_transferError(t, isNull)

Interpreter ==
  \/ callFunction
  \/ ReturnToFrame
  \/ ReturnToHost
  \/ ReturnToCaller
  \/ RuntimeFailure
  \/ runtimeError

CallNext == Host \/ CallPrimitive \/ Interpreter

Next == CallNext \/ TransferPrimitive

\* Scripts that never transfer, and scripts that may.
CallSpec == Init /\ [][CallNext]_vars
Spec == Init /\ [][Next]_vars

\* runtimeError's loop is plain C code that nothing suspends.
FairSpec == Spec /\ WF_vars(runtimeError)

------------------------------------------------------------------------------
(* Properties.                                                              *)

\* The types, and that a djuru never has more frames than its array has room
\* for, through every call, return and reuse by MSCCall (the ASSERT of
\* MSCAppendCallFrame).
TypeOK ==
  /\ entry \in Entry
  /\ cur \in Djuru \union {None}
  /\ walker \in Djuru \union {None}
  /\ api \in BOOLEAN
  /\ crashed \in BOOLEAN
  /\ made \in SUBSET Djuru
  /\ frames \in [Djuru -> 0 .. MaxFrames]
  /\ capacity \in [Djuru -> Nat \ {0}]
  /\ \A d \in Djuru : frames[d] <= capacity[d]
  /\ ran \in [Djuru -> BOOLEAN]
  /\ caller \in [Djuru -> Djuru \union {None}]
  /\ state \in [Djuru -> State]
  /\ aborted \in SUBSET Djuru
  /\ entry # "idle" => cur \in Djuru

\* d can still run.
Live(d) == d \in made /\ frames[d] > 0 /\ d \notin aborted

\* The interpreter never reads a frame of a finished djuru nor goes through
\* a NULL caller, whatever chain of calls, returns and errors led there
\* (OP_RETURN and runtimeError resume a caller without looking at it).
NeverCrashes == ~crashed

\* The code of a djuru that has been aborted is never executed again: the
\* error walk unhooks what it aborts, and a call to it is refused.
NeverRunsAborted == Running => cur \notin aborted

\* The error walk finds a caller to give the error to when it stops at a
\* djuru that was tried (current->caller->stackTop in runtimeError).
TriedHasCaller ==
  \A d \in Djuru : Live(d) /\ state[d] = "try" => caller[d] # None

\* While a live djuru has a caller, the caller is live too, waits inside its
\* call (so it is not the one that runs), and waits for that djuru alone.
CallersWait ==
  \A d \in Djuru :
     Live(d) /\ caller[d] # None =>
        /\ Live(caller[d])
        /\ Running => caller[d] # cur
        /\ \A e \in Djuru \ {d} : Live(e) => caller[e] # caller[d]

\* A run that ends by a return ends in the djuru the host entered: the value
\* MSCCall leaves in slot 0 is the result of the function it was given.
HostGetsOwnResult ==
  [][ReturnToHost => state[cur] = "root"]_vars

\* runtimeError always stops walking: it reaches a try, the end of the
\* chain, or, on a cycle of callers, a djuru it has already unhooked.
UnwindEnds == Unwinding ~> ~Unwinding

\* A djuru that has suspended itself "can be resumed later by calling" it. The
\* caller and the root state that djuru_suspend keeps make every call fail.
SuspendedCanBeCalled ==
  [][\A d \in Djuru : d = cur /\ djuru_suspend => MayClaim(d)']_vars

------------------------------------------------------------------------------
(* The inductive invariant of CallSpec.                                     *)

\* The djuru at work: the one that runs, or the one runtimeError is at.
Focused(d) == entry # "idle" /\ d = (IF walker = None THEN cur ELSE walker)

\* Live, or just aborted and still being handled by runtimeError.
Active(d) == d \in made /\ frames[d] > 0 /\ (d \notin aborted \/ d = walker)

\* A djuru that was never allocated has MSCDjuruFrom's initial values.
FreshDjuru ==
  \A d \in Djuru \ made :
    /\ frames[d] = 0 /\ caller[d] = None /\ state[d] = "other"
    /\ ~ran[d] /\ d \notin aborted

\* What runs can run, and nothing walks when nothing runs.
FocusInv ==
  /\ ~crashed
  /\ entry = "idle" => walker = None
  /\ \A d \in Djuru : Focused(d) => Active(d)

\* The caller of an active djuru is live, not at work, and its own.
LinkInv ==
  \A d \in Djuru :
    Active(d) /\ caller[d] # None =>
      /\ Live(caller[d])
      /\ ~Focused(caller[d])
      /\ \A e \in Djuru : Active(e) /\ caller[e] = caller[d] => e = d

\* A tried djuru has a caller; a chain ends in the djuru the host entered.
ChainInv ==
  \A d \in Djuru :
    Active(d) =>
      /\ state[d] = "try" => caller[d] # None
      /\ caller[d] = None =>
           /\ Focused(d) => state[d] = "root"
           /\ \A e \in Djuru : Active(e) /\ caller[e] = d => state[d] = "root"

\* The djuru that holds the host's slots between runs is free to run.
SlotsInv ==
  entry = "idle" /\ api =>
    cur \in made /\ cur \notin aborted /\ caller[cur] = None

\* The argument that the chain of callers stays sound: each part leans on the
\* others. Of the C code, it is about every write to caller, error and state.
CallInv == FreshDjuru /\ FocusInv /\ LinkInv /\ ChainInv /\ SlotsInv

=============================================================================
