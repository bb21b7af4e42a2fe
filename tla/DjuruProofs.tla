----------------------------- MODULE DjuruProofs -----------------------------
(****************************************************************************)
(* Theorems about Djuru, for any set of djurus and any bound on frames:     *)
(* type correctness with and without transfers, and, for scripts that do    *)
(* not transfer, that the chain of callers stays sound, so that no dead     *)
(* djuru ever runs.                                                         *)
(****************************************************************************)
EXTENDS DjuruRefinement, Induction, FiniteSetTheorems, TLAPS

\* Moving to another djuru keeps the types.
LEMMA SwitchType ==
  ASSUME TypeOK, NEW t \in Djuru, SwitchTo(t)
  PROVE  /\ ran' \in [Djuru -> BOOLEAN]
         /\ cur' \in Djuru
         /\ UNCHANGED <<entry, api, crashed>>
BY DEF SwitchTo, TypeOK

\* Every step keeps the types, transfers included.
LEMMA TypeStep ==
  ASSUME TypeOK, [Next]_vars
  PROVE  TypeOK'
<1> USE DjuruAssumption
    DEF TypeOK, State, Entry, Abort, Unhook, ResetState
<1>1. ASSUME Host PROVE TypeOK'
  <2>1. ASSUME NEW d \in Djuru, MSCInterpret(d) PROVE TypeOK'
    <3>1. frames' \in [Djuru -> 0 .. MaxFrames]
      BY <2>1 DEF MSCInterpret
    <3>2. /\ capacity' \in [Djuru -> Nat \ {0}]
          /\ \A e \in Djuru : frames'[e] <= capacity'[e]
      BY <2>1 DEF MSCInterpret
    <3>3. ran' \in [Djuru -> BOOLEAN] /\ state' \in [Djuru -> State]
      BY <2>1 DEF MSCInterpret
    <3> QED
      BY <2>1, <3>1, <3>2, <3>3 DEF MSCInterpret
  <2>2. ASSUME NEW d \in Djuru, MSCEnsureSlots(d) PROVE TypeOK'
    BY <2>2 DEF MSCEnsureSlots, HostIdle
  <2>3. CASE MSCCall
    <3>1. frames' \in [Djuru -> 0 .. MaxFrames]
      BY <2>3 DEF MSCCall
    <3>2. /\ capacity' \in [Djuru -> Nat \ {0}]
          /\ \A d \in Djuru : frames'[d] <= capacity'[d]
      BY <2>3 DEF MSCCall, Grown
    <3> QED
      BY <2>3, <3>1, <3>2 DEF MSCCall
  <2> QED
    BY <1>1, <2>1, <2>2, <2>3 DEF Host
<1>2. ASSUME CallPrimitive PROVE TypeOK'
  <2> USE DEF Running, Known
  <2>1. ASSUME NEW d \in Djuru, djuru_new(d) PROVE TypeOK'
    BY <2>1 DEF djuru_new
  <2>2. ASSUME NEW t \in Djuru, djuru_call(t) \/ djuru_try(t)
        PROVE  TypeOK'
    <3>1. RunCalled(t)
      BY <2>2 DEF djuru_call, djuru_try
    <3>2. caller' \in [Djuru -> Djuru \union {None}]
      BY <3>1 DEF RunCalled, Claim
    <3>3. state' \in [Djuru -> State]
      BY <2>2 DEF djuru_call, djuru_try, MarkTried
    <3>4. CASE SwitchTo(t) /\ UNCHANGED <<walker, aborted>>
      BY <3>1, <3>2, <3>3, <3>4, SwitchType DEF RunCalled
    <3>5. CASE Fail /\ UNCHANGED ran
      BY <3>1, <3>2, <3>3, <3>5 DEF RunCalled, Fail
    <3> QED
      BY <3>1, <3>4, <3>5 DEF RunCalled
  <2>4. CASE djuru_yield
    BY <2>4 DEF djuru_yield, YieldToCaller, StopInterpreter, Resume
  <2>5. CASE djuru_suspend
    BY <2>5 DEF djuru_suspend, StopInterpreter
  <2> QED
    BY <1>2, <2>1, <2>2, <2>4, <2>5 DEF CallPrimitive
<1>3. ASSUME TransferPrimitive PROVE TypeOK'
  <2> USE DEF Running, Known
  <2>1. ASSUME NEW t \in Djuru, djuru_transfer(t) PROVE TypeOK'
    <3>1. CASE SwitchTo(t) /\ UNCHANGED <<walker, aborted>>
      BY <2>1, <3>1, SwitchType DEF djuru_transfer
    <3>2. CASE Fail /\ UNCHANGED ran
      BY <2>1, <3>2 DEF djuru_transfer, Fail
    <3> QED
      BY <2>1, <3>1, <3>2 DEF djuru_transfer
  <2>2. ASSUME NEW t \in Djuru, NEW v \in BOOLEAN, djuru_transferError(t, v)
        PROVE  TypeOK'
    BY <2>2 DEF djuru_transferError
  <2> QED
    BY <1>3, <2>1, <2>2 DEF TransferPrimitive
<1>4. ASSUME Interpreter PROVE TypeOK'
  <2> USE DEF Running, Unwinding
  <2>1. CASE callFunction
    <3>1. /\ frames' \in [Djuru -> 0 .. MaxFrames]
          /\ capacity' \in [Djuru -> Nat \ {0}]
          /\ \A d \in Djuru : frames'[d] <= capacity'[d]
      BY <2>1 DEF callFunction, Grown
    <3> QED
      BY <2>1, <3>1 DEF callFunction
  <2>2. CASE ReturnToFrame
    BY <2>2 DEF ReturnToFrame
  <2>3. CASE ReturnToHost
    BY <2>3 DEF ReturnToHost
  <2>4. CASE ReturnToCaller
    BY <2>4 DEF ReturnToCaller, Resume
  <2>5. CASE RuntimeFailure
    BY <2>5 DEF RuntimeFailure, Fail
  <2>6. CASE runtimeError
    <3>1. CASE UnwindCaller
      BY <3>1 DEF UnwindCaller
    <3>2. CASE CatchError
      BY <3>2 DEF CatchError, Resume
    <3>3. CASE CatchWithoutCaller
      BY <3>3 DEF CatchWithoutCaller
    <3>4. CASE UncaughtError
      BY <3>4 DEF UncaughtError, StopInterpreter
    <3> QED
      BY <2>6, <3>1, <3>2, <3>3, <3>4 DEF runtimeError
  <2> QED
    BY <1>4, <2>1, <2>2, <2>3, <2>4, <2>5, <2>6 DEF Interpreter
<1>5. CASE UNCHANGED vars
  BY <1>5 DEF vars
<1> QED
  BY <1>1, <1>2, <1>3, <1>4, <1>5 DEF Next, CallNext

\* The fields of the VM and of its djurus keep the types their C declarations
\* give them, under every primitive, return, error and host call.
THEOREM TypeCorrect == Spec => []TypeOK
<1>1. Init => TypeOK
  <2> SUFFICES ASSUME Init PROVE TypeOK
    OBVIOUS
  <2> USE DjuruAssumption DEF Init, State, Entry
  <2>1. frames \in [Djuru -> 0 .. MaxFrames]
    OBVIOUS
  <2>2. /\ capacity \in [Djuru -> Nat \ {0}]
        /\ \A d \in Djuru : frames[d] <= capacity[d]
    OBVIOUS
  <2> QED
    BY <2>1, <2>2 DEF TypeOK
<1>2. TypeOK /\ [Next]_vars => TypeOK'
  BY TypeStep
<1> QED
  BY <1>1, <1>2, PTL DEF Spec

\* The same for scripts that never transfer: their steps are steps of Next.
THEOREM CallTypeCorrect == CallSpec => []TypeOK
<1>1. CallSpec => Spec
  BY PTL DEF CallSpec, Spec, Next
<1> QED
  BY <1>1, TypeCorrect, PTL

------------------------------------------------------------------------------
(* Scripts that do not transfer. CallInv says that the caller fields form   *)
(* chains of live djurus with at most one djuru at work, at the end of its  *)
(* chain. The properties alone are not inductive: to see that a return      *)
(* resumes a live djuru one needs that callers of live djurus are live, to  *)
(* keep that when an error aborts a djuru one needs that no other djuru     *)
(* waits for it, and for that, that the djuru at work is nobody's caller.   *)

\* No primitive of the call discipline breaks the chains.
LEMMA CallPrimitiveInv ==
  ASSUME TypeOK, CallInv, CallPrimitive
  PROVE  CallInv'
<1> USE DjuruAssumption
    DEF TypeOK, CallInv, FreshDjuru, FocusInv, LinkInv, ChainInv, SlotsInv,
        Focused, Active, Live, State, Entry, Running, Known,
        Abort, Unhook, ResetState
<1>1. ASSUME NEW d \in Djuru, djuru_new(d) PROVE CallInv'
  BY <1>1 DEF djuru_new
<1>2. ASSUME NEW t \in Djuru, Running, MayClaim(t), cur' = t,
             caller' = [caller EXCEPT ![t] = cur], frames[t] > 0, Known(t),
             state' = state \/ state' = [state EXCEPT ![t] = "try"],
             UNCHANGED <<entry, walker, api, crashed, made, frames, aborted>>,
             \A d \in Djuru : d # t => ran'[d] = ran[d]
      PROVE  CallInv'
  \* An accepted call: t was live and without a caller, so it is neither the
  \* djuru that runs nor anybody's caller, and the running djuru becomes its.
  <2>1. t # cur /\ Live(t) /\ ~\E e \in Djuru : Active(e) /\ caller[e] = t
    BY <1>2 DEF MayClaim
  <2>2. FreshDjuru'
    BY <1>2
  <2>3. FocusInv'
    BY <1>2, <2>1
  <2>4. LinkInv'
    BY <1>2, <2>1
  <2>5. ChainInv'
    BY <1>2, <2>1 DEF MayClaim
  <2> QED
    BY <1>2, <2>2, <2>3, <2>4, <2>5
<1>3. ASSUME NEW t \in Djuru, Running, Known(t), Claim(t), Fail,
             ~MayClaim(t) \/ frames[t] = 0,
             UNCHANGED <<made, frames, state, ran>>
      PROVE  CallInv'
  \* A refused call: the running djuru starts to unwind. If the caller was
  \* stored, it was in a finished djuru, which no part of CallInv looks at.
  <2>1. \A d \in Djuru : frames[d] > 0 => caller'[d] = caller[d]
    BY <1>3 DEF Claim, MayClaim
  <2>2. FreshDjuru' /\ FocusInv' /\ SlotsInv'
    BY <1>3 DEF Fail, Claim, MayClaim
  <2>3. LinkInv'
    BY <1>3, <2>1 DEF Fail
  <2>4. ChainInv'
    BY <1>3, <2>1 DEF Fail
  <2> QED
    BY <2>2, <2>3, <2>4
<1>4. ASSUME NEW t \in Djuru, djuru_call(t) PROVE CallInv'
  BY <1>2, <1>3, <1>4 DEF djuru_call, RunCalled, Claim, SwitchTo
<1>5. ASSUME NEW t \in Djuru, djuru_try(t) PROVE CallInv'
  <2>1. CASE SwitchTo(t) /\ UNCHANGED <<walker, aborted>> /\ MayClaim(t)
    <3>1. state' = [state EXCEPT ![t] = "try"]
      BY <1>5, <2>1 DEF djuru_try, MarkTried, SwitchTo, MayClaim
    <3> QED
      BY <1>2, <1>5, <2>1, <3>1 DEF djuru_try, RunCalled, Claim, SwitchTo
  <2>2. CASE Fail /\ UNCHANGED ran /\ (~MayClaim(t) \/ frames[t] = 0)
    <3>1. state' = state
      BY <1>5, <2>2 DEF djuru_try, MarkTried, Fail
    <3> QED
      BY <1>3, <1>5, <2>2, <3>1 DEF djuru_try, RunCalled
  <2> QED
    BY <1>5, <2>1, <2>2 DEF djuru_try, RunCalled
<1>6. CASE djuru_yield
  BY <1>6 DEF djuru_yield, YieldToCaller, StopInterpreter, Resume
<1>7. CASE djuru_suspend
  BY <1>7 DEF djuru_suspend, StopInterpreter
<1> QED
  BY <1>1, <1>4, <1>5, <1>6, <1>7 DEF CallPrimitive

\* Nor does the interpreter: calls, returns and the walk of runtimeError.
LEMMA InterpreterInv ==
  ASSUME TypeOK, CallInv, Interpreter
  PROVE  CallInv'
<1> USE DjuruAssumption
    DEF TypeOK, CallInv, FreshDjuru, FocusInv, LinkInv, ChainInv, SlotsInv,
        Focused, Active, Live, State, Entry, Running, Unwinding,
        Abort, Unhook
<1>1. CASE callFunction
  BY <1>1 DEF callFunction
<1>2. CASE ReturnToFrame
  BY <1>2 DEF ReturnToFrame
<1>3. CASE ReturnToHost
  BY <1>3 DEF ReturnToHost
<1>4. CASE ReturnToCaller
  <2>1. Live(caller[cur]) /\ caller[cur] # cur
    BY <1>4 DEF ReturnToCaller
  <2> QED
    BY <1>4, <2>1 DEF ReturnToCaller, Resume
<1>5. CASE RuntimeFailure
  BY <1>5 DEF RuntimeFailure, Fail
<1>6. CASE UnwindCaller
  \* The caller is live, and waits for the walker alone: once the walker is
  \* aborted and unhooked, the caller takes its place.
  <2>1. /\ Live(caller[walker]) /\ caller[walker] # walker
        /\ \A e \in Djuru \ {walker} : Active(e) => caller[e] # caller[walker]
    BY <1>6 DEF UnwindCaller
  <2> QED
    BY <1>6, <2>1 DEF UnwindCaller
<1>7. CASE CatchError
  <2>1. /\ Live(caller[walker]) /\ caller[walker] # walker
        /\ \A e \in Djuru \ {walker} : Active(e) => caller[e] # caller[walker]
    BY <1>7 DEF CatchError
  <2> QED
    BY <1>7, <2>1 DEF CatchError, Resume
<1>8. CASE CatchWithoutCaller
  BY <1>8 DEF CatchWithoutCaller
<1>9. CASE UncaughtError
  BY <1>9 DEF UncaughtError, StopInterpreter
<1> QED
  BY <1>1, <1>2, <1>3, <1>4, <1>5, <1>6, <1>7, <1>8, <1>9
     DEF Interpreter, runtimeError

\* Nor does the host, between two runs.
LEMMA HostInv ==
  ASSUME TypeOK, CallInv, Host
  PROVE  CallInv'
<1> USE DjuruAssumption
    DEF TypeOK, CallInv, FreshDjuru, FocusInv, LinkInv, ChainInv, SlotsInv,
        Focused, Active, Live, State, Entry, HostIdle
<1>1. ASSUME NEW d \in Djuru, MSCInterpret(d) PROVE CallInv'
  BY <1>1 DEF MSCInterpret
<1>2. ASSUME NEW d \in Djuru, MSCEnsureSlots(d) PROVE CallInv'
  BY <1>2 DEF MSCEnsureSlots
<1>3. CASE MSCCall
  BY <1>3 DEF MSCCall
<1> QED
  BY <1>1, <1>2, <1>3 DEF Host

\* Scripts that do not transfer keep the caller fields sound chains.
THEOREM ChainsStaySound == CallSpec => []CallInv
<1>1. Init => CallInv
  BY DjuruAssumption
     DEF Init, CallInv, FreshDjuru, FocusInv, LinkInv, ChainInv, SlotsInv,
         Focused, Active, Live
<1>2. TypeOK /\ CallInv /\ [CallNext]_vars => CallInv'
  <2>1. TypeOK /\ CallInv /\ UNCHANGED vars => CallInv'
    BY DEF vars, CallInv, FreshDjuru, FocusInv, LinkInv, ChainInv, SlotsInv,
           Focused, Active, Live
  <2> QED
    BY <2>1, HostInv, CallPrimitiveInv, InterpreterInv DEF CallNext
<1> QED
  BY <1>1, <1>2, CallTypeCorrect, PTL DEF CallSpec

\* A return loads the frame of a djuru that has one: what it gives its value to
\* is alive.
THEOREM DeadNeverRuns == CallSpec => []NeverCrashes
<1>1. TypeOK /\ CallInv => NeverCrashes
  BY DjuruAssumption DEF TypeOK, CallInv, FocusInv, NeverCrashes, Running, Focused, Active
<1> QED
  BY <1>1, CallTypeCorrect, ChainsStaySound, PTL

\* The error walk unhooks what it aborts: the code of an aborted djuru is never
\* executed again.
THEOREM AbortedNeverRuns == CallSpec => []NeverRunsAborted
<1>1. TypeOK /\ CallInv => NeverRunsAborted
  BY DjuruAssumption DEF TypeOK, CallInv, FocusInv, NeverRunsAborted, Running, Focused, Active
<1> QED
  BY <1>1, CallTypeCorrect, ChainsStaySound, PTL

\* A live djuru's caller is live and waits for it alone.
THEOREM WaitingCallers == CallSpec => []CallersWait
<1>1. TypeOK /\ CallInv => CallersWait
  <2> SUFFICES ASSUME TypeOK, CallInv, NEW d \in Djuru, Live(d),
                      caller[d] # None
               PROVE  /\ Live(caller[d])
                      /\ Running => caller[d] # cur
                      /\ \A e \in Djuru \ {d} : Live(e) => caller[e] # caller[d]
    BY DEF CallersWait
  <2>1. Active(d) /\ caller[d] \in Djuru
    BY DEF Active, Live, TypeOK
  <2>2. /\ Live(caller[d]) /\ ~Focused(caller[d])
        /\ \A e \in Djuru : Active(e) /\ caller[e] = caller[d] => e = d
    BY <2>1 DEF CallInv, LinkInv
  <2> QED
    BY <2>1, <2>2 DEF Focused, Running, Active, Live
<1> QED
  BY <1>1, CallTypeCorrect, ChainsStaySound, PTL

\* A run that ends by a return ends in the djuru the host entered.
THEOREM HostResult == CallSpec => HostGetsOwnResult
<1>1. TypeOK /\ CallInv /\ [CallNext]_vars
        => [ReturnToHost => state[cur] = "root"]_vars
  BY DEF TypeOK, CallInv, FocusInv, ChainInv, Focused, Active, Running,
         ReturnToHost
<1> QED
  BY <1>1, CallTypeCorrect, ChainsStaySound, PTL DEF CallSpec, HostGetsOwnResult

------------------------------------------------------------------------------
(* Every script, with or without transfers.                                 *)

\* A djuru with frames that was tried has a caller; only allocated djurus run
\* and call, and the others have the state MSCDjuruFrom will give them.
TryInv ==
  /\ cur \in made \union {None}
  /\ walker \in made \union {None}
  /\ \A d \in Djuru :
       /\ frames[d] > 0 /\ state[d] = "try" => caller[d] # None
       /\ caller[d] \in made \union {None}
       /\ d \notin made => state[d] = "other"

\* The djuru that runs has a frame: otherwise the interpreter has crashed.
RunsWithFrame == Running => frames[cur] > 0

LEMMA RunsFramed == Spec => []RunsWithFrame
<1>1. Init => RunsWithFrame
  BY DEF Init, RunsWithFrame, Running
<1>2. TypeOK /\ RunsWithFrame /\ [Next]_vars => RunsWithFrame'
  <2> SUFFICES ASSUME TypeOK, RunsWithFrame, [Next]_vars, Running'
               PROVE  frames'[cur'] > 0
    BY DEF RunsWithFrame
  <2> USE DEF TypeOK, RunsWithFrame, Running
  <2>1. CASE Host
    BY <2>1 DEF Host, MSCInterpret, MSCEnsureSlots, MSCCall, HostIdle
  <2>2. CASE CallPrimitive
    <3>1. CASE djuru_yield
      <4>1. YieldToCaller /\ frames' = frames
        BY <3>1 DEF djuru_yield, YieldToCaller
      <4>2. caller[cur] \in Djuru
        <5>1. caller[cur] # None
          BY <4>1 DEF YieldToCaller, StopInterpreter
        <5> QED
          BY <3>1, <5>1 DEF djuru_yield
      <4>3. caller[cur] \notin aborted
        BY <4>1, <4>2, DjuruAssumption DEF YieldToCaller, StopInterpreter
      <4>4. Resume(caller[cur], frames[caller[cur]])
        BY <4>1, <4>2, <4>3, DjuruAssumption DEF YieldToCaller
      <4>5. frames[caller[cur]] # 0 /\ cur' = caller[cur]
        BY <4>4 DEF Resume
      <4> QED
        BY <4>1, <4>2, <4>5
    <3>2. CASE djuru_suspend
      BY <3>2 DEF djuru_suspend, StopInterpreter
    <3>3. ASSUME NEW d \in Djuru, djuru_new(d) PROVE frames'[cur'] > 0
      BY <3>3 DEF djuru_new
    <3>4. ASSUME NEW t \in Djuru, djuru_call(t) \/ djuru_try(t)
          PROVE  frames'[cur'] > 0
      BY <3>4, DjuruAssumption DEF djuru_call, djuru_try, RunCalled, SwitchTo, Fail
    <3> QED
      BY <2>2, <3>1, <3>2, <3>3, <3>4 DEF CallPrimitive
  <2>3. CASE TransferPrimitive
    BY <2>3, DjuruAssumption
       DEF TransferPrimitive, djuru_transfer, djuru_transferError, SwitchTo,
           Fail, Known
  <2>4. CASE Interpreter
    <3>1. CASE callFunction
      BY <3>1 DEF callFunction
    <3>2. CASE ReturnToFrame
      <4>1. cur' = cur /\ cur \in Djuru /\ frames'[cur] = frames[cur] - 1
        BY <3>2 DEF ReturnToFrame
      <4> QED
        BY <3>2, <4>1 DEF ReturnToFrame
    <3>3. CASE ReturnToHost
      BY <3>3 DEF ReturnToHost
    <3>4. CASE ReturnToCaller
      <4>1. caller[cur] \in Djuru /\ cur \in Djuru /\ cur' = caller[cur]
        BY <3>4 DEF ReturnToCaller, Resume
      <4>2. caller[cur] # cur /\ frames[caller[cur]] # 0
        BY <3>4 DEF ReturnToCaller, Resume
      <4>3. frames'[cur'] = frames[cur']
        BY <3>4, <4>1, <4>2 DEF ReturnToCaller
      <4> QED
        BY <4>1, <4>2, <4>3
    <3>5. CASE RuntimeFailure
      BY <3>5, DjuruAssumption DEF RuntimeFailure, Fail
    <3>6. CASE runtimeError
      <4>1. CASE CatchError
        <5>1. caller[walker] \in Djuru /\ frames' = frames
          BY <4>1 DEF CatchError, Unwinding
        <5>2. frames[caller[walker]] # 0 /\ cur' = caller[walker]
          BY <4>1 DEF CatchError, Resume
        <5> QED
          BY <5>1, <5>2
      <4>2. CASE UnwindCaller \/ CatchWithoutCaller \/ UncaughtError
        BY <4>2 DEF UnwindCaller, CatchWithoutCaller, UncaughtError,
                    StopInterpreter, Unwinding
      <4> QED
        BY <3>6, <4>1, <4>2 DEF runtimeError
    <3> QED
      BY <2>4, <3>1, <3>2, <3>3, <3>4, <3>5, <3>6 DEF Interpreter
  <2>5. CASE UNCHANGED vars
    BY <2>5 DEF vars
  <2> QED
    BY <2>1, <2>2, <2>3, <2>4, <2>5 DEF Next, CallNext
<1> QED
  BY <1>1, <1>2, TypeCorrect, PTL DEF Spec

LEMMA TryStep ==
  ASSUME TypeOK, TryInv, RunsWithFrame, [Next]_vars
  PROVE  TryInv'
<1> USE DjuruAssumption
    DEF TypeOK, TryInv, State, Abort, Unhook, ResetState, MarkTried
<1>1. CASE Host
  <2>1. ASSUME NEW d \in Djuru, MSCInterpret(d) PROVE TryInv'
    BY <2>1 DEF MSCInterpret
  <2>2. ASSUME NEW d \in Djuru, MSCEnsureSlots(d) PROVE TryInv'
    BY <2>2 DEF MSCEnsureSlots
  <2>3. CASE MSCCall
    BY <2>3 DEF MSCCall
  <2> QED
    BY <1>1, <2>1, <2>2, <2>3 DEF Host
<1>2. CASE CallPrimitive
  <2> USE DEF Running
  <2>1. ASSUME NEW d \in Djuru, djuru_new(d) PROVE TryInv'
    BY <2>1 DEF djuru_new
  <2>2. ASSUME NEW t \in Djuru, djuru_call(t) PROVE TryInv'
    BY <2>2 DEF djuru_call, RunCalled, Claim, Known, SwitchTo, Fail
  <2>3. ASSUME NEW t \in Djuru, djuru_try(t) PROVE TryInv'
    BY <2>3 DEF djuru_try, RunCalled, MarkTried, Claim, Known, SwitchTo, Fail
  <2>4. CASE djuru_yield
    BY <2>4 DEF djuru_yield, YieldToCaller, StopInterpreter,
                Resume
  <2>5. CASE djuru_suspend
    BY <2>5 DEF djuru_suspend, StopInterpreter
  <2> QED
    BY <1>2, <2>1, <2>2, <2>3, <2>4, <2>5 DEF CallPrimitive
<1>3. CASE TransferPrimitive
  BY <1>3 DEF TransferPrimitive, djuru_transfer, djuru_transferError, Known,
              SwitchTo, Fail, Running
<1>4. CASE Interpreter
  <2> USE DEF Running, Unwinding
  <2>1. CASE callFunction
    BY <2>1 DEF callFunction, RunsWithFrame
  <2>2. CASE ReturnToFrame
    BY <2>2 DEF ReturnToFrame
  <2>3. CASE ReturnToHost
    BY <2>3 DEF ReturnToHost
  <2>4. CASE ReturnToCaller
    BY <2>4 DEF ReturnToCaller, Resume
  <2>5. CASE RuntimeFailure
    BY <2>5 DEF RuntimeFailure, Fail
  <2>6. CASE UnwindCaller
    BY <2>6 DEF UnwindCaller
  <2>7. CASE CatchError
    BY <2>7 DEF CatchError, Resume
  <2>8. CASE CatchWithoutCaller \/ UncaughtError
    BY <2>8 DEF CatchWithoutCaller, UncaughtError, StopInterpreter
  <2> QED
    BY <1>4, <2>1, <2>2, <2>3, <2>4, <2>5, <2>6, <2>7, <2>8
       DEF Interpreter, runtimeError
<1>5. CASE UNCHANGED vars
  BY <1>5 DEF vars
<1> QED
  BY <1>1, <1>2, <1>3, <1>4, <1>5 DEF Next, CallNext

\* Whatever the transfers, runtimeError finds a caller to hand the error to
\* when it stops at a live djuru that was tried.
THEOREM TriedCaller == Spec => []TriedHasCaller
<1>1. Init => TryInv
  BY DEF Init, TryInv
<1>2. TypeOK /\ TryInv /\ RunsWithFrame /\ [Next]_vars => TryInv'
  BY TryStep
<1>3. TryInv => TriedHasCaller
  BY DEF TryInv, TriedHasCaller, Live
<1> QED
  BY <1>1, <1>2, <1>3, TypeCorrect, RunsFramed, PTL DEF Spec


------------------------------------------------------------------------------
(* The stack of djurus. Between steps of a script that does not transfer,   *)
(* the callers from the djuru at work on form a sequence, and the abstract  *)
(* stack is that sequence.                                                  *)

\* Djurus as stack entries.
Entries(s, states) == [i \in 1 .. Len(s) |-> [djuru |-> s[i], tried |-> states[s[i]] = "try"]]

\* A sequence of djurus from top on, each the caller of the one before.
Callers(s, top, callers) ==
  /\ top = IF s = <<>> THEN None ELSE s[1]
  /\ \A i \in 1 .. Len(s) : callers[s[i]] = IF i = Len(s) THEN None ELSE s[i + 1]

\* Following the callers gives such a sequence, if it is not longer than n.
LEMMA ChainFollows ==
  ASSUME NEW s \in Seq(Djuru), NEW top, NEW callers, NEW states, NEW n \in Nat,
         Callers(s, top, callers), Len(s) <= n
  PROVE  Chain(top, callers, states, n) = Entries(s, states)
<1> DEFINE next(f, i) == IF i = 1 THEN top
                         ELSE IF f[i - 1] = None THEN None ELSE callers[f[i - 1]]
           Nth(f) == f = [i \in 1 .. n |-> next(f, i)]
           known == [i \in 1 .. n |-> IF i <= Len(s) THEN s[i] ELSE None]
<1>1. Len(s) \in Nat /\ \A i \in 1 .. Len(s) : s[i] \in Djuru /\ s[i] # None
  BY DjuruAssumption
<1>2. ASSUME NEW i \in 1 .. n PROVE known[i] = next(known, i)
  <2>1. CASE i = 1
    BY <1>1, <2>1 DEF Callers
  <2>2. CASE i > 1
    <3>1. i - 1 \in 1 .. n /\ known[i - 1] = IF i - 1 <= Len(s) THEN s[i - 1] ELSE None
      BY <2>2
    <3>2. CASE i - 1 <= Len(s)
      <4>1. i - 1 \in 1 .. Len(s) /\ (i - 1) + 1 = i /\ (i - 1 = Len(s) <=> ~(i <= Len(s)))
        BY <1>1, <2>2, <3>2
      <4>2. known[i - 1] = s[i - 1] /\ known[i - 1] # None
        BY <1>1, <3>1, <3>2, <4>1
      <4> QED
        BY <2>2, <4>1, <4>2 DEF Callers
    <3>3. CASE ~(i - 1 <= Len(s))
      <4>1. ~(i <= Len(s))
        BY <1>1, <3>3
      <4> QED
        BY <2>2, <3>1, <3>3, <4>1
    <3> QED
      BY <3>2, <3>3
  <2> QED
    BY <2>1, <2>2
<1>3. ASSUME NEW f, Nth(f) PROVE \A i \in 1 .. n : f[i] = known[i]
  <2> DEFINE T == {i \in Nat : i + 1 \in 1 .. n => f[i + 1] = known[i + 1]}
  <2>1. \A i \in 1 .. n : f[i] = next(f, i)
    BY <1>3
  <2> HIDE DEF known
  <2>2. 0 \in T
    BY <1>2, <2>1
  <2>3. ASSUME NEW i \in Nat, i \in T PROVE i + 1 \in T
    <3>1. ASSUME (i + 1) + 1 \in 1 .. n PROVE f[(i + 1) + 1] = known[(i + 1) + 1]
      <4>1. i + 1 \in 1 .. n /\ ((i + 1) + 1) - 1 = i + 1 /\ (i + 1) + 1 # 1
        BY <3>1
      <4>2. f[i + 1] = known[i + 1]
        BY <2>3, <4>1
      <4>3. f[(i + 1) + 1] = next(f, (i + 1) + 1) /\ known[(i + 1) + 1] = next(known, (i + 1) + 1)
        BY <1>2, <2>1, <3>1
      <4> QED
        BY <4>1, <4>2, <4>3
    <3> QED
      BY <3>1
  <2>4. ASSUME NEW i \in 1 .. n PROVE f[i] = known[i]
    <3> HIDE DEF T
    <3>1. i - 1 \in Nat /\ (i - 1) + 1 = i
      OBVIOUS
    <3>2. i - 1 \in T
      BY <2>2, <2>3, <3>1, NumbersByInduction
    <3> QED
      BY <3>1, <3>2 DEF T
  <2> QED
    BY <2>4
<1>4. PICK nth : nth = CHOOSE f : Nth(f)
  OBVIOUS
<1>5. Nth(known)
  <2>1. PICK g : g = [i \in 1 .. n |-> next(known, i)]
    OBVIOUS
  <2> QED
    BY <1>2, <2>1
<1>6. Nth(nth)
  <2> HIDE DEF Nth
  <2> QED
    BY <1>4, <1>5
<1>7. \A i \in 1 .. n : nth[i] = known[i]
  BY <1>3, <1>6
<1>8. Chain(top, callers, states, n) =
        [i \in {j \in 1 .. n : nth[j] # None} |-> [djuru |-> nth[i], tried |-> states[nth[i]] = "try"]]
  BY <1>4 DEF Chain
<1>9. {j \in 1 .. n : nth[j] # None} = 1 .. Len(s)
  BY <1>1, <1>7
<1>10. \A i \in 1 .. Len(s) : nth[i] = s[i]
  BY <1>1, <1>7
<1> QED
  BY <1>8, <1>9, <1>10 DEF Entries

\* No sequence of different members of a set is longer than the set.
LEMMA NoLonger ==
  ASSUME NEW S, IsFiniteSet(S), NEW s \in Seq(S),
         \A i, j \in 1 .. Len(s) : s[i] = s[j] => i = j
  PROVE  Len(s) <= Cardinality(S) /\ Cardinality(S) \in Nat
<1>1. Len(s) \in Nat /\ s \in [1 .. Len(s) -> S] /\ Cardinality(S) \in Nat
  BY FS_CardinalityType
<1>2. IsFiniteSet(1 .. Len(s)) /\ Cardinality(1 .. Len(s)) = Len(s)
  <2> PICK n \in Nat : n = Len(s)
    BY <1>1
  <2>1. n \in Int /\ 1 \in Int
    OBVIOUS
  <2>2. IsFiniteSet(1 .. n) /\ Cardinality(1 .. n) = IF 1 > n THEN 0 ELSE n - 1 + 1
    BY Zenon, <2>1, FS_Interval
  <2>3. Cardinality(1 .. n) = n
    BY <2>2
  <2> QED
    BY <2>2, <2>3
<1>3. ~(Cardinality(S) < Len(s))
  BY <1>1, <1>2, FS_PigeonHole
<1> QED
  BY <1>1, <1>3

\* The callers of the djuru at work: different djurus, each with code left,
\* and none of those that wait aborted.
Chained(s) ==
  /\ s \in Seq(made)
  /\ Callers(s, Focus, caller)
  /\ \A i \in 1 .. Len(s) : frames[s[i]] > 0 /\ ran[s[i]] /\ (i > 1 => s[i] \notin aborted)
  /\ \A i, j \in 1 .. Len(s) : s[i] = s[j] => i = j
StackInv == IsFiniteSet(made) /\ \E s : Chained(s)

Over == aborted \union {d \in Djuru : Finished(d)}

LEMMA StackIs ==
  ASSUME NEW m \in SUBSET Djuru, IsFiniteSet(m), NEW s \in Seq(m),
         \A i, j \in 1 .. Len(s) : s[i] = s[j] => i = j,
         NEW top, NEW callers, NEW states, Callers(s, top, callers)
  PROVE  Chain(top, callers, states, Cardinality(m)) = Entries(s, states)
<1>1. s \in Seq(Djuru)
  OBVIOUS
<1>2. Len(s) <= Cardinality(m) /\ Cardinality(m) \in Nat
  BY NoLonger
<1> QED
  BY <1>1, <1>2, ChainFollows

\* How the entries change with the sequence.
LEMMA EntriesSame ==
  ASSUME NEW s \in Seq(Djuru), NEW old, NEW new, \A i \in 1 .. Len(s) : new[s[i]] = old[s[i]]
  PROVE  Entries(s, new) = Entries(s, old)
BY DEF Entries

LEMMA EntriesPopped ==
  ASSUME NEW s \in Seq(Djuru), s # <<>>, NEW old, NEW new,
         \A i \in 2 .. Len(s) : new[s[i]] = old[s[i]]
  PROVE  /\ Entries(Tail(s), new) = Tail(Entries(s, old)) /\ Entries(s, old) # <<>>
         /\ Head(Entries(s, old)) = [djuru |-> s[1], tried |-> old[s[1]] = "try"]
<1>1. PICK t, e : t = Tail(s) /\ e = Entries(s, old)
  OBVIOUS
<1>2. Len(t) = Len(s) - 1 /\ Len(s) \in Nat /\ Len(s) > 0 /\ \A i \in 1 .. Len(t) : t[i] = s[i + 1]
  BY <1>1
<1>3. /\ e \in Seq([djuru : Djuru, tried : BOOLEAN]) /\ Len(e) = Len(s)
      /\ \A i \in 1 .. Len(s) : e[i] = [djuru |-> s[i], tried |-> old[s[i]] = "try"]
  BY <1>1, <1>2 DEF Entries
<1>4. PICK u : u = Tail(e)
  OBVIOUS
<1>5. u = [i \in 1 .. Len(t) |-> u[i]] /\ \A i \in 1 .. Len(t) : u[i] = e[i + 1]
  <2>1. e # <<>> /\ u \in Seq([djuru : Djuru, tried : BOOLEAN]) /\ Len(u) = Len(t)
    BY <1>2, <1>3, <1>4
  <2>2. \A i \in 1 .. Len(u) : u[i] = e[i + 1]
    BY <1>3, <1>4, <2>1
  <2> QED
    BY <2>1, <2>2
<1>6. ASSUME NEW i \in 1 .. Len(t) PROVE u[i] = [djuru |-> t[i], tried |-> new[t[i]] = "try"]
  <2>1. i + 1 \in 1 .. Len(s) /\ i + 1 \in 2 .. Len(s) /\ t[i] = s[i + 1] /\ u[i] = e[i + 1]
    BY <1>2, <1>5
  <2>2. new[t[i]] = old[t[i]]
    BY <2>1
  <2> QED
    BY <1>3, <2>1, <2>2
<1>7. Entries(t, new) = u
  BY <1>5, <1>6 DEF Entries
<1>8. e # <<>> /\ Head(e) = e[1] /\ e[1] = [djuru |-> s[1], tried |-> old[s[1]] = "try"]
  BY <1>2, <1>3
<1> QED
  BY <1>1, <1>4, <1>7, <1>8

LEMMA EntriesPushed ==
  ASSUME NEW s \in Seq(Djuru), NEW d \in Djuru, NEW old, NEW new,
         \A i \in 1 .. Len(s) : new[s[i]] = old[s[i]]
  PROVE  Entries(<<d>> \o s, new) = <<[djuru |-> d, tried |-> new[d] = "try"]>> \o Entries(s, old)
<1>1. PICK t, e, h : t = <<d>> \o s /\ e = Entries(s, old) /\ h = [djuru |-> d, tried |-> new[d] = "try"]
  OBVIOUS
<1>2. Len(t) = Len(s) + 1 /\ Len(s) \in Nat /\ t[1] = d /\ \A i \in 1 .. Len(s) : t[i + 1] = s[i]
  BY <1>1
<1>3. /\ e \in Seq([djuru : Djuru, tried : BOOLEAN]) /\ Len(e) = Len(s)
      /\ \A i \in 1 .. Len(s) : e[i] = [djuru |-> s[i], tried |-> old[s[i]] = "try"]
  BY <1>1, <1>2 DEF Entries
<1>4. PICK u : u = <<h>> \o e
  OBVIOUS
<1>5. u = [i \in 1 .. Len(s) + 1 |-> u[i]] /\ u[1] = h /\ \A i \in 1 .. Len(s) : u[i + 1] = e[i]
  BY <1>1, <1>2, <1>3, <1>4
<1>6. ASSUME NEW i \in 1 .. Len(s) + 1 PROVE u[i] = [djuru |-> t[i], tried |-> new[t[i]] = "try"]
  <2>1. CASE i = 1
    BY <1>1, <1>2, <1>5, <2>1
  <2>2. CASE i # 1
    <3>1. i - 1 \in 1 .. Len(s) /\ (i - 1) + 1 = i
      BY <1>2, <2>2
    <3>2. u[i] = e[i - 1] /\ t[i] = s[i - 1]
      BY <1>2, <1>5, <3>1
    <3> QED
      BY <1>3, <3>1, <3>2
  <2> QED
    BY <2>1, <2>2
<1>7. Entries(t, new) = u
  BY <1>2, <1>5, <1>6 DEF Entries
<1> QED
  BY <1>1, <1>4, <1>7

\* How the sequence changes: it stays, loses or gains its first djuru, starts
\* with one djuru, or is left.
LEMMA ChainStays ==
  ASSUME NEW s, Chained(s), Focus' = Focus, made \subseteq made',
         \A i \in 1 .. Len(s) : /\ caller'[s[i]] = caller[s[i]] /\ frames'[s[i]] > 0 /\ ran'[s[i]]
                                /\ i > 1 => s[i] \notin aborted'
  PROVE  Chained(s)'
<1>1. s \in Seq(made') /\ \A i, j \in 1 .. Len(s) : s[i] = s[j] => i = j
  BY DEF Chained
<1>2. Callers(s, Focus', caller')
  BY DEF Chained, Callers
<1> QED
  BY <1>1, <1>2 DEF Chained

LEMMA ChainPopped ==
  ASSUME NEW s, Chained(s), s # <<>>, Focus' = caller[s[1]], made \subseteq made',
         \A i \in 2 .. Len(s) : /\ caller'[s[i]] = caller[s[i]] /\ frames'[s[i]] > 0 /\ ran'[s[i]]
                                /\ i > 2 => s[i] \notin aborted'
  PROVE  Chained(Tail(s))'
<1>1. PICK t : t = Tail(s)
  OBVIOUS
<1>2. s \in Seq(made) /\ Len(s) \in Nat /\ Len(s) > 0 /\ \A i, j \in 1 .. Len(s) : s[i] = s[j] => i = j
  BY DEF Chained
<1>3. t \in Seq(made) /\ Len(t) = Len(s) - 1 /\ \A i \in 1 .. Len(t) : t[i] = s[i + 1]
  BY <1>1, <1>2
<1>4. ASSUME NEW i \in 1 .. Len(t)
      PROVE  /\ caller'[t[i]] = IF i = Len(t) THEN None ELSE t[i + 1]
             /\ frames'[t[i]] > 0 /\ ran'[t[i]] /\ (i > 1 => t[i] \notin aborted')
  <2>1. i + 1 \in 2 .. Len(s) /\ i + 1 \in 1 .. Len(s) /\ t[i] = s[i + 1] /\ (i > 1 => i + 1 > 2)
    BY <1>2, <1>3
  <2>2. caller[s[i + 1]] = IF i + 1 = Len(s) THEN None ELSE s[(i + 1) + 1]
    BY <2>1 DEF Chained, Callers
  <2>3. (i + 1 = Len(s) <=> i = Len(t)) /\ (i # Len(t) => t[i + 1] = s[(i + 1) + 1])
    BY <1>2, <1>3
  <2> QED
    BY <2>1, <2>2, <2>3
<1>5. Focus' = IF t = <<>> THEN None ELSE t[1]
  <2>1. caller[s[1]] = IF 1 = Len(s) THEN None ELSE s[1 + 1]
    <3>1. 1 \in 1 .. Len(s)
      BY <1>2
    <3> QED
      BY <3>1 DEF Chained, Callers
  <2>2. (1 = Len(s) <=> t = <<>>) /\ (1 # Len(s) => t[1] = s[1 + 1])
    BY <1>2, <1>3
  <2> QED
    BY <2>1, <2>2
<1>6. ASSUME NEW i \in 1 .. Len(t), NEW j \in 1 .. Len(t), t[i] = t[j] PROVE i = j
  <2>1. i + 1 \in 1 .. Len(s) /\ j + 1 \in 1 .. Len(s) /\ s[i + 1] = s[j + 1]
    <3>1. i + 1 \in 1 .. Len(s) /\ j + 1 \in 1 .. Len(s)
      BY <1>2, <1>3
    <3>2. t[i] = s[i + 1] /\ t[j] = s[j + 1]
      BY <1>3
    <3> QED
      BY <1>6, <3>1, <3>2
  <2>2. i + 1 = j + 1
    BY <1>2, <2>1
  <2> QED
    BY <2>2
<1>7. t \in Seq(made')
  BY <1>3
<1> QED
  BY <1>1, <1>4, <1>5, <1>6, <1>7 DEF Chained, Callers

LEMMA ChainPushed ==
  ASSUME NEW s, Chained(s), s # <<>>, NEW d \in made, Focus' = d, made \subseteq made',
         caller'[d] = Focus, frames'[d] > 0, ran'[d],
         \A i \in 1 .. Len(s) : /\ s[i] # d
                                /\ caller'[s[i]] = caller[s[i]] /\ frames'[s[i]] > 0 /\ ran'[s[i]]
                                /\ s[i] \notin aborted'
  PROVE  Chained(<<d>> \o s)'
<1>1. PICK t : t = <<d>> \o s
  OBVIOUS
<1>2. s \in Seq(made) /\ Len(s) \in Nat /\ Len(s) > 0 /\ \A i, j \in 1 .. Len(s) : s[i] = s[j] => i = j
  BY DEF Chained
<1>3. /\ t \in Seq(made) /\ Len(t) = Len(s) + 1 /\ t # <<>> /\ t[1] = d
      /\ \A i \in 1 .. Len(s) : t[i + 1] = s[i]
  BY <1>1, <1>2
<1>4. \A i \in 1 .. Len(t) : i = 1 \/ (i - 1 \in 1 .. Len(s) /\ t[i] = s[i - 1])
  <2>1. ASSUME NEW i \in 1 .. Len(t), i # 1 PROVE i - 1 \in 1 .. Len(s) /\ (i - 1) + 1 = i
    BY <1>2, <1>3, <2>1
  <2> QED
    BY <1>3, <2>1
<1>5. ASSUME NEW i \in 1 .. Len(t)
      PROVE  /\ caller'[t[i]] = IF i = Len(t) THEN None ELSE t[i + 1]
             /\ frames'[t[i]] > 0 /\ ran'[t[i]] /\ (i > 1 => t[i] \notin aborted')
  <2>1. CASE i = 1
    <3>1. i # Len(t) /\ t[i + 1] = s[1] /\ Focus = s[1]
      BY <1>2, <1>3, <2>1 DEF Chained, Callers
    <3> QED
      BY <1>3, <2>1, <3>1
  <2>2. CASE i # 1
    <3>1. i - 1 \in 1 .. Len(s) /\ t[i] = s[i - 1] /\ (i - 1) + 1 = i
      BY <1>4, <2>2
    <3>2. caller[s[i - 1]] = IF i - 1 = Len(s) THEN None ELSE s[i]
      BY <3>1 DEF Chained, Callers
    <3>3. (i - 1 = Len(s) <=> i = Len(t)) /\ (i # Len(t) => t[i + 1] = s[i])
      BY <1>2, <1>3, <3>1
    <3> QED
      BY <3>1, <3>2, <3>3
  <2> QED
    BY <2>1, <2>2
<1>6. ASSUME NEW i \in 1 .. Len(t), NEW j \in 1 .. Len(t), t[i] = t[j] PROVE i = j
  <2>1. CASE i = 1 \/ j = 1
    BY <1>3, <1>4, <1>6, <2>1
  <2>2. CASE i # 1 /\ j # 1
    <3>1. i - 1 = j - 1
      BY <1>2, <1>4, <1>6, <2>2
    <3> QED
      BY <3>1
  <2> QED
    BY <2>1, <2>2
<1>7. t \in Seq(made')
  BY <1>3
<1> QED
  BY <1>1, <1>3, <1>5, <1>6, <1>7 DEF Chained, Callers

LEMMA ChainStarted ==
  ASSUME NEW d \in made', Focus' = d, caller'[d] = None, frames'[d] > 0, ran'[d]
  PROVE  Chained(<<d>>)'
<1>1. PICK t : t = <<d>>
  OBVIOUS
<1>2. t \in Seq(made') /\ Len(t) = 1 /\ t[1] = d /\ t # <<>>
  BY <1>1
<1>3. \A i \in 1 .. Len(t) : i = 1
  BY <1>2
<1> QED
  BY <1>1, <1>2, <1>3 DEF Chained, Callers

LEMMA ChainLeft == ASSUME Focus' = None PROVE Chained(<<>>)'
BY DEF Chained, Callers

\* Without a djuru at work there is no sequence.
LEMMA NoFocus ==
  ASSUME TypeOK, NEW s, Chained(s)
  PROVE  /\ s \in Seq(Djuru) /\ Len(s) \in Nat
         /\ s = <<>> <=> Focus = None
         /\ s # <<>> => Len(s) > 0 /\ 1 \in 1 .. Len(s) /\ s[1] = Focus /\ Focus \in made
         /\ \A i \in 1 .. Len(s) : s[i] \in made
<1>1. s \in Seq(made) /\ Len(s) \in Nat /\ made \subseteq Djuru /\ None \notin made
  BY DjuruAssumption DEF Chained, TypeOK
<1>2. s # <<>> => Len(s) > 0 /\ 1 \in 1 .. Len(s) /\ s[1] = Focus
  BY <1>1 DEF Chained, Callers
<1>3. \A i \in 1 .. Len(s) : s[i] \in made
  BY <1>1
<1>4. s = <<>> => Focus = None
  BY DEF Chained, Callers
<1> QED
  BY <1>1, <1>2, <1>3, <1>4

\* The abstract stack before and after a step.
Sound == TypeOK /\ CallInv /\ IsFiniteSet(made)
Depth == Cardinality(made)

LEMMA StackBefore ==
  ASSUME Sound, NEW s, Chained(s)
  PROVE  Chain(Focus, caller, state, Depth) = Entries(s, state)
<1>1. /\ made \in SUBSET Djuru /\ IsFiniteSet(made) /\ s \in Seq(made)
      /\ \A i, j \in 1 .. Len(s) : s[i] = s[j] => i = j
      /\ Callers(s, Focus, caller)
  BY DEF Sound, TypeOK, Chained
<1> QED
  BY <1>1, StackIs DEF Depth

LEMMA StackAfter ==
  ASSUME Sound', NEW s, Chained(s)'
  PROVE  Chain(Focus, caller, state, Depth)' = Entries(s, state')
<1>1. PICK m, top, callers, states : m = made' /\ top = Focus' /\ callers = caller' /\ states = state'
  OBVIOUS
<1>2. /\ m \in SUBSET Djuru /\ IsFiniteSet(m) /\ s \in Seq(m)
      /\ \A i, j \in 1 .. Len(s) : s[i] = s[j] => i = j
      /\ Callers(s, top, callers)
  BY <1>1 DEF Sound, TypeOK, Chained
<1>3. Chain(top, callers, states, Cardinality(m)) = Entries(s, states)
  BY <1>2, StackIs
<1> QED
  BY <1>1, <1>3 DEF Depth

\* A step that the stack does not show, and each of the stack's own.
LEMMA Shows_nothing ==
  ASSUME Sound, Sound', NEW s, Chained(s), Chained(s)',
         \A i \in 1 .. Len(s) : state'[s[i]] = state[s[i]],
         Unwinding' <=> Unwinding, Over' = Over
  PROVE  UNCHANGED Stack!vars
<1>1. s \in Seq(Djuru)
  BY NoFocus DEF Sound
<1>2. Entries(s, state') = Entries(s, state)
  BY <1>1, EntriesSame
<1>3. Chain(Focus, caller, state, Depth)' = Chain(Focus, caller, state, Depth)
  BY <1>2, StackBefore, StackAfter
<1>4. Unwinding' = Unwinding
  BY DEF Unwinding
<1> QED
  BY <1>3, <1>4 DEF Stack!vars, Over, Depth

LEMMA Shows_Throw ==
  ASSUME Sound, Sound', NEW s, Chained(s), Chained(s)', s # <<>>,
         \A i \in 1 .. Len(s) : state'[s[i]] = state[s[i]],
         ~Unwinding, Unwinding', Over' = Over \union {s[1]}
  PROVE  Stack!Next
<1>1. s \in Seq(Djuru)
  BY NoFocus DEF Sound
<1>2. PICK st : st = Chain(Focus, caller, state, Depth)
  OBVIOUS
<1>3. st = Entries(s, state) /\ Chain(Focus, caller, state, Depth)' = Entries(s, state')
  BY <1>2, StackBefore, StackAfter
<1>4. Chain(Focus, caller, state, Depth)' = st
  BY <1>1, <1>3, EntriesSame
<1>5. st # <<>> /\ Head(st).djuru = s[1]
  <2>1. st # <<>> /\ Head(st) = [djuru |-> s[1], tried |-> state[s[1]] = "try"]
    BY <1>1, <1>3, EntriesPopped
  <2> QED
    BY <2>1
<1>6. Stack!Throw
  BY <1>2, <1>4, <1>5 DEF Stack!Throw, Over, Depth
<1> QED
  BY <1>6 DEF Stack!Next

LEMMA Shows_pop ==
  ASSUME Sound, Sound', NEW s, Chained(s), Chained(Tail(s))', s # <<>>,
         \A i \in 2 .. Len(s) : state'[s[i]] = state[s[i]],
         \/ ~Unwinding /\ ~Unwinding' /\ (Over' = Over \/ Over' = Over \union {s[1]})
         \/ /\ Unwinding /\ Over' = Over \union {s[1]}
            /\ Unwinding' <=> state[s[1]] # "try" /\ Tail(s) # <<>>
  PROVE  Stack!Next
<1>1. s \in Seq(Djuru) /\ Len(s) \in Nat /\ Len(s) > 0
  BY NoFocus DEF Sound
<1>2. PICK st, st2, ov, ov2, t :
        /\ st = Chain(Focus, caller, state, Depth) /\ st2 = Chain(Focus, caller, state, Depth)'
        /\ ov = Over /\ ov2 = Over' /\ t = Tail(s)
  OBVIOUS
<1>3. st = Entries(s, state) /\ st2 = Entries(t, state')
  BY <1>2, StackBefore, StackAfter
<1>4. st2 = Tail(st) /\ st # <<>> /\ Head(st) = [djuru |-> s[1], tried |-> state[s[1]] = "try"]
  BY <1>1, <1>2, <1>3, EntriesPopped
<1>5. st2 = <<>> <=> t = <<>>
  <2>1. t \in Seq(Djuru) /\ Len(t) \in Nat
    BY <1>1, <1>2
  <2>2. t = <<>> => Entries(t, state') = <<>>
    BY DEF Entries
  <2>3. t # <<>> => Entries(t, state') # <<>>
    BY <2>1, EntriesPopped
  <2> QED
    BY <1>3, <2>2, <2>3
<1>6. Head(st).djuru = s[1] /\ Head(st).tried = (state[s[1]] = "try")
  BY <1>4
<1>7. CASE ~Unwinding /\ ~Unwinding' /\ ov2 = ov
  <2>1. UNCHANGED Unwinding
    BY <1>7 DEF Unwinding
  <2>2. Stack!Yield
    BY <1>2, <1>4, <1>7, <2>1 DEF Stack!Yield, Over, Depth
  <2> QED
    BY <2>2 DEF Stack!Next
<1>8. CASE ~Unwinding /\ ~Unwinding' /\ ov2 = ov \union {s[1]}
  <2>1. UNCHANGED Unwinding
    BY <1>8 DEF Unwinding
  <2>2. Stack!Return
    BY <1>2, <1>4, <1>6, <1>8, <2>1 DEF Stack!Return, Over, Depth
  <2> QED
    BY <2>2 DEF Stack!Next
<1>9. CASE /\ Unwinding /\ ov2 = ov \union {s[1]}
           /\ Unwinding' <=> state[s[1]] # "try" /\ Tail(s) # <<>>
  <2>1. Unwinding' = (~Head(st).tried /\ st2 # <<>>)
    BY <1>2, <1>5, <1>6, <1>9 DEF Unwinding
  <2>2. Stack!Unwind
    BY <1>2, <1>4, <1>6, <1>9, <2>1 DEF Stack!Unwind, Over, Depth
  <2> QED
    BY <2>2 DEF Stack!Next
<1> QED
  BY <1>2, <1>7, <1>8, <1>9

LEMMA Shows_Suspend ==
  ASSUME Sound, Sound', NEW s, Chained(s), s # <<>>, Chained(<<>>)',
         ~Unwinding, ~Unwinding', Over' = Over
  PROVE  Stack!Next
<1>1. s \in Seq(Djuru)
  BY NoFocus DEF Sound
<1>2. Chain(Focus, caller, state, Depth) = Entries(s, state) /\ Chain(Focus, caller, state, Depth)' = Entries(<<>>, state')
  BY StackBefore, StackAfter
<1>3. Entries(<<>>, state') = <<>> /\ Entries(s, state) # <<>>
  BY <1>1, EntriesPopped DEF Entries
<1>4. UNCHANGED Unwinding
  BY DEF Unwinding
<1>5. Stack!Suspend
  BY <1>2, <1>3, <1>4 DEF Stack!Suspend, Over, Depth
<1> QED
  BY <1>5 DEF Stack!Next

LEMMA Shows_Call ==
  ASSUME Sound, Sound', NEW s, Chained(s), s # <<>>, NEW d \in Djuru \ Over,
         \A i \in 1 .. Len(s) : s[i] # d /\ state'[s[i]] = state[s[i]],
         Chained(<<d>> \o s)', ~Unwinding, ~Unwinding', Over' = Over
  PROVE  Stack!Next
<1>1. s \in Seq(Djuru)
  BY NoFocus DEF Sound
<1>2. PICK st, st2, ov, tried :
        /\ st = Chain(Focus, caller, state, Depth) /\ st2 = Chain(Focus, caller, state, Depth)'
        /\ ov = Over /\ tried = (state'[d] = "try")
  OBVIOUS
<1>3. st = Entries(s, state) /\ st2 = <<[djuru |-> d, tried |-> tried]>> \o st
  BY <1>1, <1>2, StackBefore, StackAfter, EntriesPushed
<1>4. st # <<>>
  BY <1>1, <1>3, EntriesPopped
<1>5. d \notin {st[i].djuru : i \in 1 .. Len(st)} \union ov
  <2>1. ASSUME NEW i \in 1 .. Len(st) PROVE st[i].djuru # d
    <3>1. Len(st) = Len(s) /\ st[i].djuru = s[i]
      BY <1>1, <1>3 DEF Entries
    <3> QED
      BY <3>1
  <2>2. d \notin ov
    BY <1>2
  <2> QED
    BY <2>1, <2>2
<1>6. UNCHANGED Unwinding
  BY DEF Unwinding
<1>7. Stack!Call(d, tried)
  <2>1. d \notin Stack!OnStack \union Over
    BY <1>2, <1>5 DEF Stack!OnStack, Depth
  <2>2. ~Unwinding /\ UNCHANGED <<Unwinding, Over>>
    BY <1>6
  <2> QED
    BY <1>2, <1>3, <1>4, <2>1, <2>2 DEF Stack!Call, Over, Depth
<1>8. tried \in BOOLEAN
  BY <1>2
<1> QED
  BY <1>7, <1>8 DEF Stack!Next

LEMMA Shows_Enter ==
  ASSUME Sound, Sound', Focus = None, NEW s, Chained(s), NEW d \in Djuru, Chained(<<d>>)',
         state'[d] # "try", ~Unwinding, ~Unwinding', Over' = Over \ {d}
  PROVE  Stack!Next
<1>1. s = <<>>
  BY NoFocus DEF Sound
<1>2. Chain(Focus, caller, state, Depth) = Entries(<<>>, state) /\ Chain(Focus, caller, state, Depth)' = Entries(<<d>>, state')
  BY <1>1, StackBefore, StackAfter
<1>3. Entries(<<>>, state) = <<>>
  BY DEF Entries
<1>6. Entries(<<d>>, state') = <<[djuru |-> d, tried |-> FALSE]>>
  <2>1. PICK q, e : q = <<d>> /\ e = Entries(q, state')
    OBVIOUS
  <2>2. (state'[d] = "try") = FALSE
    OBVIOUS
  <2>3. Len(q) = 1 /\ q[1] = d
    BY <2>1
  <2>4. e = [i \in 1 .. 1 |-> [djuru |-> q[i], tried |-> state'[q[i]] = "try"]]
    BY <2>1, <2>3 DEF Entries
  <2>5. e = [i \in 1 .. 1 |-> e[i]] /\ e[1] = [djuru |-> d, tried |-> FALSE]
    <3>1. e[1] = [djuru |-> d, tried |-> state'[d] = "try"]
      BY <2>3, <2>4
    <3>2. PICK tried : tried = (state'[d] = "try")
      OBVIOUS
    <3>3. tried = FALSE
      BY <2>2, <3>2
    <3>4. e[1] = [djuru |-> d, tried |-> tried]
      BY <3>1, <3>2
    <3>5. e = [i \in 1 .. 1 |-> e[i]]
      BY <2>4
    <3> QED
      BY <3>3, <3>4, <3>5
  <2> QED
    BY <2>1, <2>5
<1>4. UNCHANGED Unwinding
  BY DEF Unwinding
<1>5. Stack!Enter(d)
  BY <1>2, <1>3, <1>4, <1>6 DEF Stack!Enter, Over, Depth
<1> QED
  BY <1>5 DEF Stack!Next

\* The djuru at work is the first of the sequence.
LEMMA AtWork ==
  ASSUME Sound, NEW s, Chained(s)
  PROVE  /\ entry = "idle" => s = <<>> /\ Focus = None /\ ~Unwinding /\ ~Running /\ walker = None
         /\ Running => /\ s # <<>> /\ s[1] = cur /\ Focus = cur /\ ~Unwinding /\ walker = None
                       /\ cur \in Djuru /\ cur \in made /\ frames[cur] > 0 /\ ran[cur] /\ cur \notin aborted
         /\ Unwinding => /\ s # <<>> /\ s[1] = walker /\ Focus = walker /\ ~Running
                         /\ walker \in Djuru /\ walker \in made /\ frames[walker] > 0 /\ ran[walker]
<1>1. ~crashed /\ (entry = "idle" => walker = None)
  BY DEF Sound, CallInv, FocusInv
<1>2. TypeOK
  BY DEF Sound
<1>3. CASE entry = "idle"
  <2>1. Focus = None /\ ~Unwinding /\ ~Running /\ walker = None
    BY <1>1, <1>3 DEF Focus, Unwinding, Running
  <2> QED
    BY <1>2, <1>3, <2>1, NoFocus
<1>4. CASE Running
  <2>1. Focus = cur /\ ~Unwinding /\ walker = None /\ cur \in Djuru /\ entry # "idle"
    BY <1>2, <1>4 DEF Focus, Unwinding, Running, TypeOK
  <2>2. s # <<>> /\ s[1] = cur /\ 1 \in 1 .. Len(s)
    BY <1>2, <2>1, NoFocus, DjuruAssumption
  <2>3. frames[cur] > 0 /\ ran[cur] /\ cur \in made
    BY <1>2, <2>2, NoFocus DEF Chained
  <2>4. cur \notin aborted
    BY <2>1, DjuruAssumption DEF Sound, CallInv, FocusInv, Focused, Active
  <2> QED
    BY <1>4, <2>1, <2>2, <2>3, <2>4
<1>5. CASE Unwinding
  <2>1. Focus = walker /\ ~Running /\ walker \in Djuru /\ entry # "idle"
    BY <1>2, <1>5 DEF Focus, Unwinding, Running, TypeOK
  <2>2. s # <<>> /\ s[1] = walker /\ 1 \in 1 .. Len(s)
    BY <1>2, <2>1, NoFocus, DjuruAssumption
  <2>3. frames[walker] > 0 /\ ran[walker] /\ walker \in made
    BY <1>2, <2>2, NoFocus DEF Chained
  <2> QED
    BY <1>5, <2>1, <2>2, <2>3
<1> QED
  BY <1>1, <1>3, <1>4, <1>5 DEF Running, Unwinding

\* The others of the sequence wait.
LEMMA Waits ==
  ASSUME Sound, NEW s, Chained(s)
  PROVE  /\ \A i \in 1 .. Len(s) : /\ s[i] \in Djuru /\ s[i] \in made /\ frames[s[i]] > 0 /\ ran[s[i]]
                                   /\ i > 1 => s[i] \notin aborted
         /\ \A i \in 2 .. Len(s) : i \in 1 .. Len(s) /\ i > 1 /\ s[i] # s[1]
         /\ s # <<>> => /\ caller[s[1]] \in Djuru \union {None}
                        /\ caller[s[1]] # None => s[2] = caller[s[1]] /\ 2 \in 2 .. Len(s)
<1>1. TypeOK
  BY DEF Sound
<1>2. s \in Seq(Djuru) /\ Len(s) \in Nat /\ (s # <<>> => Len(s) > 0 /\ 1 \in 1 .. Len(s)) /\ \A i \in 1 .. Len(s) : s[i] \in made
  BY <1>1, NoFocus
<1>3. \A i \in 1 .. Len(s) : frames[s[i]] > 0 /\ ran[s[i]] /\ (i > 1 => s[i] \notin aborted)
  BY DEF Chained
<1>4. ASSUME NEW i \in 2 .. Len(s) PROVE i \in 1 .. Len(s) /\ i > 1 /\ s[i] # s[1]
  <2>1. i \in 1 .. Len(s) /\ 1 \in 1 .. Len(s) /\ i # 1 /\ i > 1
    BY <1>2
  <2> QED
    BY <2>1 DEF Chained
<1>5. ASSUME s # <<>>
      PROVE  /\ caller[s[1]] \in Djuru \union {None}
             /\ caller[s[1]] # None => s[2] = caller[s[1]] /\ 2 \in 2 .. Len(s)
  <2>0. PICK n : n = Len(s)
    OBVIOUS
  <2>1. caller[s[1]] = IF 1 = n THEN None ELSE s[1 + 1]
    BY <1>2, <1>5, <2>0 DEF Chained, Callers
  <2>2. CASE n = 1
    BY <2>1, <2>2
  <2>3. CASE n # 1
    <3>1. 2 \in 2 .. n /\ 2 \in 1 .. n /\ 1 + 1 = 2
      BY <1>2, <1>5, <2>0, <2>3
    <3> QED
      BY <1>2, <2>0, <2>1, <2>3, <3>1
  <2> QED
    BY <2>2, <2>3
<1> QED
  BY <1>2, <1>3, <1>4, <1>5

Follows == (\E t : Chained(t)') /\ (Stack!Next \/ UNCHANGED Stack!vars)

\* What each step of the virtual machine is to the stack.
LEMMA HostSteps == ASSUME Sound, Sound', NEW s, Chained(s), Host PROVE Follows
<1>1. entry = "idle" /\ s = <<>> /\ Focus = None /\ ~Unwinding /\ walker = None /\ ~crashed
  BY AtWork DEF Host, MSCInterpret, MSCEnsureSlots, MSCCall, HostIdle
<1>2. ASSUME NEW d \in Djuru, MSCInterpret(d) PROVE Follows
  <2>1. d \notin made /\ caller[d] = None /\ d \notin aborted
    BY <1>2 DEF MSCInterpret, Sound, CallInv, FreshDjuru
  <2>2. Focus' = d /\ ~Unwinding'
    BY <1>1, <1>2, DjuruAssumption DEF MSCInterpret, Focus, Unwinding, Running
  <2>3. d \in made' /\ caller'[d] = None /\ frames'[d] > 0 /\ ran'[d] /\ state'[d] # "try"
    BY <1>2, <2>1 DEF MSCInterpret, Sound, TypeOK
  <2>4. Chained(<<d>>)'
    BY <2>2, <2>3, ChainStarted
  <2>5. Over' = Over \ {d}
    BY <1>2, <2>1 DEF MSCInterpret, Over, Finished, Known, Sound, TypeOK
  <2> QED
    BY <1>1, <2>2, <2>3, <2>4, <2>5, Shows_Enter DEF Follows
<1>3. ASSUME NEW d \in Djuru, MSCEnsureSlots(d) PROVE Follows
  <2>1. Focus' = None /\ ~Unwinding'
    BY <1>1, <1>3 DEF MSCEnsureSlots, Focus, Unwinding, Running
  <2>2. Chained(s)'
    BY <1>1, <2>1, ChainLeft
  <2>3. Over' = Over
    BY <1>3 DEF MSCEnsureSlots, Over, Finished, Known, Sound, TypeOK, CallInv, FreshDjuru
  <2>4. \A i \in 1 .. Len(s) : state'[s[i]] = state[s[i]]
    BY <1>3 DEF MSCEnsureSlots
  <2> QED
    BY <1>1, <2>1, <2>2, <2>3, <2>4, Shows_nothing DEF Follows
<1>4. CASE MSCCall
  <2>0. PICK d : d = cur
    OBVIOUS
  <2>1. d \in Djuru /\ d \in made /\ d \notin aborted /\ caller[d] = None
    BY <1>1, <1>4, <2>0 DEF MSCCall, Sound, TypeOK, CallInv, SlotsInv
  <2>2. Focus' = d /\ ~Unwinding'
    BY <1>1, <1>4, <2>0, DjuruAssumption DEF MSCCall, Focus, Unwinding, Running
  <2>3. d \in made' /\ caller'[d] = None /\ frames'[d] > 0 /\ ran'[d] /\ state'[d] # "try"
    BY <1>4, <2>0, <2>1 DEF MSCCall, Sound, TypeOK
  <2>4. Chained(<<d>>)'
    BY <2>2, <2>3, ChainStarted
  <2>5. Over' = Over \ {d}
    BY <1>4, <2>0, <2>1 DEF MSCCall, Over, Finished, Known, Sound, TypeOK
  <2> QED
    BY <1>1, <2>1, <2>2, <2>3, <2>4, <2>5, Shows_Enter DEF Follows
<1> QED
  BY <1>2, <1>3, <1>4 DEF Host

\* A primitive that fails starts the walk of runtimeError.
LEMMA Failing ==
  ASSUME Sound, Sound', NEW s, Chained(s), Running, Fail, UNCHANGED <<made, frames, ran, state>>,
         \A d \in Djuru : frames[d] > 0 => caller'[d] = caller[d]
  PROVE  Follows
<1>1. s # <<>> /\ s[1] = cur /\ Focus = cur /\ ~Unwinding /\ cur \in Djuru /\ entry # "idle" /\ ~crashed
  BY AtWork DEF Running
<1>2. Focus' = Focus /\ Unwinding'
  BY <1>1, DjuruAssumption DEF Fail, Focus, Unwinding
<1>3. \A i \in 1 .. Len(s) : /\ s[i] \in Djuru /\ frames[s[i]] > 0 /\ ran[s[i]]
                             /\ i > 1 => s[i] \notin aborted /\ i \in 2 .. Len(s)
  <2>1. Len(s) \in Nat
    BY NoFocus DEF Sound
  <2> QED
    BY <2>1, Waits
<1>4. \A i \in 1 .. Len(s) : i > 1 => s[i] # cur
  BY <1>1, <1>3, Waits
<1>5. Chained(s)'
  BY <1>1, <1>2, <1>3, <1>4, ChainStays DEF Fail, Abort
<1>6. Over' = Over \union {s[1]}
  BY <1>1 DEF Fail, Abort, Over, Finished, Known
<1> QED
  BY <1>1, <1>2, <1>5, <1>6, Shows_Throw DEF Follows

LEMMA CallSteps ==
  ASSUME Sound, Sound', NEW s, Chained(s), NEW t \in Djuru, djuru_call(t) \/ djuru_try(t)
  PROVE  Follows
<1>1. RunCalled(t) /\ Running /\ Known(t) /\ Claim(t) /\ UNCHANGED <<made, frames>>
  BY DEF djuru_call, djuru_try, RunCalled
<1>2. s # <<>> /\ s[1] = cur /\ Focus = cur /\ ~Unwinding /\ cur \in Djuru /\ walker = None
  BY <1>1, AtWork
<1>3. CASE MayClaim(t) /\ SwitchTo(t) /\ UNCHANGED <<walker, aborted>>
  <2>1. /\ frames[t] > 0 /\ t \notin aborted /\ caller[t] = None /\ state[t] # "root" /\ t \in made
        /\ caller' = [caller EXCEPT ![t] = cur] /\ ran' = [ran EXCEPT ![t] = TRUE]
        /\ cur' = t /\ UNCHANGED <<entry, api, crashed>>
    BY <1>1, <1>3 DEF MayClaim, SwitchTo, Claim, Known
  <2>2. Focus' = t /\ ~Unwinding'
    BY <1>1, <1>2, <1>3, <2>1, DjuruAssumption DEF Focus, Unwinding, Running
  \* t has no caller and is not the root: it is nowhere on the stack.
  <2>3. ASSUME NEW i \in 1 .. Len(s) PROVE s[i] # t
    <3>1. SUFFICES ASSUME s[i] = t PROVE FALSE
      OBVIOUS
    <3>2. Active(t)
      BY <2>1 DEF Active
    <3>3. CASE i = 1
      BY <1>1, <1>2, <2>1, <3>1, <3>2, <3>3 DEF Sound, CallInv, ChainInv, Focused, Running
    <3>4. CASE i # 1
      <4>1. i - 1 \in 1 .. Len(s) /\ (i - 1) + 1 = i /\ i - 1 # Len(s)
        <5>1. Len(s) \in Nat
          BY NoFocus DEF Sound
        <5> QED
          BY <3>4, <5>1
      <4>2. caller[s[i - 1]] = t /\ s[i - 1] \in Djuru /\ s[i - 1] \in made /\ frames[s[i - 1]] > 0
        BY <3>1, <4>1, Waits DEF Chained, Callers
      <4>3. s[i - 1] \notin aborted
        <5>1. CASE i - 1 = 1
          BY <1>1, <1>2, <5>1, AtWork
        <5>2. CASE i - 1 # 1
          BY <4>1, <5>2, Waits
        <5> QED
          BY <5>1, <5>2
      <4>4. Active(s[i - 1])
        BY <4>2, <4>3 DEF Active
      <4> QED
        BY <2>1, <3>2, <4>2, <4>4 DEF Sound, CallInv, ChainInv
    <3> QED
      BY <3>3, <3>4
  <2>4. \A i \in 1 .. Len(s) : /\ s[i] \in Djuru /\ frames[s[i]] > 0 /\ ran[s[i]]
                               /\ s[i] \notin aborted
    <3>1. \A i \in 1 .. Len(s) : i = 1 \/ i > 1
      OBVIOUS
    <3> QED
      BY <1>1, <1>2, <3>1, AtWork, Waits
  <2>5. \A i \in 1 .. Len(s) : caller'[s[i]] = caller[s[i]] /\ ran'[s[i]]
    BY <2>1, <2>3, <2>4 DEF Sound, TypeOK
  <2>6. caller'[t] = Focus /\ ran'[t] /\ frames'[t] > 0
    BY <1>1, <1>2, <2>1 DEF Sound, TypeOK
  <2>7. Chained(<<t>> \o s)'
    BY <1>1, <1>2, <1>3, <2>1, <2>2, <2>3, <2>4, <2>5, <2>6, ChainPushed
  <2>8. t \notin Over /\ Over' = Over
    BY <1>1, <1>3, <2>1 DEF Over, Finished, Known, Sound, TypeOK
  <2>9. \A i \in 1 .. Len(s) : s[i] # t /\ state'[s[i]] = state[s[i]]
    <3>1. state' = state \/ state' = [state EXCEPT ![t] = "try"]
      BY <2>1 DEF djuru_call, djuru_try, MarkTried
    <3> QED
      BY <2>3, <2>4, <3>1 DEF Sound, TypeOK
  <2> QED
    BY <1>2, <2>2, <2>7, <2>8, <2>9, Shows_Call DEF Follows
<1>4. CASE Fail /\ UNCHANGED ran /\ (~MayClaim(t) \/ frames[t] = 0)
  <2>1. state' = state
    BY <1>4 DEF djuru_call, djuru_try, MarkTried, Fail, Abort
  <2>2. \A d \in Djuru : frames[d] > 0 => caller'[d] = caller[d]
    BY <1>1, <1>4 DEF Claim, Sound, TypeOK
  <2> QED
    BY <1>1, <1>4, <2>1, <2>2, Failing
<1> QED
  BY <1>1, <1>3, <1>4 DEF RunCalled

LEMMA PrimitiveSteps == ASSUME Sound, Sound', NEW s, Chained(s), CallPrimitive PROVE Follows
<1>1. Running
  BY DEF CallPrimitive, djuru_new, djuru_call, djuru_try, RunCalled, djuru_yield, djuru_suspend
<1>2. /\ s # <<>> /\ s[1] = cur /\ Focus = cur /\ ~Unwinding /\ cur \in Djuru /\ walker = None
      /\ entry # "idle" /\ ~crashed
  BY <1>1, AtWork DEF Running
<1>3. ASSUME NEW d \in Djuru, djuru_new(d) PROVE Follows
  <2>1. Focus' = Focus /\ ~Unwinding'
    BY <1>1, <1>2, <1>3 DEF djuru_new, Focus, Unwinding, Running
  <2>2. \A i \in 1 .. Len(s) : s[i] \in Djuru /\ s[i] # d
    BY <1>3, Waits DEF djuru_new
  <2>3. Chained(s)'
    BY <1>3, <2>1, <2>2, Waits, ChainStays DEF djuru_new, Sound, TypeOK
  <2>4. Over' = Over
    BY <1>3 DEF djuru_new, Over, Finished, Known, Sound, TypeOK, CallInv, FreshDjuru
  <2>5. \A i \in 1 .. Len(s) : state'[s[i]] = state[s[i]]
    BY <1>3 DEF djuru_new
  <2> QED
    BY <1>2, <2>1, <2>3, <2>4, <2>5, Shows_nothing DEF Follows
<1>4. CASE djuru_yield
  <2>1. YieldToCaller
    BY <1>4 DEF djuru_yield
  <2>2. /\ caller' = [caller EXCEPT ![cur] = None] /\ state' = [state EXCEPT ![cur] = "other"]
        /\ UNCHANGED <<made, frames, ran, aborted>>
    BY <2>1 DEF YieldToCaller, Unhook, ResetState
  <2>3. Focus' = caller[s[1]] /\ ~Unwinding'
    <3>1. CASE caller[cur] = None
      BY <1>2, <2>1, <3>1 DEF YieldToCaller, StopInterpreter, Focus, Unwinding, Running
    <3>2. CASE caller[cur] # None
      <4>1. s[2] = caller[cur] /\ 2 \in 2 .. Len(s)
        BY <1>2, <3>2, Waits
      <4>2. caller[cur] \notin aborted /\ frames[caller[cur]] > 0 /\ caller[cur] \in Djuru
        BY <4>1, Waits
      <4>3. cur' = caller[cur] /\ crashed' = (frames[caller[cur]] = 0) /\ UNCHANGED <<entry, walker>>
        BY <2>1, <3>2, <4>2 DEF YieldToCaller, Resume
      <4>4. ~crashed'
        BY <1>1, <4>3 DEF Sound, CallInv, FocusInv
      <4> QED
        BY <1>2, <4>3, <4>4 DEF Focus, Unwinding, Running
    <3> QED
      BY <3>1, <3>2
  <2>4. \A i \in 2 .. Len(s) : /\ caller'[s[i]] = caller[s[i]] /\ state'[s[i]] = state[s[i]]
                               /\ frames'[s[i]] > 0 /\ ran'[s[i]] /\ s[i] \notin aborted'
    BY <1>2, <2>2, Waits DEF Sound, TypeOK
  <2>5. Chained(Tail(s))'
    BY <1>2, <2>2, <2>3, <2>4, ChainPopped
  <2>6. Over' = Over
    BY <2>2 DEF Over, Finished, Known
  <2> QED
    BY <1>2, <2>3, <2>4, <2>5, <2>6, Shows_pop DEF Follows
<1>5. CASE djuru_suspend
  <2>1. Focus' = None /\ ~Unwinding'
    BY <1>2, <1>5 DEF djuru_suspend, StopInterpreter, Focus, Unwinding, Running
  <2>2. Chained(<<>>)'
    BY <2>1, ChainLeft
  <2>3. Over' = Over
    BY <1>5 DEF djuru_suspend, Over, Finished, Known
  <2> QED
    BY <1>2, <2>1, <2>2, <2>3, Shows_Suspend DEF Follows
<1> QED
  BY <1>3, <1>4, <1>5, CallSteps DEF CallPrimitive

LEMMA InterpreterSteps == ASSUME Sound, Sound', NEW s, Chained(s), Interpreter PROVE Follows
<1>1. ~crashed /\ ~crashed'
  BY DEF Sound, CallInv, FocusInv
<1>2. /\ Running => /\ s # <<>> /\ s[1] = cur /\ Focus = cur /\ ~Unwinding /\ cur \in Djuru /\ walker = None
                    /\ entry # "idle" /\ frames[cur] > 0 /\ ran[cur] /\ cur \in made
      /\ Unwinding => /\ s # <<>> /\ s[1] = walker /\ Focus = walker /\ walker \in Djuru /\ walker \in made
                      /\ entry # "idle" /\ frames[walker] > 0 /\ ran[walker]
  BY AtWork DEF Running, Unwinding
<1>3. \A i \in 1 .. Len(s) : s[i] \in Djuru /\ frames[s[i]] > 0 /\ ran[s[i]] /\ (i > 1 => s[i] \notin aborted)
  BY Waits
<1>4. \A i \in 2 .. Len(s) : /\ s[i] \in Djuru /\ s[i] # s[1] /\ frames[s[i]] > 0 /\ ran[s[i]]
                             /\ s[i] \notin aborted
  BY Waits
<1>5. CASE callFunction \/ ReturnToFrame
  <2>1. /\ Running /\ UNCHANGED <<entry, cur, walker, api, made, ran, caller, state, aborted>>
        /\ \A d \in Djuru : frames'[d] = 0 <=> frames[d] = 0
    <3>1. CASE callFunction
      BY <1>2, <3>1, DjuruAssumption DEF callFunction, Sound, TypeOK
    <3>2. CASE ReturnToFrame
      <4>1. /\ Running /\ UNCHANGED <<entry, cur, walker, api, made, ran, caller, state, aborted>>
            /\ frames[cur] > 1 /\ frames' = [frames EXCEPT ![cur] = @ - 1] /\ frames \in [Djuru -> 0 .. MaxFrames]
        BY <3>2 DEF ReturnToFrame, Sound, TypeOK
      <4>2. ASSUME NEW d \in Djuru PROVE frames'[d] = 0 <=> frames[d] = 0
        BY <1>2, <4>1, DjuruAssumption
      <4> QED
        BY <4>1, <4>2
    <3> QED
      BY <1>5, <3>1, <3>2
  <2>2. Focus' = Focus /\ ~Unwinding'
    BY <1>1, <1>2, <2>1 DEF Focus, Unwinding, Running
  <2>3. \A d \in Djuru : frames'[d] > 0 <=> frames[d] > 0
    BY <2>1 DEF Sound, TypeOK
  <2>4. Chained(s)'
    BY <1>3, <2>1, <2>2, <2>3, ChainStays
  <2>5. Over' = Over
    BY <2>1, <2>3 DEF Over, Finished, Known
  <2> QED
    BY <1>2, <2>1, <2>2, <2>4, <2>5, Shows_nothing DEF Follows
<1>6. CASE ReturnToHost \/ ReturnToCaller
  <2>1. /\ Running /\ frames[cur] = 1 /\ frames' = [frames EXCEPT ![cur] = 0]
        /\ UNCHANGED <<walker, made, ran, state, aborted>>
        /\ \A d \in Djuru : d # cur => caller'[d] = caller[d]
    BY <1>6 DEF ReturnToHost, ReturnToCaller, Unhook, Sound, TypeOK
  <2>2. Focus' = caller[s[1]] /\ ~Unwinding'
    <3>1. CASE ReturnToHost
      BY <1>2, <3>1 DEF ReturnToHost, Focus, Unwinding, Running
    <3>2. CASE ReturnToCaller
      <4>1. cur' = caller[cur] /\ entry' = entry /\ walker' = None
        BY <1>2, <3>2 DEF ReturnToCaller, Resume
      <4> QED
        BY <1>1, <1>2, <2>1, <4>1 DEF Focus, Unwinding, Running
    <3> QED
      BY <1>6, <3>1, <3>2
  <2>3. \A i \in 2 .. Len(s) : /\ caller'[s[i]] = caller[s[i]] /\ state'[s[i]] = state[s[i]]
                               /\ frames'[s[i]] > 0 /\ ran'[s[i]] /\ s[i] \notin aborted'
    BY <1>2, <1>4, <2>1 DEF Sound, TypeOK
  <2>4. Chained(Tail(s))'
    BY <1>2, <2>1, <2>2, <2>3, ChainPopped
  <2>5. Over' = Over \union {s[1]}
    BY <1>2, <2>1 DEF Over, Finished, Known, Sound, TypeOK
  <2> QED
    BY <1>2, <2>1, <2>2, <2>3, <2>4, <2>5, Shows_pop DEF Follows
<1>7. CASE RuntimeFailure
  BY <1>7, Failing DEF RuntimeFailure
<1>8. CASE UnwindCaller \/ CatchError \/ UncaughtError
  <2>1. /\ Unwinding /\ UNCHANGED <<made, frames, ran, state>> /\ aborted' = aborted \union {walker}
        /\ \A d \in Djuru : d # walker => caller'[d] = caller[d]
    BY <1>8 DEF UnwindCaller, CatchError, UncaughtError, Abort, Unhook, Sound, TypeOK
  <2>2. caller[walker] \in Djuru \union {None}
    BY <1>2, <2>1, Waits
  <2>3. /\ Focus' = caller[s[1]]
        /\ Unwinding' <=> state[s[1]] # "try" /\ caller[s[1]] # None
    <3>1. CASE UnwindCaller
      BY <1>1, <1>2, <3>1 DEF UnwindCaller, Focus, Unwinding, Running
    <3>2. CASE CatchError
      <4>1. cur' = caller[walker] /\ entry' = entry /\ walker' = None /\ state[walker] = "try"
        BY <3>2 DEF CatchError, Resume
      <4> QED
        BY <1>1, <1>2, <2>1, <4>1 DEF Focus, Unwinding, Running
    <3>3. CASE UncaughtError
      BY <1>2, <3>3 DEF UncaughtError, StopInterpreter, Focus, Unwinding, Running
    <3> QED
      BY <1>8, <3>1, <3>2, <3>3
  <2>4. \A i \in 2 .. Len(s) : /\ caller'[s[i]] = caller[s[i]] /\ state'[s[i]] = state[s[i]]
                               /\ frames'[s[i]] > 0 /\ ran'[s[i]] /\ s[i] \notin aborted'
    BY <1>2, <1>4, <2>1
  <2>5. Chained(Tail(s))'
    BY <1>2, <2>1, <2>3, <2>4, ChainPopped
  <2>6. Over' = Over \union {s[1]}
    BY <1>2, <2>1 DEF Over, Finished, Known
  <2>7. Tail(s) # <<>> <=> caller[s[1]] # None
    <3>1. PICK t : t = Tail(s)
      OBVIOUS
    <3>2. t \in Seq(made') /\ Focus' = IF t = <<>> THEN None ELSE t[1]
      BY <2>5, <3>1 DEF Chained, Callers
    <3>3. None \notin made'
      BY DjuruAssumption DEF Sound, TypeOK
    <3>4. t # <<>> => t[1] \in made'
      BY <3>2
    <3> QED
      BY <2>3, <3>1, <3>2, <3>3, <3>4
  <2> QED
    BY <1>2, <2>1, <2>3, <2>4, <2>5, <2>6, <2>7, Shows_pop DEF Follows
<1>9. CASE CatchWithoutCaller
  BY <1>1, <1>9 DEF CatchWithoutCaller
<1> QED
  BY <1>5, <1>6, <1>7, <1>8, <1>9 DEF Interpreter, runtimeError

\* The djurus allocated so far are finitely many.
LEMMA MadeFinite == ASSUME IsFiniteSet(made), [CallNext]_vars PROVE IsFiniteSet(made')
<1>1. made' = made \/ \E d \in Djuru : made' = made \union {d}
  <2>1. CASE Host
    BY <2>1 DEF Host, MSCInterpret, MSCEnsureSlots, MSCCall
  <2>2. CASE CallPrimitive
    BY <2>2 DEF CallPrimitive, djuru_new, djuru_call, djuru_try, RunCalled, djuru_yield,
                YieldToCaller, djuru_suspend
  <2>3. CASE Interpreter
    BY <2>3 DEF Interpreter, callFunction, ReturnToFrame, ReturnToHost, ReturnToCaller, RuntimeFailure,
                runtimeError, UnwindCaller, CatchError, CatchWithoutCaller, UncaughtError
  <2>4. CASE UNCHANGED vars
    BY <2>4 DEF vars
  <2> QED
    BY <2>1, <2>2, <2>3, <2>4 DEF CallNext
<1> QED
  BY <1>1, FS_AddElement

\* Without transfers the djurus of the virtual machine run as one stack: every
\* step of a script, of the host or of runtimeError is one of the stack's, or
\* one that the stack does not show.
THEOREM ImplementsStack == CallSpec => RunsAsAStack
<1>1. ASSUME Init PROVE Stack!Init /\ StackInv
  <2>1. Focus = None /\ ~Unwinding /\ made = {}
    BY <1>1 DEF Init, Focus, Unwinding, Running
  <2>2. IsFiniteSet(made)
    BY <2>1, FS_EmptySet
  <2>3. Callers(<<>>, Focus, caller) /\ <<>> \in Seq(made)
    BY <2>1 DEF Callers
  <2>4. Chained(<<>>)
    BY <2>3 DEF Chained
  <2>5. Chain(Focus, caller, state, Cardinality(made)) = <<>>
    <3>1. Chain(Focus, caller, state, Cardinality(made)) = Entries(<<>>, state)
      <4>1. PICK s, m, top, callers, states :
              s = <<>> /\ m = made /\ top = Focus /\ callers = caller /\ states = state
        OBVIOUS
      <4>2. /\ m \in SUBSET Djuru /\ IsFiniteSet(m) /\ s \in Seq(m)
            /\ \A i, j \in 1 .. Len(s) : s[i] = s[j] => i = j
        BY <2>1, <2>2, <4>1
      <4>3. Callers(s, top, callers)
        BY <2>3, <4>1
      <4>4. Chain(top, callers, states, Cardinality(m)) = Entries(s, states)
        BY <4>2, <4>3, StackIs
      <4> QED
        BY <4>1, <4>4
    <3> QED
      BY <3>1 DEF Entries
  <2>6. Over = {}
    BY <1>1 DEF Init, Over, Finished, Known
  <2>7. Unwinding = FALSE
    BY <2>1 DEF Unwinding
  <2> QED
    BY <2>2, <2>4, <2>5, <2>6, <2>7 DEF Stack!Init, StackInv, Over
<1>2. ASSUME TypeOK, TypeOK', CallInv, CallInv', StackInv, [CallNext]_vars
      PROVE  StackInv' /\ [Stack!Next]_(Stack!vars)
  <2>1. IsFiniteSet(made) /\ IsFiniteSet(made')
    BY <1>2, MadeFinite DEF StackInv
  <2>2. Sound /\ Sound'
    BY <1>2, <2>1 DEF Sound
  <2>3. PICK s : Chained(s)
    BY <1>2 DEF StackInv
  <2>4. CASE CallNext
    <3>1. Follows
      BY <2>2, <2>3, <2>4, HostSteps, PrimitiveSteps, InterpreterSteps DEF CallNext
    <3> QED
      BY <2>1, <3>1 DEF Follows, StackInv
  <2>5. CASE UNCHANGED vars
    <3>1. UNCHANGED <<Focus, made, caller, state, frames, ran, aborted>> /\ UNCHANGED Unwinding /\ Over' = Over
      BY <2>5 DEF vars, Focus, Running, Unwinding, Over, Finished, Known
    <3>2. \A i \in 1 .. Len(s) : frames[s[i]] > 0 /\ ran[s[i]] /\ (i > 1 => s[i] \notin aborted)
      BY <2>3 DEF Chained
    <3>3. Chained(s)'
      BY <2>3, <3>1, <3>2, ChainStays
    <3>4. UNCHANGED Stack!vars
      BY <2>2, <2>3, <3>1, <3>3, Shows_nothing
    <3> QED
      BY <2>1, <3>3, <3>4 DEF StackInv
  <2> QED
    BY <1>2, <2>4, <2>5
<1> QED
  BY <1>1, <1>2, CallTypeCorrect, ChainsStaySound, PTL DEF CallSpec, RunsAsAStack, Stack!Spec
=============================================================================
