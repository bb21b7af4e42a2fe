----------------------------- MODULE DjuruStack ------------------------------
(****************************************************************************)
(* What the djurus of a script that only calls, tries and yields promise:   *)
(* they run as a stack. The head runs; a call pushes a djuru that is not on *)
(* the stack and not over; a yield or a return pops it; an error pops       *)
(* djurus, each of them over for good, until one that was tried is popped.  *)
(****************************************************************************)
EXTENDS Naturals, Sequences

CONSTANT Djuru

VARIABLES
  stack,     \* running djuru first, each with whether it was tried
  throwing,  \* an error is on its way down the stack
  over       \* the djurus that returned or were aborted

vars == <<stack, throwing, over>>

Entry == [djuru : Djuru, tried : BOOLEAN]

OnStack == {stack[i].djuru : i \in 1 .. Len(stack)}

Init ==
  /\ stack = <<>>
  /\ throwing = FALSE
  /\ over = {}

\* The host starts a run. It may run a djuru again that an earlier run ended.
Enter(d) ==
  /\ stack = <<>>
  /\ stack' = <<[djuru |-> d, tried |-> FALSE]>>
  /\ over' = over \ {d}
  /\ UNCHANGED throwing

Call(d, tried) ==
  /\ ~throwing
  /\ stack # <<>>
  /\ d \notin OnStack \union over
  /\ stack' = <<[djuru |-> d, tried |-> tried]>> \o stack
  /\ UNCHANGED <<throwing, over>>

Yield ==
  /\ ~throwing
  /\ stack # <<>>
  /\ stack' = Tail(stack)
  /\ UNCHANGED <<throwing, over>>

Return ==
  /\ ~throwing
  /\ stack # <<>>
  /\ stack' = Tail(stack)
  /\ over' = over \union {Head(stack).djuru}
  /\ UNCHANGED throwing

\* The run stops and its djurus stay where they are.
Suspend ==
  /\ ~throwing
  /\ stack # <<>>
  /\ stack' = <<>>
  /\ UNCHANGED <<throwing, over>>

Throw ==
  /\ ~throwing
  /\ stack # <<>>
  /\ throwing' = TRUE
  /\ over' = over \union {Head(stack).djuru}
  /\ UNCHANGED stack

Unwind ==
  /\ throwing
  /\ stack' = Tail(stack)
  /\ over' = over \union {Head(stack).djuru}
  /\ throwing' = (~Head(stack).tried /\ stack' # <<>>)

Next ==
  \/ \E d \in Djuru : Enter(d) \/ \E tried \in BOOLEAN : Call(d, tried)
  \/ Yield
  \/ Return
  \/ Suspend
  \/ Throw
  \/ Unwind

Spec == Init /\ [][Next]_vars

=============================================================================
