--------------------------- MODULE DjuruRefinement ---------------------------
(****************************************************************************)
(* The djurus of the virtual machine, run by scripts that do not transfer,  *)
(* implement the stack of DjuruStack: the stack is read off the caller      *)
(* fields, from the djuru that runs (or that runtimeError is at) down to    *)
(* the one the host entered.                                                *)
(****************************************************************************)
EXTENDS Djuru, Sequences, FiniteSets, TLC

\* The djuru at work, its caller, that one's caller and so on, of n djurus at
\* most.
Chain(top, callers, states, n) ==
  LET nth[i \in 1 .. n] ==
        IF i = 1 THEN top
        ELSE IF nth[i - 1] = None THEN None ELSE callers[nth[i - 1]]
  IN  [i \in {j \in 1 .. n : nth[j] # None} |->
         [djuru |-> nth[i], tried |-> states[nth[i]] = "try"]]

Focus == IF Unwinding THEN walker ELSE IF Running THEN cur ELSE None

Stack == INSTANCE DjuruStack WITH
  stack    <- Chain(Focus, caller, state, Cardinality(made)),
  throwing <- Unwinding,
  over     <- aborted \union {d \in Djuru : Finished(d)}

\* Calls, tries, yields, returns and errors of djurus, interleaved in every
\* way a script can, always act on one stack of djurus: control goes back to
\* the djuru that called last, an error goes to the nearest try and ends
\* every djuru on its way, and none of those runs again.
RunsAsAStack == Stack!Spec

Symmetry == Permutations(Djuru)
=============================================================================
