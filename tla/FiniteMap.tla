------------------------------ MODULE FiniteMap ------------------------------
(****************************************************************************)
(* What a map promises to a script: a finite function from keys to values.  *)
(****************************************************************************)
CONSTANTS Key, Value, NULL_VAL, TRUE_VAL, FALSE_VAL

VARIABLES
  dict,   \* the function
  result  \* what the last operation returned

vars == <<dict, result>>

Init ==
  /\ dict = [k \in {} |-> NULL_VAL]
  /\ result = NULL_VAL

Put(k, v) ==
  /\ dict' = [j \in DOMAIN dict \union {k} |-> IF j = k THEN v ELSE dict[j]]
  /\ result' = v

\* Removing an absent key returns null and leaves the map alone.
Remove(k) ==
  /\ dict' = [j \in DOMAIN dict \ {k} |-> dict[j]]
  /\ result' = IF k \in DOMAIN dict THEN dict[k] ELSE NULL_VAL

Get(k) ==
  /\ result' = IF k \in DOMAIN dict THEN dict[k] ELSE NULL_VAL
  /\ UNCHANGED dict

Contains(k) ==
  /\ result' = IF k \in DOMAIN dict THEN TRUE_VAL ELSE FALSE_VAL
  /\ UNCHANGED dict

Clear ==
  /\ dict' = [k \in {} |-> NULL_VAL]
  /\ result' = NULL_VAL

Next ==
  \/ \E k \in Key :
       \/ \E v \in Value : Put(k, v)
       \/ Remove(k)
       \/ Get(k)
       \/ Contains(k)
  \/ Clear

Spec == Init /\ [][Next]_vars
=============================================================================
