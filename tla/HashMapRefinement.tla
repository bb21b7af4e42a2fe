-------------------------- MODULE HashMapRefinement --------------------------
(****************************************************************************)
(* The hash table implements a finite map: what a script reads from it is   *)
(* what the used slots hold. The array that MSCMapResize fills is private   *)
(* until it replaces the old one, so a resize is invisible; a spread of the *)
(* map into itself changes nothing.                                         *)
(****************************************************************************)
EXTENDS HashMap

\* What an array of c slots maps its keys to.
Contents(e, c) ==
  [k \in Keys(e, c) |-> e[CHOOSE x \in Used(e, c) : e[x].key = k].value]

Map == INSTANCE FiniteMap WITH dict <- Contents(entries, capacity)

\* Every set, get, remove, test and clear of the table, with the resizes,
\* tombstones and self-spreads between them, is one of the finite map with
\* the same result.
IsAFiniteMap == Map!Spec
=============================================================================
