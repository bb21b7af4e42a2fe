------------------------------- MODULE MCDjuru -------------------------------
(* Small instances of Djuru for TLC. Djurus are interchangeable: no action  *)
(* and no property names one, so their permutations are a symmetry.         *)
EXTENDS Djuru, TLC

Symmetry == Permutations(Djuru)
=============================================================================
