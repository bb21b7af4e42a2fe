------------------------------ MODULE MCClosures ------------------------------
(* Small instances of Closures for TLC. Djurus are interchangeable.         *)
EXTENDS Closures, TLC

Symmetry == Permutations(Djuru)
=============================================================================
