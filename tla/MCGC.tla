--------------------------------- MODULE MCGC ---------------------------------
(****************************************************************************)
(* The collector, and the check of the routines that allocate: which values *)
(* they use a collection must not free. What RoutinesCheck assumes needs no *)
(* state: it is evaluated before the first one.                             *)
(****************************************************************************)
EXTENDS GC, RoutinesCheck
===============================================================================
