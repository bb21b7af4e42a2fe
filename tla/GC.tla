---------------------------------- MODULE GC ----------------------------------
(****************************************************************************)
(* The collector (MSCGCCollect): it marks what it can reach from the roots  *)
(* with a stack of gray objects, then walks the list of all objects and     *)
(* frees those without a mark. Between collections the program allocates,   *)
(* writes pointers and changes the roots as it likes. The order in which    *)
(* gray objects are taken is left open, and so is the order of the list.    *)
(****************************************************************************)
CONSTANT Object

VARIABLES
  objects,  \* the list gc->first: allocated and not freed
  traced,   \* the objects that MSCBlackenObject grays, for each object
  roots,    \* the objects that MSCGCCollect grays
  isDark,   \* the objects whose isDark is set
  gray,     \* gc->gray
  ahead,    \* the rest of the list, that the sweep has not come to
  phase
collectorVars == <<isDark, gray, ahead, phase>>
vars == <<objects, traced, roots, collectorVars>>

Closed(S)  == \A o \in S : traced[o] \subseteq S
WellFormed == roots \subseteq objects /\ Closed(objects)

Init ==
  /\ objects = {} /\ traced = [o \in Object |-> {}] /\ roots = {}
  /\ isDark = {} /\ gray = {} /\ ahead = {} /\ phase = "idle"

\* The program allocates an object or writes what one holds, or changes the
\* roots.
Mutate ==
  /\ phase = "idle"
  /\ \/ /\ \E o \in Object : /\ objects' = objects \cup {o}
                            /\ \E held \in SUBSET objects' : traced' = [traced EXCEPT ![o] = held]
        /\ UNCHANGED roots
     \/ roots' \in SUBSET objects /\ UNCHANGED <<objects, traced>>
  /\ UNCHANGED collectorVars

\* Fault: an object that is dark already becomes gray again.
GrayObjects_again(os, others) ==
  /\ isDark' = isDark \cup os
  /\ gray' = others \cup os

\* MSCGrayObject of each of `os`: those that are not dark yet become gray.
GrayObjects(os, others) ==
  /\ isDark' = isDark \cup os
  /\ gray' = others \cup (os \ isDark)

\* Fault: everything is a root.
MSCGCCollect_all ==
  /\ phase = "idle" /\ phase' = "mark"
  /\ GrayObjects(objects, gray)
  /\ UNCHANGED <<objects, traced, roots, ahead>>

MSCGCCollect ==
  /\ phase = "idle" /\ phase' = "mark"
  /\ GrayObjects(roots, gray)
  /\ UNCHANGED <<objects, traced, roots, ahead>>

MSCBlackenObjects ==
  /\ phase = "mark"
  /\ \E o \in gray : GrayObjects(traced[o], gray \ {o})
  /\ UNCHANGED <<objects, traced, roots, ahead, phase>>

\* Fault: the sweep starts with gray objects left.
StartSweep_early ==
  /\ phase = "mark" /\ phase' = "sweep"
  /\ ahead' = objects /\ gray' = {}
  /\ UNCHANGED <<objects, traced, roots, isDark>>

StartSweep ==
  /\ phase = "mark" /\ gray = {} /\ phase' = "sweep"
  /\ ahead' = objects
  /\ UNCHANGED <<objects, traced, roots, isDark, gray>>

\* Fault: the mark stays, and a later collection stops at it.
SweepObject_staysDark ==
  /\ phase = "sweep"
  /\ \E o \in ahead :
       /\ ahead' = ahead \ {o}
       /\ IF o \in isDark THEN UNCHANGED <<objects, traced>>
          ELSE objects' = objects \ {o} /\ traced' = [traced EXCEPT ![o] = {}]
  /\ UNCHANGED <<roots, isDark, gray, phase>>

\* A turn of the sweep: a dark object loses its mark, another is freed and
\* holds nothing any more.
SweepObject ==
  /\ phase = "sweep"
  /\ \E o \in ahead :
       /\ ahead' = ahead \ {o}
       /\ isDark' = isDark \ {o}
       /\ IF o \in isDark THEN UNCHANGED <<objects, traced>>
          ELSE objects' = objects \ {o} /\ traced' = [traced EXCEPT ![o] = {}]
  /\ UNCHANGED <<roots, gray, phase>>

EndCollect ==
  /\ phase = "sweep" /\ ahead = {} /\ phase' = "idle"
  /\ UNCHANGED <<objects, traced, roots, isDark, gray, ahead>>

Collect == MSCGCCollect \/ MSCBlackenObjects \/ StartSweep \/ SweepObject \/ EndCollect
Next == Mutate \/ Collect
Spec == Init /\ [][Next]_vars

\* A collection runs to its end within the allocation that started it.
FairSpec == Spec /\ WF_vars(Collect)

(****************************************************************************)
(* Properties.                                                              *)
(****************************************************************************)
\* What a collection keeps: the dark objects and those the sweep has passed.
Kept == isDark \cup (objects \ ahead)

\* The tri-colour invariant of marking (no black object points at a white
\* one), and for the sweep that what is kept holds the roots and is closed.
\* Between collections no mark is left that a later one would stop at.
CollectorInv ==
  /\ objects \subseteq Object /\ roots \subseteq Object /\ traced \in [Object -> SUBSET Object]
  /\ isDark \subseteq objects /\ gray \subseteq isDark /\ ahead \subseteq objects
  /\ phase \in {"idle", "mark", "sweep"}
  /\ phase = "idle"  => WellFormed /\ isDark = {} /\ gray = {} /\ ahead = {}
  /\ phase = "mark"  => /\ WellFormed /\ roots \subseteq isDark /\ ahead = {}
                        /\ \A o \in isDark \ gray : traced[o] \subseteq isDark
  /\ phase = "sweep" => roots \subseteq Kept /\ Closed(Kept) /\ gray = {} /\ isDark \subseteq ahead

Reachable(o) == \A S \in SUBSET Object : roots \subseteq S /\ Closed(S) => o \in S

\* An object that the program can still come to, from a root through what the
\* objects' blacken functions follow, is not freed.
ReachableKept == [][phase # "idle" => \A o \in objects \ objects' : ~Reachable(o)]_vars

\* A collection marks nothing else, and what it leaves at its end is what was
\* reachable.
NothingElseKept == (phase = "mark" => \A o \in isDark : Reachable(o))
                     /\ (phase = "sweep" => \A o \in Kept : Reachable(o))
\* A collection ends, cycles or not: an object is grayed at most once.
CollectionEnds == phase = "mark" ~> phase = "idle"
===============================================================================
