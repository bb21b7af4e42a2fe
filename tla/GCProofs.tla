------------------------------- MODULE GCProofs -------------------------------
(****************************************************************************)
(* The collector frees nothing the program can come to and keeps nothing    *)
(* else, whatever the heap. CollectorInv is inductive as it stands: it says *)
(* that the objects a sweep will leave hold the roots and are closed, so    *)
(* that what is reachable is among them. The other direction is an          *)
(* induction over marking: what an object that is reachable holds is too.   *)
(****************************************************************************)
EXTENDS GC, TLAPS

LEMMA InitCollector == Init => CollectorInv
  BY DEF Init, CollectorInv, WellFormed, Closed

LEMMA NextCollector == CollectorInv /\ [Next]_vars => CollectorInv'
<1> SUFFICES ASSUME CollectorInv, [Next]_vars PROVE CollectorInv'
  OBVIOUS
<1> USE DEF CollectorInv, WellFormed, Closed, Kept
<1>1. CASE Mutate
  <2>1. CASE UNCHANGED roots /\ \E o \in Object : /\ objects' = objects \cup {o}
                                                   /\ \E held \in SUBSET objects' : traced' = [traced EXCEPT ![o] = held]
    <3>1. PICK o \in Object : /\ objects' = objects \cup {o}
                              /\ \E held \in SUBSET objects' : traced' = [traced EXCEPT ![o] = held]
      BY <2>1
    <3>2. PICK held \in SUBSET objects' : traced' = [traced EXCEPT ![o] = held]
      BY <3>1
    <3>3. traced' \in [Object -> SUBSET Object]
      BY <3>1, <3>2
    <3>4. \A p \in objects' : traced'[p] \subseteq objects'
      BY <1>1, <3>1, <3>2 DEF Mutate
    <3> QED
      BY <1>1, <2>1, <3>1, <3>3, <3>4 DEF Mutate, collectorVars
  <2>2. CASE roots' \in SUBSET objects /\ UNCHANGED <<objects, traced>>
    BY <1>1, <2>2 DEF Mutate, collectorVars
  <2> QED
    BY <1>1, <2>1, <2>2 DEF Mutate
<1>2. CASE MSCGCCollect
  BY <1>2 DEF MSCGCCollect, GrayObjects
<1>3. CASE MSCBlackenObjects
  <2>1. PICK o \in gray : GrayObjects(traced[o], gray \ {o})
    BY <1>3 DEF MSCBlackenObjects
  <2>2. traced[o] \subseteq objects
    BY <1>3 DEF MSCBlackenObjects
  <2>3. isDark' \subseteq objects /\ gray' \subseteq isDark' /\ roots \subseteq isDark'
    BY <1>3, <2>1, <2>2 DEF MSCBlackenObjects, GrayObjects
  <2>4. \A p \in isDark' \ gray' : traced[p] \subseteq isDark'
    <3> SUFFICES ASSUME NEW p \in isDark' \ gray' PROVE traced[p] \subseteq isDark'
      OBVIOUS
    <3>1. CASE p = o
      BY <2>1, <3>1 DEF GrayObjects
    <3>2. CASE p # o
      BY <1>3, <2>1, <3>2 DEF GrayObjects, MSCBlackenObjects
    <3> QED
      BY <3>1, <3>2
  <2> QED
    BY <1>3, <2>3, <2>4 DEF MSCBlackenObjects
<1>4. CASE StartSweep
  BY <1>4 DEF StartSweep
<1>5. CASE SweepObject
  <2>1. PICK o \in ahead : /\ ahead' = ahead \ {o}
                           /\ isDark' = isDark \ {o}
                           /\ IF o \in isDark THEN UNCHANGED <<objects, traced>>
                              ELSE objects' = objects \ {o} /\ traced' = [traced EXCEPT ![o] = {}]
    BY <1>5 DEF SweepObject
  <2>2. Kept' = Kept
    BY <1>5, <2>1 DEF SweepObject
  <2>3. \A p \in Kept : traced'[p] = traced[p]
    BY <1>5, <2>1 DEF SweepObject
  <2>4. traced' \in [Object -> SUBSET Object]
    BY <2>1
  <2>5. isDark' \subseteq objects' /\ ahead' \subseteq objects' /\ isDark' \subseteq ahead' /\ objects' \subseteq Object
    BY <1>5, <2>1 DEF SweepObject
  <2> QED
    BY <1>5, <2>2, <2>3, <2>4, <2>5 DEF SweepObject
<1>6. CASE EndCollect
  BY <1>6 DEF EndCollect
<1>7. CASE UNCHANGED vars
  BY <1>7 DEF vars, collectorVars
<1> QED
  BY <1>1, <1>2, <1>3, <1>4, <1>5, <1>6, <1>7 DEF Next, Collect

\* Marking keeps the tri-colour invariant, and the sweep keeps the set of
\* objects that it will leave closed under what they hold.
THEOREM CollectorCorrect == Spec => []CollectorInv
<1>1. Init => CollectorInv
  BY InitCollector
<1>2. CollectorInv /\ [Next]_vars => CollectorInv'
  BY NextCollector
<1> QED
  BY <1>1, <1>2, PTL DEF Spec

LEMMA StepKeepsReachable == CollectorInv /\ Next => (phase # "idle" => \A o \in objects \ objects' : ~Reachable(o))
<1> SUFFICES ASSUME CollectorInv, Next, phase # "idle", NEW o \in objects \ objects', Reachable(o)
             PROVE  FALSE
  OBVIOUS
<1>1. SweepObject
  BY DEF Next, Mutate, Collect, MSCGCCollect, MSCBlackenObjects, StartSweep, EndCollect
<1>2. Kept \in SUBSET Object /\ roots \subseteq Kept /\ Closed(Kept)
  BY <1>1 DEF SweepObject, CollectorInv, Kept
<1>3. o \in Kept
  BY <1>2 DEF Reachable
<1>4. o \in ahead /\ o \notin isDark
  BY <1>1 DEF SweepObject
<1> QED
  BY <1>3, <1>4 DEF Kept

\* A collection frees no object that the program can still come to.
THEOREM CollectionIsSafe == Spec => ReachableKept
<1>1. CollectorInv /\ [Next]_vars => [phase # "idle" => \A o \in objects \ objects' : ~Reachable(o)]_vars
  BY StepKeepsReachable
<1> QED
  BY <1>1, CollectorCorrect, PTL DEF Spec, ReachableKept

(****************************************************************************)
(* Nothing else is kept. A sweep clears what a freed object holds, which    *)
(* only makes more sets closed than before: it must be known that no kept   *)
(* object was reached through a freed one.                                  *)
(****************************************************************************)
LEMMA RootsReachable == \A o \in roots : Reachable(o)
  BY DEF Reachable

LEMMA HeldReachable == \A o \in Object : Reachable(o) => \A p \in traced[o] : Reachable(p)
  BY DEF Reachable, Closed

LEMMA SweepReachable ==
  ASSUME CollectorInv, SweepObject, NEW p \in Kept, Reachable(p)
  PROVE  Reachable(p)'
<1>1. PICK o \in ahead : /\ ahead' = ahead \ {o}
                         /\ isDark' = isDark \ {o}
                         /\ IF o \in isDark THEN UNCHANGED <<objects, traced>>
                            ELSE objects' = objects \ {o} /\ traced' = [traced EXCEPT ![o] = {}]
  BY DEF SweepObject
<1> SUFFICES ASSUME NEW S \in SUBSET Object, roots \subseteq S, Closed(S)' PROVE p \in S
  BY DEF Reachable, Closed, SweepObject
<1> DEFINE T == S \cap Kept
<1>2. \A q \in Kept : traced'[q] = traced[q]
  BY <1>1 DEF SweepObject, Kept, CollectorInv
<1>3. roots \subseteq T
  BY DEF CollectorInv, SweepObject
<1>4. Closed(T)
  BY <1>2 DEF Closed, CollectorInv, SweepObject
<1>5. T \in SUBSET Object
  OBVIOUS
<1> QED
  BY <1>3, <1>4, <1>5 DEF Reachable

LEMMA NextNothingElse == CollectorInv /\ NothingElseKept /\ [Next]_vars => NothingElseKept'
<1> SUFFICES ASSUME CollectorInv, NothingElseKept, [Next]_vars PROVE NothingElseKept'
  OBVIOUS
<1>1. CASE Mutate
  BY <1>1 DEF Mutate, collectorVars, NothingElseKept
<1>2. CASE MSCGCCollect
  <2>1. \A o \in Object : Reachable(o)' <=> Reachable(o)
    BY <1>2 DEF MSCGCCollect, Reachable, Closed
  <2> QED
    BY <1>2, <2>1, RootsReachable DEF MSCGCCollect, GrayObjects, NothingElseKept, CollectorInv
<1>3. CASE MSCBlackenObjects
  <2>1. \A o \in Object : Reachable(o)' <=> Reachable(o)
    BY <1>3 DEF MSCBlackenObjects, Reachable, Closed
  <2>2. PICK o \in gray : GrayObjects(traced[o], gray \ {o})
    BY <1>3 DEF MSCBlackenObjects
  <2>3. \A p \in traced[o] : Reachable(p)
    BY <1>3, HeldReachable DEF MSCBlackenObjects, NothingElseKept, CollectorInv
  <2>4. isDark' \subseteq Object
    BY NextCollector DEF CollectorInv
  <2> QED
    BY <1>3, <2>1, <2>2, <2>3, <2>4 DEF MSCBlackenObjects, GrayObjects, NothingElseKept
<1>4. CASE StartSweep
  <2>1. \A o \in Object : Reachable(o)' <=> Reachable(o)
    BY <1>4 DEF StartSweep, Reachable, Closed
  <2> QED
    BY <1>4, <2>1 DEF StartSweep, NothingElseKept, Kept, CollectorInv
<1>5. CASE SweepObject
  <2>1. Kept' = Kept
    BY <1>5 DEF SweepObject, Kept, CollectorInv
  <2> QED
    BY <1>5, <2>1, SweepReachable DEF SweepObject, NothingElseKept
<1>6. CASE EndCollect
  BY <1>6 DEF EndCollect, NothingElseKept
<1>7. CASE UNCHANGED vars
  BY <1>7 DEF vars, collectorVars, NothingElseKept, Kept, Reachable, Closed
<1> QED
  BY <1>1, <1>2, <1>3, <1>4, <1>5, <1>6, <1>7 DEF Next, Collect

\* What a collection marks, and what its sweep leaves, is reachable: no
\* garbage survives a collection.
THEOREM CollectionIsComplete == Spec => []NothingElseKept
<1>1. Init => NothingElseKept
  BY DEF Init, NothingElseKept
<1>2. CollectorInv /\ NothingElseKept /\ [Next]_vars => NothingElseKept'
  BY NextNothingElse
<1> QED
  BY <1>1, <1>2, CollectorCorrect, PTL DEF Spec
===============================================================================
