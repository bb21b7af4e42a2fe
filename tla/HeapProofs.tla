------------------------------ MODULE HeapProofs ------------------------------
(****************************************************************************)
(* Proofs about Heap, for any number of objects and of calls: no pointer    *)
(* that is left or used dangles, and temporary roots are popped. What       *)
(* RoutinesCheck finds before a step is true of the heap there (Fits) when  *)
(* its symbols are given values, and that a collection frees none of them   *)
(* follows from its check of each step.                                     *)
(****************************************************************************)
EXTENDS Heap, RoutinesCheck, FiniteSetTheorems, Induction

(****************************************************************************)
(* The heap between two steps.                                              *)
(****************************************************************************)
FixedObjects == {"modules", "core", "aClass", "Class"}
LiveIn(k)    == {o \in Object : k[o] # "free"}

\* Stacks are those of djurus, and hold objects.
WellTyped(k, st) ==
  /\ k \in [Object -> Kinds \cup {"free"}] /\ st \in [Object -> Seq(Object)]
  /\ \A o \in Object : st[o] # <<>> => k[o] = "djuru"
  /\ \A o \in Object : \A j \in 1..Len(st[o]) : st[o][j] \in LiveIn(k) \ {"modules"}
  /\ \A x \in FixedObjects : k[x] = Boot[x]

\* The pointers by which the collector always comes to some objects.
Permanent == {<<"vm", "modules", "modules">>, <<"modules", "entries", "core">>,
              <<"core", "variables", "aClass">>, <<"aClass", "superclass", "Class">>}

\* The collector follows what an object holds, or it comes to it from a
\* module: a function's module, the class of a foreign object.
Guarded(k, ps, p) ==
  \/ p[2] \in Blackened(k[p[1]])
  \/ p[2] = "module" /\ <<"modules", "entries", p[3]>> \in ps
  \/ /\ k[p[1]] = "extern" /\ p[2] = "classObj" /\ p[3] \in Object /\ k[p[3]] = "class"
     /\ <<"core", "variables", p[3]>> \in ps
WellPlaced(k, ps, p) ==
  /\ p = <<p[1], p[2], p[3]>>
  /\ p[1] \in LiveIn(k) \cup Structs /\ p[3] \in LiveIn(k) \cup Structs \cup {Garbage}
  /\ p[3] = "modules" => p = <<"vm", "modules", "modules">>
  /\ p[1] \in Object => Guarded(k, ps, p)
  /\ p[1] = "vm" /\ p[3] \in Object => p[2] \in VmLabels \/ p = <<"vm", "core", "Class">>
WellPointed(k, ps) == Permanent \subseteq ps /\ \A p \in ps : WellPlaced(k, ps, p)

(****************************************************************************)
(* What is known (RoutinesCheck), of a heap, with values for its symbols.   *)
(****************************************************************************)
ValuesFit(k, val, a) ==
  /\ \A s \in Symbols(a) : s \in DOMAIN val
  /\ \A s \in DOMAIN Fixed : val[s] = s[1]
  /\ \A s \in Symbols(a) : a.kind[s] # "struct" =>
       /\ val[s] \in LiveIn(k)
       /\ a.kind[s] # "any" => k[val[s]] = a.kind[s]
       /\ val[s] = "modules" => s = TheModules
  /\ \A s \in a.fresh : val[s] \in Fresh
  /\ \A s \in a.apart : val[s] # val[a.here]
LocalsFit(r, val, a) ==
  /\ DOMAIN r \cap (FixedNames \cup {Here, Garbage}) = {}
  /\ \A x \in DOMAIN a.env : x \in DOMAIN r /\ r[x] = val[a.env[x]]
LinksFit(ps, val, a) == \A k \in a.links : <<val[k[1]], k[2], val[k[3]]>> \in ps
MayFit(ps, val, a) ==
  \A p \in ps : p[1] \in Structs \ {"vm"} /\ p[3] \in Object =>
    \E m \in a.may : m[1] = p[1] /\ m[2] = p[2] /\ (m[3] = Unknown \/ val[m[3]] = p[3])
StructsFit(ps, a) == {p \in ps : p[3] \in Structs} = a.structs
RawFit(ps, val, a) == \A p \in ps : p[3] = Garbage => p[2] = "frames" /\ \E s \in a.raw : val[s] = p[1]
PointsFit(ps, val, a) == LinksFit(ps, val, a) /\ MayFit(ps, val, a) /\ StructsFit(ps, a) /\ RawFit(ps, val, a)
Djurus(ps) == {p[3] : p \in {p \in ps : p[1] = "vm" /\ p[2] = "djuru"}}
HereFits(ps, val, a) == Djurus(ps) = {val[a.here]}
RootsFit(tr, val, a) ==
  /\ tr \in Seq(Object) /\ Len(tr) = Len(a.temp)
  /\ \A j \in 1..Len(a.temp) : tr[j] = val[a.temp[j]]
StackFits(st, val, a) ==
  LET top == st[val[a.here]]  below == Len(top) - Len(a.stk) IN
  below >= a.under /\ \A j \in 1..Len(a.stk) : top[below + j] = val[a.stk[j]]

\* The state fits what is known of it.
Fits(val, a) ==
  /\ ValuesFit(kind, val, a) /\ LocalsFit(reg, val, a) /\ PointsFit(points, val, a)
  /\ HereFits(points, val, a) /\ RootsFit(tempRoots, val, a) /\ StackFits(stack, val, a)

(****************************************************************************)
(* Names.                                                                   *)
(****************************************************************************)
LEMMA Names ==
  /\ Object \cap (Structs \cup {Garbage, Freed}) = {} /\ Structs \cap {Garbage, Freed} = {} /\ Garbage # Freed
  /\ FixedObjects \subseteq Object \ Fresh /\ FixedNames = Structs \cup FixedObjects /\ Fresh \subseteq Object
  /\ Here \notin FixedNames \cup {Garbage} /\ Freed \notin FixedNames
  /\ "vm" \in Structs /\ "parser" \in Structs /\ "vm" # "parser"
  /\ Boot["modules"] = "map" /\ Boot["core"] = "module" /\ Boot["aClass"] = "class" /\ Boot["Class"] = "class"
<1>1. DOMAIN Boot = {"modules", "core", "Class", "main", "script", "code", "nested_code", "aClass", "aList", "aMap", "aString",
                     "literal_string", "aClosure"}
  BY DEF Boot
<1>2. FixedObjects \subseteq DOMAIN Boot /\ DOMAIN Boot \cap (Structs \cup {Garbage, Freed}) = {}
  BY <1>1 DEF FixedObjects, Structs, Garbage, Freed
<1>3. FixedObjects \cap Fresh = {} /\ Fresh \cap (Structs \cup {Garbage, Freed}) = {}
  BY <1>2, HeapAssumption
<1>4. Structs \cap {Garbage, Freed} = {} /\ Garbage # Freed /\ "vm" \in Structs /\ "parser" \in Structs /\ "vm" # "parser"
  BY DEF Structs, Garbage, Freed
<1>5. Here \notin FixedNames \cup {Garbage} /\ Freed \notin FixedNames /\ FixedNames = Structs \cup FixedObjects
  BY DEF FixedNames, Structs, FixedObjects, Here, Garbage, Freed
<1>6. Boot["modules"] = "map" /\ Boot["core"] = "module" /\ Boot["aClass"] = "class" /\ Boot["Class"] = "class"
  BY DEF Boot
<1> QED
  BY <1>2, <1>3, <1>4, <1>5, <1>6 DEF Object

LEMMA FixedSymbols ==
  /\ \A x : <<x, 0>> \in DOMAIN Fixed <=> x \in FixedNames
  /\ \A s \in DOMAIN Fixed : s = <<s[1], 0>> /\ s[1] \in FixedNames
  /\ \A x \in Structs : Fixed[<<x, 0>>] = "struct"
  /\ \A x \in FixedObjects : Fixed[<<x, 0>>] = Boot[x]
  /\ Unknown \notin DOMAIN Fixed /\ TheModules \in DOMAIN Fixed /\ TheCore \in DOMAIN Fixed
<1>1. DOMAIN Fixed = FixedNames \X {0}
  BY DEF Fixed
<1>2. \A x \in FixedNames : Fixed[<<x, 0>>] = IF x \in Structs THEN "struct" ELSE Boot[x]
  BY DEF Fixed
<1>3. FixedObjects \cap Structs = {} /\ "any" \notin FixedNames /\ {"modules", "core"} \subseteq FixedNames
  BY DEF FixedObjects, Structs, FixedNames
<1> QED
  BY <1>1, <1>2, <1>3, Names DEF Unknown, TheModules, TheCore

LEMMA Colors ==
  /\ "free" \notin Kinds /\ "any" \notin Kinds /\ "struct" \notin Kinds
  /\ Blackened("any") = {} /\ Blackened("struct") = {} /\ Blackened("free") = {}
  /\ "entries" \in Blackened("map") /\ "variables" \in Blackened("module") /\ "superclass" \in Blackened("class")
  /\ "fields" \notin Blackened("class") /\ "module" \notin Blackened("class") /\ "frames" \in Blackened("djuru")
BY DEF Kinds, Blackened

\* The symbol of a name, and its node.
LEMMA SymbolOf ==
  ASSUME NEW a, WellKnown(a), NEW x, Sym(a, x) \in Symbols(a)
  PROVE  /\ x \in Structs => Sym(a, x) = <<x, 0>>
         /\ a.kind[Sym(a, x)] = "struct" <=> x \in Structs
         /\ x # Here /\ x \notin DOMAIN a.env => x \in FixedNames /\ Sym(a, x) = <<x, 0>>
<1>1. CASE x = Here
  <2>1. Sym(a, x) = a.here /\ a.kind[a.here] = "djuru" /\ x \notin Structs
    BY <1>1, Names DEF Sym, WellKnown
  <2> QED
    BY <2>1, <1>1
<1>2. CASE x # Here /\ x \in DOMAIN a.env
  <2>1. Sym(a, x) = a.env[x] /\ a.kind[a.env[x]] # "struct" /\ x \notin FixedNames
    BY <1>2 DEF Sym, WellKnown
  <2> QED
    BY <2>1, <1>2, Names
<1>3. CASE x # Here /\ x \notin DOMAIN a.env
  <2>1. Sym(a, x) = <<x, 0>>
    BY <1>3 DEF Sym
  <2>2. <<x, 0>> \in DOMAIN Fixed
    <3>1. <<x, 0>>[2] = 0
      OBVIOUS
    <3> QED
      BY <2>1, <3>1 DEF WellKnown
  <2>3. x \in FixedNames /\ a.kind[<<x, 0>>] = Fixed[<<x, 0>>]
    BY <2>2, FixedSymbols DEF WellKnown
  <2>4. ASSUME x \notin Structs PROVE Fixed[<<x, 0>>] # "struct"
    <3>1. x \in FixedObjects
      BY <2>3, <2>4, Names
    <3> QED
      BY <3>1, FixedSymbols, Names DEF FixedObjects
  <2> QED
    BY <2>1, <2>3, <2>4, FixedSymbols
<1> QED
  BY <1>1, <1>2, <1>3

LEMMA NodeOf ==
  ASSUME NEW a, WellKnown(a), NEW val, Fits(val, a), NEW x, Sym(a, x) \in Symbols(a)
  PROVE  Node(x) = val[Sym(a, x)]
<1>1. CASE x = Here
  <2>1. Targets("vm", "djuru") = {val[a.here]}
    BY DEF Fits, HereFits, Djurus, Targets
  <2>2. TheDjuru = val[a.here]
    BY <2>1 DEF TheDjuru
  <2> QED
    BY <2>2, <1>1 DEF Node, Sym
<1>2. CASE x # Here /\ x \in DOMAIN a.env
  BY <1>2 DEF Node, Sym, Fits, LocalsFit
<1>3. CASE x # Here /\ x \notin DOMAIN a.env
  <2>1. x \in FixedNames /\ Sym(a, x) = <<x, 0>>
    BY <1>3, SymbolOf
  <2>2. x \notin DOMAIN reg /\ val[<<x, 0>>] = x
    <3>1. <<x, 0>> \in DOMAIN Fixed /\ <<x, 0>>[1] = x
      BY <2>1, FixedSymbols
    <3> QED
      BY <2>1, <3>1 DEF Fits, LocalsFit, ValuesFit
  <2> QED
    BY <1>3, <2>1, <2>2 DEF Node
<1> QED
  BY <1>1, <1>2, <1>3

\* Symbols of which it is known have nodes of which it is true.
LEMMA ObjectOf ==
  ASSUME NEW k, NEW a, WellKnown(a), NEW val, ValuesFit(k, val, a), NEW s, IsObject(a, s)
  PROVE  /\ val[s] \in LiveIn(k) \ {"modules"} /\ val[s] \in Object
         /\ val[s] \notin Structs \cup {Garbage, Freed}
         /\ a.kind[s] # "any" => k[val[s]] = a.kind[s]
<1>1. s \in Symbols(a) /\ a.kind[s] # "struct" /\ s # TheModules
  BY DEF IsObject
<1>2. val[s] \in LiveIn(k) /\ val[s] # "modules" /\ (a.kind[s] # "any" => k[val[s]] = a.kind[s])
  BY <1>1 DEF ValuesFit
<1>3. val[s] \in Object
  BY <1>2 DEF LiveIn
<1> QED
  BY <1>2, <1>3, Names

\* Each symbol stands for a live object, or for a struct.
LEMMA NodeOfSymbol ==
  ASSUME NEW k, NEW a, WellKnown(a), NEW val, ValuesFit(k, val, a), NEW s \in Symbols(a)
  PROVE  /\ a.kind[s] = "struct" => s \in DOMAIN Fixed /\ val[s] = s[1] /\ val[s] \in Structs
         /\ a.kind[s] # "struct" => val[s] \in LiveIn(k) /\ val[s] \in Object /\ val[s] \notin Structs
<1>1. ASSUME a.kind[s] = "struct"
      PROVE  s \in DOMAIN Fixed /\ val[s] = s[1] /\ val[s] \in Structs
  <2>1. s \in DOMAIN Fixed
    BY <1>1, Colors DEF WellKnown
  <2>2. s = <<s[1], 0>> /\ s[1] \in FixedNames /\ val[s] = s[1] /\ Fixed[s] = "struct"
    BY <2>1, <1>1, FixedSymbols DEF ValuesFit, WellKnown
  <2>3. s[1] \in Structs
    <3> SUFFICES ASSUME s[1] \in FixedObjects PROVE FALSE
      BY <2>2, Names
    <3>1. Fixed[<<s[1], 0>>] = Boot[s[1]]
      BY FixedSymbols
    <3>2. Boot[s[1]] # "struct"
      BY Names DEF FixedObjects
    <3> QED
      BY <2>2, <3>1, <3>2
  <2> QED
    BY <2>1, <2>2, <2>3
<1>2. ASSUME a.kind[s] # "struct" PROVE val[s] \in LiveIn(k) /\ val[s] \in Object /\ val[s] \notin Structs
  <2>1. val[s] \in LiveIn(k)
    BY <1>2 DEF ValuesFit
  <2> QED
    BY <2>1, Names DEF LiveIn
<1> QED
  BY <1>1, <1>2

\* The node of a name is a struct if the name is one's, and an object if not.
LEMMA StructNode ==
  ASSUME NEW k, NEW a, WellKnown(a), NEW val, ValuesFit(k, val, a), NEW x, Sym(a, x) \in Symbols(a)
  PROVE  /\ x \in Structs => val[Sym(a, x)] = x
         /\ x \notin Structs => val[Sym(a, x)] \in LiveIn(k) /\ val[Sym(a, x)] \in Object /\ val[Sym(a, x)] \notin Structs
<1>1. CASE x \in Structs
  <2>1. Sym(a, x) = <<x, 0>> /\ a.kind[Sym(a, x)] = "struct"
    BY <1>1, SymbolOf
  <2>2. a.kind[Sym(a, x)] = "struct" => val[Sym(a, x)] = Sym(a, x)[1]
    BY NodeOfSymbol
  <2> QED
    BY <1>1, <2>1, <2>2
<1>2. CASE x \notin Structs
  <2>1. a.kind[Sym(a, x)] # "struct"
    BY <1>2, SymbolOf
  <2> QED
    BY <1>2, <2>1, NodeOfSymbol
<1> QED
  BY <1>1, <1>2

\* No other symbol stands for a struct.
LEMMA OtherNode ==
  ASSUME NEW k, NEW a, WellKnown(a), NEW val, ValuesFit(k, val, a), NEW s \in Symbols(a), NEW x \in Structs, s # <<x, 0>>
  PROVE  val[s] # x
<1>1. CASE a.kind[s] = "struct"
  <2>1. s \in DOMAIN Fixed /\ val[s] = s[1]
    BY <1>1, NodeOfSymbol
  <2> QED
    BY <2>1, FixedSymbols
<1>2. CASE a.kind[s] # "struct"
  <2>1. val[s] \notin Structs
    BY <1>2, NodeOfSymbol
  <2> QED
    BY <2>1
<1> QED
  BY <1>1, <1>2

(****************************************************************************)
(* Writes of pointers.                                                      *)
(****************************************************************************)
\* A new pointer from n to m goes from a struct to a struct, or to an object
\* from what the collector follows.
NewPointerFits(k, n, m, x, l, y) ==
  /\ l \in StructLabels => n = x /\ m = y /\ x \in Structs /\ y \in Structs
  /\ l \notin StructLabels => m \in LiveIn(k) \ {"modules"} /\ m \in Object
  /\ x \in Structs => n = x
  /\ x \notin Structs => n \in LiveIn(k) /\ n \in Object /\ l \in Blackened(k[n])
  /\ x = "vm" /\ l \notin StructLabels => l \in VmLabels

LEMMA NewPointer ==
  ASSUME NEW k, NEW a, WellKnown(a), NEW val, ValuesFit(k, val, a), NEW x, NEW l, NEW y, AllowsPointer(a, x, l, y)
  PROVE  NewPointerFits(k, val[Sym(a, x)], val[Sym(a, y)], x, l, y)
<1> DEFINE s == Sym(a, x)
           t == Sym(a, y)
<1>1. s \in Symbols(a) /\ t \in Symbols(a)
  BY DEF AllowsPointer
<1>2. ASSUME NEW z \in Structs, Sym(a, z) \in Symbols(a) PROVE val[Sym(a, z)] = z
  BY <1>2, StructNode
<1>3. l \in StructLabels => {x, y} \subseteq Structs
  BY DEF AllowsPointer
<1>4. ASSUME l \notin StructLabels PROVE val[t] \in LiveIn(k) \ {"modules"} /\ val[t] \in Object
  <2>1. IsObject(a, t)
    BY <1>4 DEF AllowsPointer
  <2> QED
    BY <2>1, ObjectOf
<1>5. ASSUME x \notin Structs PROVE val[s] \in LiveIn(k) /\ val[s] \in Object /\ l \in Blackened(k[val[s]])
  <2>1. a.kind[s] # "struct" /\ l \in Blackened(a.kind[s])
    BY <1>5, <1>1, <1>3, SymbolOf DEF AllowsPointer
  <2>2. a.kind[s] # "any"
    BY <2>1, Colors
  <2>3. k[val[s]] = a.kind[s]
    BY <2>1, <2>2, <1>1 DEF ValuesFit
  <2> QED
    BY <2>1, <2>3, <1>1, NodeOfSymbol
<1>6. x = "vm" /\ l \notin StructLabels => l \in VmLabels
  BY DEF AllowsPointer
<1> QED
  BY <1>1, <1>2, <1>3, <1>4, <1>5, <1>6 DEF NewPointerFits

\* The pointers that are written.
Linked(val, a, x, holds) == {<<val[Sym(a, x)], h[1], val[Sym(a, h[2])]>> : h \in holds}

\* Pointers are added.
LEMMA AddKeeps ==
  ASSUME NEW k, NEW ps, WellPointed(k, ps), NEW a, WellKnown(a), NEW val, ValuesFit(k, val, a), PointsFit(ps, val, a),
         NEW x, NEW holds, \A h \in holds : AllowsPointer(a, x, h[1], h[2])
  PROVE  /\ WellPointed(k, ps \cup Linked(val, a, x, holds))
         /\ PointsFit(ps \cup Linked(val, a, x, holds), val, Added(a, x, holds))
<1> DEFINE n == val[Sym(a, x)]
           b == Added(a, x, holds)
           more == Linked(val, a, x, holds)
           all == ps \cup more
<1>1. /\ b.links = a.links \cup {<<Sym(a, x), h[1], Sym(a, h[2])>> : h \in {h \in holds : h[1] \notin StructLabels}}
      /\ b.may = a.may \cup (IF x \in Structs \ {"vm"}
                             THEN {<<x, h[1], Sym(a, h[2])>> : h \in {h \in holds : h[1] \notin StructLabels}} ELSE {})
      /\ b.structs = a.structs \cup {<<x, h[1], h[2]>> : h \in {h \in holds : h[1] \in StructLabels}}
      /\ b.raw = a.raw
  BY DEF Added, WellKnown, IsKnowledge
<1>2. ASSUME NEW h \in holds
      PROVE  /\ h[1] \in StructLabels => n = x /\ val[Sym(a, h[2])] = h[2] /\ x \in Structs /\ h[2] \in Structs
             /\ h[1] \notin StructLabels => val[Sym(a, h[2])] \in LiveIn(k) \ {"modules"} /\ val[Sym(a, h[2])] \in Object
             /\ x \in Structs => n = x
             /\ x \notin Structs => n \in LiveIn(k) /\ n \in Object /\ h[1] \in Blackened(k[n])
             /\ x = "vm" /\ h[1] \notin StructLabels => h[1] \in VmLabels
  <2>1. AllowsPointer(a, x, h[1], h[2])
    OBVIOUS
  <2>2. NewPointerFits(k, n, val[Sym(a, h[2])], x, h[1], h[2])
    BY <2>1, NewPointer
  <2> HIDE DEF n
  <2> QED
    BY <2>2 DEF NewPointerFits
<1>3. \A p : p \in more <=> \E h \in holds : p = <<n, h[1], val[Sym(a, h[2])]>>
  BY DEF Linked
<1> HIDE DEF n, b, more
<1>4. WellPointed(k, all)
  <2>1. ASSUME NEW p \in ps PROVE WellPlaced(k, all, p)
    <3>1. WellPlaced(k, ps, p)
      BY DEF WellPointed
    <3>2. Guarded(k, ps, p) => Guarded(k, all, p)
      BY DEF Guarded
    <3> QED
      BY <3>1, <3>2 DEF WellPlaced
  <2>2. ASSUME NEW p \in more PROVE WellPlaced(k, all, p)
    <3>1. PICK h \in holds : p = <<n, h[1], val[Sym(a, h[2])]>>
      BY <1>3
    <3> DEFINE m == val[Sym(a, h[2])]
    <3>2. p[1] = n /\ p[2] = h[1] /\ p[3] = m /\ p = <<p[1], p[2], p[3]>>
      BY <3>1
    <3> HIDE DEF m
    <3>3. CASE h[1] \in StructLabels
      <4>1. p[1] \in Structs /\ p[3] \in Structs
        BY <3>3, <3>2, <1>2 DEF m
      <4>2. p[1] \notin Object /\ p[3] \notin Object /\ p[3] # "modules"
        BY <4>1, Names DEF FixedObjects
      <4> QED
        BY <3>2, <4>1, <4>2 DEF WellPlaced
    <3>4. CASE h[1] \notin StructLabels
      <4>1. p[3] \in LiveIn(k) /\ p[3] # "modules"
        BY <3>4, <3>2, <1>2 DEF m
      <4>2. CASE x \in Structs
        <5>1. p[1] = x /\ x \notin Object /\ (x = "vm" => p[2] \in VmLabels)
          BY <4>2, <3>2, <3>4, <1>2, Names
        <5> QED
          BY <4>1, <4>2, <5>1, <3>2 DEF WellPlaced
      <4>3. CASE x \notin Structs
        <5>1. p[1] \in LiveIn(k) /\ p[1] \in Object /\ p[2] \in Blackened(k[p[1]])
          BY <4>3, <3>2, <1>2
        <5>2. p[1] # "vm"
          BY <5>1, Names
        <5> QED
          BY <4>1, <5>1, <5>2, <3>2 DEF WellPlaced, Guarded
      <4> QED
        BY <4>2, <4>3
    <3> QED
      BY <3>3, <3>4
  <2> QED
    BY <2>1, <2>2 DEF WellPointed
<1>5. LinksFit(all, val, b)
  <2>1. ASSUME NEW j \in b.links PROVE <<val[j[1]], j[2], val[j[3]]>> \in all
    <3>1. CASE j \in a.links
      BY <3>1 DEF PointsFit, LinksFit
    <3>2. CASE j \notin a.links
      <4>1. PICK h \in holds : j = <<Sym(a, x), h[1], Sym(a, h[2])>>
        BY <3>2, <1>1
      <4>2. <<val[j[1]], j[2], val[j[3]]>> = <<n, h[1], val[Sym(a, h[2])]>>
        BY <4>1 DEF n
      <4> QED
        BY <4>2, <1>3
    <3> QED
      BY <3>1, <3>2
  <2> QED
    BY <2>1 DEF LinksFit
<1>6. MayFit(all, val, b)
  <2>1. ASSUME NEW p \in all, p[1] \in Structs \ {"vm"}, p[3] \in Object
        PROVE  \E m \in b.may : m[1] = p[1] /\ m[2] = p[2] /\ (m[3] = Unknown \/ val[m[3]] = p[3])
    <3>1. CASE p \in ps
      BY <3>1, <2>1, <1>1 DEF PointsFit, MayFit
    <3>2. CASE p \notin ps
      <4>1. PICK h \in holds : p = <<n, h[1], val[Sym(a, h[2])]>>
        BY <3>2, <1>3
      <4>2. p[1] = n /\ p[2] = h[1] /\ p[3] = val[Sym(a, h[2])]
        BY <4>1
      <4>3. h[1] \notin StructLabels
        BY <4>2, <2>1, <1>2, Names
      <4>4. x \in Structs \ {"vm"} /\ n = x
        BY <4>2, <2>1, <1>2, Names
      <4> DEFINE m == <<x, h[1], Sym(a, h[2])>>
      <4>5. m \in b.may
        BY <4>3, <4>4, <1>1
      <4>6. m[1] = p[1] /\ m[2] = p[2] /\ val[m[3]] = p[3]
        BY <4>2, <4>4
      <4> QED
        BY <4>5, <4>6
    <3> QED
      BY <3>1, <3>2
  <2> QED
    BY <2>1 DEF MayFit
<1>7. StructsFit(all, b)
  <2>1. {p \in ps : p[3] \in Structs} = a.structs
    BY DEF PointsFit, StructsFit
  <2>2. ASSUME NEW p \in more, p[3] \in Structs PROVE p \in b.structs
    <3>1. PICK h \in holds : p = <<n, h[1], val[Sym(a, h[2])]>>
      BY <1>3
    <3>2. p[3] = val[Sym(a, h[2])]
      BY <3>1
    <3>3. h[1] \in StructLabels
      BY <2>2, <3>2, <1>2, Names
    <3>4. p = <<x, h[1], h[2]>>
      BY <3>1, <3>3, <1>2
    <3> QED
      BY <3>3, <3>4, <1>1
  <2>3. ASSUME NEW h \in holds, h[1] \in StructLabels PROVE <<x, h[1], h[2]>> \in more /\ h[2] \in Structs
    <3>1. n = x /\ val[Sym(a, h[2])] = h[2] /\ h[2] \in Structs
      BY <2>3, <1>2
    <3>2. <<n, h[1], val[Sym(a, h[2])]>> \in more
      BY <1>3
    <3> QED
      BY <3>1, <3>2
  <2>4. ASSUME NEW p \in b.structs PROVE p \in all /\ p[3] \in Structs
    <3>1. CASE p \in a.structs
      BY <3>1, <2>1
    <3>2. CASE p \notin a.structs
      <4>1. PICK h \in holds : h[1] \in StructLabels /\ p = <<x, h[1], h[2]>>
        BY <3>2, <1>1
      <4> QED
        BY <4>1, <2>3
    <3> QED
      BY <3>1, <3>2
  <2>5. ASSUME NEW p \in all, p[3] \in Structs PROVE p \in b.structs
    BY <2>5, <2>1, <2>2, <1>1
  <2> QED
    BY <2>4, <2>5 DEF StructsFit
<1>8. RawFit(all, val, b)
  <2>1. ASSUME NEW p \in all, p[3] = Garbage PROVE p \in ps
    <3> SUFFICES ASSUME p \in more PROVE FALSE
      OBVIOUS
    <3>1. PICK h \in holds : p = <<n, h[1], val[Sym(a, h[2])]>>
      BY <1>3
    <3>2. p[3] = val[Sym(a, h[2])]
      BY <3>1
    <3> QED
      BY <2>1, <3>2, <1>2, Names
  <2> QED
    BY <2>1, <1>1 DEF PointsFit, RawFit
<1> QED
  BY <1>4, <1>5, <1>6, <1>7, <1>8 DEF PointsFit, b, n, more

\* Pointers are taken out, but none of those that are always there.
LEMMA LessIsWellPointed ==
  ASSUME NEW k, NEW ps, WellPointed(k, ps), NEW fewer \in SUBSET ps, Permanent \subseteq fewer,
         \A p \in ps : p[1] = "modules" /\ p[2] = "entries" => p \in fewer,
         \A p \in ps : p[1] = "core" /\ p[2] = "variables" /\ k[p[3]] = "class" => p \in fewer
  PROVE  WellPointed(k, fewer)
<1>1. ASSUME NEW p \in fewer PROVE WellPlaced(k, fewer, p)
  <2>1. WellPlaced(k, ps, p)
    BY DEF WellPointed
  <2>2. ASSUME Guarded(k, ps, p) PROVE Guarded(k, fewer, p)
    <3>1. CASE p[2] \in Blackened(k[p[1]])
      BY <3>1 DEF Guarded
    <3>2. CASE p[2] = "module" /\ <<"modules", "entries", p[3]>> \in ps
      <4>1. <<"modules", "entries", p[3]>> \in fewer
        BY <3>2
      <4> QED
        BY <3>2, <4>1 DEF Guarded
    <3>3. CASE /\ k[p[1]] = "extern" /\ p[2] = "classObj" /\ p[3] \in Object /\ k[p[3]] = "class"
               /\ <<"core", "variables", p[3]>> \in ps
      <4> DEFINE q == <<"core", "variables", p[3]>>
      <4>1. q[1] = "core" /\ q[2] = "variables" /\ q[3] = p[3] /\ q \in ps
        BY <3>3
      <4>2. q \in fewer
        BY <4>1, <3>3
      <4> QED
        BY <3>3, <4>2 DEF Guarded
    <3> QED
      BY <2>2, <3>1, <3>2, <3>3 DEF Guarded
  <2> QED
    BY <2>1, <2>2 DEF WellPlaced
<1> QED
  BY <1>1 DEF WellPointed

\* Symbols that differ have different nodes.
LEMMA DifferentNodes ==
  ASSUME NEW k, NEW a, WellKnown(a), NEW val, ValuesFit(k, val, a), NEW s \in Symbols(a), NEW t \in Symbols(a), Differ(s, t)
  PROVE  val[s] # val[t]
<1>1. s # t
  BY DEF Differ
<1>2. ASSUME NEW u \in Symbols(a), u # TheModules PROVE val[u] # val[TheModules]
  <2>1. val[TheModules] = "modules"
    BY FixedSymbols DEF ValuesFit, TheModules
  <2>2. CASE a.kind[u] = "struct"
    <3>1. val[u] \in Structs
      BY <2>2, NodeOfSymbol
    <3> QED
      BY <2>1, <3>1 DEF Structs
  <2>3. CASE a.kind[u] # "struct"
    BY <2>1, <2>3, <1>2 DEF ValuesFit
  <2> QED
    BY <2>2, <2>3
<1>3. CASE s = TheModules \/ t = TheModules
  BY <1>1, <1>2, <1>3
<1>4. CASE {s, t} \subseteq DOMAIN Fixed
  <2>1. val[s] = s[1] /\ val[t] = t[1] /\ s = <<s[1], 0>> /\ t = <<t[1], 0>>
    BY <1>4, FixedSymbols DEF ValuesFit
  <2> QED
    BY <2>1, <1>1
<1> QED
  BY <1>3, <1>4 DEF Differ

\* The pointers of one label of a node are taken out.
LEMMA RemoveKeeps ==
  ASSUME NEW k, NEW ps, WellPointed(k, ps), NEW a, WellKnown(a), NEW val, ValuesFit(k, val, a), PointsFit(ps, val, a),
         NEW x, Sym(a, x) \in Symbols(a), NEW l,
         \A q \in Permanent : q[1] # val[Sym(a, x)] \/ q[2] # l
  PROVE  /\ WellPointed(k, {p \in ps : ~(p[1] = val[Sym(a, x)] /\ p[2] = l)})
         /\ PointsFit({p \in ps : ~(p[1] = val[Sym(a, x)] /\ p[2] = l)}, val, Removed(a, x, l))
<1>0. /\ x \in Structs => val[Sym(a, x)] = x
      /\ x \notin Structs => val[Sym(a, x)] \in Object /\ val[Sym(a, x)] \notin Structs
  <2>1. /\ x \in Structs => val[Sym(a, x)] = x
        /\ x \notin Structs => val[Sym(a, x)] \in LiveIn(k) /\ val[Sym(a, x)] \in Object /\ val[Sym(a, x)] \notin Structs
    BY StructNode
  <2> QED
    BY <2>1
<1> DEFINE s == Sym(a, x)
           n == val[s]
           b == Removed(a, x, l)
           fewer == {p \in ps : ~(p[1] = n /\ p[2] = l)}
<1>1. /\ b.links = Cut(a.links, s, l) /\ b.may = CutOf(a.may, x, l) /\ b.structs = CutOf(a.structs, x, l)
      /\ b.raw = IF l = "frames" THEN a.raw \ {s} ELSE a.raw
  BY DEF Removed, WellKnown, IsKnowledge
<1>2. x \in Structs => n = x
  BY <1>0
<1>3. x \notin Structs => n \in Object /\ n \notin Structs
  BY <1>0
<1>4. fewer = {p \in ps : ~(p[1] = n /\ p[2] = l)} /\ \A q \in Permanent : q[1] # n \/ q[2] # l
  OBVIOUS
<1> HIDE DEF s, n, b, fewer
<1>5. WellPointed(k, fewer)
  <2>1. Permanent \subseteq fewer
    BY <1>4 DEF WellPointed
  <2>2. ~(n = "modules" /\ l = "entries") /\ ~(n = "core" /\ l = "variables")
    <3>1. <<"modules", "entries", "core">> \in Permanent /\ <<"core", "variables", "aClass">> \in Permanent
      BY DEF Permanent
    <3>2. <<"modules", "entries", "core">>[1] # n \/ <<"modules", "entries", "core">>[2] # l
      BY <3>1, <1>4
    <3>3. <<"core", "variables", "aClass">>[1] # n \/ <<"core", "variables", "aClass">>[2] # l
      BY <3>1, <1>4
    <3> QED
      BY <3>2, <3>3
  <2> QED
    BY <1>4, <2>1, <2>2, LessIsWellPointed
<1>6. LinksFit(fewer, val, b)
  <2>1. ASSUME NEW j \in b.links PROVE <<val[j[1]], j[2], val[j[3]]>> \in fewer
    <3>1. j \in a.links /\ (j[2] # l \/ Differ(j[1], s))
      BY <1>1 DEF Cut
    <3>2. <<val[j[1]], j[2], val[j[3]]>> \in ps
      BY <3>1 DEF PointsFit, LinksFit
    <3>3. ASSUME j[2] = l PROVE val[j[1]] # n
      <4>1. j[1] \in Symbols(a) /\ s \in Symbols(a) /\ Differ(j[1], s)
        BY <3>1, <3>3 DEF WellKnown, s
      <4> QED
        BY <4>1, DifferentNodes DEF n
    <3> QED
      BY <3>2, <3>3, <1>4
  <2> QED
    BY <2>1 DEF LinksFit
<1>7. MayFit(fewer, val, b)
  <2>1. ASSUME NEW p \in fewer, p[1] \in Structs \ {"vm"}, p[3] \in Object
        PROVE  \E m \in b.may : m[1] = p[1] /\ m[2] = p[2] /\ (m[3] = Unknown \/ val[m[3]] = p[3])
    <3>1. PICK m \in a.may : m[1] = p[1] /\ m[2] = p[2] /\ (m[3] = Unknown \/ val[m[3]] = p[3])
      BY <2>1, <1>4 DEF PointsFit, MayFit
    <3>2. ~(m[1] = x /\ m[2] = l)
      BY <2>1, <3>1, <1>2, <1>4
    <3>3. m \in b.may
      BY <3>2, <1>1 DEF CutOf
    <3> QED
      BY <3>1, <3>3
  <2> QED
    BY <2>1 DEF MayFit
<1>8. StructsFit(fewer, b)
  <2>1. {p \in ps : p[3] \in Structs} = a.structs /\ \A p \in a.structs : p[1] \in Structs
    BY DEF PointsFit, StructsFit, WellKnown
  <2>2. ASSUME NEW p \in a.structs PROVE (p[1] = n /\ p[2] = l) <=> (p[1] = x /\ p[2] = l)
    BY <2>1, <1>2, <1>3
  <2>3. {p \in fewer : p[3] \in Structs} = {p \in a.structs : ~(p[1] = n /\ p[2] = l)}
    BY <2>1, <1>4
  <2> QED
    BY <2>2, <2>3, <1>1 DEF StructsFit, CutOf
<1>9. RawFit(fewer, val, b)
  <2>1. ASSUME NEW p \in fewer, p[3] = Garbage PROVE p[2] = "frames" /\ \E r \in b.raw : val[r] = p[1]
    <3>1. p \in ps /\ ~(p[1] = n /\ p[2] = l)
      BY <1>4
    <3>2. p[2] = "frames" /\ \E r \in a.raw : val[r] = p[1]
      BY <2>1, <3>1 DEF PointsFit, RawFit
    <3>3. PICK r \in a.raw : val[r] = p[1]
      BY <3>2
    <3>4. r \in b.raw
      BY <3>1, <3>2, <3>3, <1>1 DEF n
    <3> QED
      BY <3>2, <3>3, <3>4
  <2> QED
    BY <2>1 DEF RawFit
<1> QED
  BY <1>5, <1>6, <1>7, <1>8, <1>9 DEF PointsFit, b, s, n, fewer

\* Fewer pointers, of which none that is known is missing.
LEMMA LessFits ==
  ASSUME NEW ps, NEW a, NEW val, PointsFit(ps, val, a), NEW fewer \in SUBSET ps, \A p \in ps : p[3] \in Structs => p \in fewer,
         NEW b, LinksFit(fewer, val, b), b.may = a.may, b.structs = a.structs, b.raw = a.raw
  PROVE  PointsFit(fewer, val, b)
<1>1. MayFit(fewer, val, b)
  BY DEF PointsFit, MayFit
<1>2. StructsFit(fewer, b)
  BY DEF PointsFit, StructsFit
<1>3. RawFit(fewer, val, b)
  BY DEF PointsFit, RawFit
<1> QED
  BY <1>1, <1>2, <1>3 DEF PointsFit

LEMMA UnlinkKeeps ==
  ASSUME NEW k, NEW ps, WellPointed(k, ps), k["aClass"] = "class",
         NEW a, WellKnown(a), NEW val, ValuesFit(k, val, a), PointsFit(ps, val, a), NEW st, AllowsUnlink(a, st)
  PROVE  LET fewer == ps \ {<<val[Sym(a, st.x)], st.label, val[Sym(a, st.y)]>>} IN
         WellPointed(k, fewer) /\ PointsFit(fewer, val, [a EXCEPT !.links = Cut(@, Sym(a, st.x), st.label)])
<1> DEFINE s == Sym(a, st.x)
           t == Sym(a, st.y)
           l == st.label
           n == val[s]
           m == val[t]
           gone == <<n, l, m>>
           fewer == ps \ {gone}
           b == [a EXCEPT !.links = Cut(@, s, l)]
<1>1. s \in Symbols(a) /\ IsObject(a, t)
  BY DEF AllowsUnlink
<1>2. \/ l \in {"elements", "openUpvalues", "handles"}
      \/ l = "entries" /\ s # TheModules
      \/ l = "variables" /\ a.kind[t] \in Kinds \ {"class"}
  BY DEF AllowsUnlink
<1>3. m \in LiveIn(k) /\ m \notin Structs /\ (a.kind[t] # "any" => k[m] = a.kind[t])
  <2>1. IsObject(a, t)
    BY <1>1
  <2> QED
    BY <2>1, ObjectOf
<1>4. b.links = Cut(a.links, s, l) /\ b.may = a.may /\ b.structs = a.structs /\ b.raw = a.raw
  BY DEF WellKnown, IsKnowledge
<1>5. s # TheModules => n # "modules"
  <2>1. Fixed[TheModules] = "map" /\ TheModules \in Symbols(a) /\ val[TheModules] = "modules"
    <3>1. TheModules \in DOMAIN Fixed /\ TheModules[1] = "modules" /\ Fixed[TheModules] = "map"
      BY FixedSymbols, Names DEF TheModules, FixedObjects
    <3> QED
      BY <3>1 DEF ValuesFit, WellKnown
  <2>2. s # TheModules => Differ(s, TheModules)
    BY DEF Differ
  <2> QED
    BY <1>1, <2>1, <2>2, DifferentNodes
<1> HIDE DEF s, t, n, m, b
<1>7. gone[1] = n /\ gone[2] = l /\ gone[3] = m
  OBVIOUS
<1>8. gone \notin Permanent
  <2>1. CASE l \in {"elements", "openUpvalues", "handles"}
    BY <2>1, <1>7 DEF Permanent
  <2>2. CASE l = "entries" /\ s # TheModules
    BY <2>2, <1>5, <1>7 DEF Permanent
  <2>3. CASE l = "variables" /\ a.kind[t] \in Kinds \ {"class"}
    <3>1. m # "aClass"
      BY <2>3, <1>3, Colors
    <3> QED
      BY <2>3, <3>1, <1>7 DEF Permanent
  <2> QED
    BY <1>2, <2>1, <2>2, <2>3
<1>9. WellPointed(k, fewer)
  <2>1. Permanent \subseteq fewer
    BY <1>8 DEF WellPointed
  <2>2. ASSUME NEW p \in ps, p[1] = "modules", p[2] = "entries" PROVE p # gone
    BY <2>2, <1>2, <1>5, <1>7
  <2>3. ASSUME NEW p \in ps, p[1] = "core", p[2] = "variables", k[p[3]] = "class" PROVE p # gone
    <3> SUFFICES ASSUME p = gone PROVE FALSE
      OBVIOUS
    <3>1. l = "variables" /\ k[m] = "class"
      BY <2>3, <1>7
    <3> QED
      BY <3>1, <1>2, <1>3, Colors
  <2> HIDE DEF gone
  <2> QED
    BY <2>1, <2>2, <2>3, LessIsWellPointed
<1>10. LinksFit(fewer, val, b)
  <2>1. ASSUME NEW j \in b.links PROVE <<val[j[1]], j[2], val[j[3]]>> \in fewer
    <3>1. j \in a.links /\ (j[2] # l \/ Differ(j[1], s))
      BY <1>4 DEF Cut
    <3>2. <<val[j[1]], j[2], val[j[3]]>> \in ps
      BY <3>1 DEF PointsFit, LinksFit
    <3>3. j[2] = l => val[j[1]] # n
      <4>1. j[1] \in Symbols(a) /\ s \in Symbols(a)
        BY <3>1, <1>1 DEF WellKnown
      <4> QED
        BY <3>1, <4>1, DifferentNodes DEF n
    <3>4. <<val[j[1]], j[2], val[j[3]]>> # gone
      BY <3>3
    <3> QED
      BY <3>2, <3>4
  <2> QED
    BY <2>1 DEF LinksFit
<1>11. \A p \in ps : p[3] \in Structs => p \in fewer
  BY <1>3, <1>7
<1>12. PointsFit(fewer, val, b)
  <2> HIDE DEF gone
  <2>1. fewer \in SUBSET ps
    OBVIOUS
  <2> HIDE DEF fewer
  <2> QED
    BY <1>4, <1>10, <1>11, <2>1, LessFits
<1> QED
  BY <1>9, <1>12 DEF s, t, n, m, b

LEMMA ForgetKeeps ==
  ASSUME NEW k, NEW ps, WellPointed(k, ps),
         NEW a, WellKnown(a), NEW val, ValuesFit(k, val, a), PointsFit(ps, val, a), NEW x \in Structs \ {"vm"}
  PROVE  LET fewer == {p \in ps : p[1] # x} IN
         /\ WellPointed(k, fewer)
         /\ PointsFit(fewer, val, Forgotten(a, x))
<1> DEFINE fewer == {p \in ps : p[1] # x}
           b == Forgotten(a, x)
<1>1. /\ b.links = {j \in a.links : j[1] # <<x, 0>>} /\ b.may = {p \in a.may : p[1] # x}
      /\ b.structs = {p \in a.structs : p[1] # x} /\ b.raw = a.raw
  BY DEF Forgotten, WellKnown, IsKnowledge
<1> HIDE DEF b
<1>2. WellPointed(k, fewer)
  <2>1. \A p \in Permanent : p[1] # x
    BY DEF Permanent, Structs
  <2>2. Permanent \subseteq fewer
    BY <2>1 DEF WellPointed
  <2>3. x # "modules" /\ x # "core"
    BY DEF Structs
  <2>4. fewer \in SUBSET ps /\ \A p \in ps : p[1] # x => p \in fewer
    OBVIOUS
  <2> HIDE DEF fewer
  <2> QED
    BY <2>2, <2>3, <2>4, LessIsWellPointed
<1>3. LinksFit(fewer, val, b)
  <2>1. ASSUME NEW j \in b.links PROVE <<val[j[1]], j[2], val[j[3]]>> \in fewer
    <3>1. j \in a.links /\ j[1] # <<x, 0>> /\ j[1] \in Symbols(a)
      BY <1>1 DEF WellKnown
    <3>2. <<val[j[1]], j[2], val[j[3]]>> \in ps
      BY <3>1 DEF PointsFit, LinksFit
    <3>3. val[j[1]] # x
      BY <3>1, OtherNode
    <3> QED
      BY <3>2, <3>3
  <2> QED
    BY <2>1 DEF LinksFit
<1>4. MayFit(fewer, val, b)
  BY <1>1 DEF PointsFit, MayFit
<1>5. StructsFit(fewer, b)
  BY <1>1 DEF PointsFit, StructsFit
<1>6. RawFit(fewer, val, b)
  BY <1>1 DEF PointsFit, RawFit
<1> QED
  BY <1>2, <1>3, <1>4, <1>5, <1>6 DEF PointsFit, b

\* The targets of one label are given to another object.
LEMMA CopyKeeps ==
  ASSUME NEW k, NEW ps, WellPointed(k, ps),
         NEW a, WellKnown(a), NEW val, ValuesFit(k, val, a), PointsFit(ps, val, a), NEW st, AllowsCopy(a, st)
  PROVE  LET more == {<<val[Sym(a, st.x)], st.label, o>> :
                        o \in {p[3] : p \in {p \in ps : p[1] = val[Sym(a, st.y)] /\ p[2] = st.label}}} IN
         WellPointed(k, ps \cup more) /\ PointsFit(ps \cup more, val, a)
<1> DEFINE s == Sym(a, st.x)
           t == Sym(a, st.y)
           l == st.label
           n == val[s]
           m == val[t]
           more == {<<n, l, o>> : o \in {p[3] : p \in {p \in ps : p[1] = m /\ p[2] = l}}}
           all == ps \cup more
<1>1. IsObject(a, s) /\ IsObject(a, t) /\ l # "frames"
      /\ (l \in Blackened(a.kind[s]) \/ (a.kind[t] = "class" /\ l = "fields"))
  BY DEF AllowsCopy
<1>2. n \in LiveIn(k) /\ n \in Object /\ n \notin Structs /\ (a.kind[s] # "any" => k[n] = a.kind[s])
  <2>1. IsObject(a, s)
    BY <1>1
  <2> QED
    BY <2>1, ObjectOf
<1>3. m \in Object /\ m \notin Structs /\ (a.kind[t] # "any" => k[m] = a.kind[t])
  <2>1. IsObject(a, t)
    BY <1>1
  <2> QED
    BY <2>1, ObjectOf
<1>4. \A p \in more : \E q \in ps : q[1] = m /\ q[2] = l /\ p = <<n, l, q[3]>>
  OBVIOUS
<1> HIDE DEF s, t, n, m, more
<1>5. ASSUME NEW p \in more
      PROVE  /\ p = <<p[1], p[2], p[3]>> /\ p[1] = n /\ p[2] = l
             /\ p[3] \in LiveIn(k) \ {"modules"} /\ p[3] \notin Structs \cup {Garbage} /\ l \in Blackened(k[n])
  <2>1. PICK q \in ps : q[1] = m /\ q[2] = l /\ p = <<n, l, q[3]>>
    BY <1>4
  <2>2. WellPlaced(k, ps, q)
    BY DEF WellPointed
  <2>3. q[3] \notin Structs
    <3> SUFFICES ASSUME q[3] \in Structs PROVE FALSE
      OBVIOUS
    <3>1. q \in a.structs
      BY DEF PointsFit, StructsFit
    <3>2. q[1] \in Structs
      BY <3>1 DEF WellKnown
    <3> QED
      BY <3>2, <2>1, <1>3
  <2>4. q[3] # Garbage
    BY <2>1, <1>1 DEF PointsFit, RawFit
  <2>5. q[3] # "modules"
    <3> SUFFICES ASSUME q[3] = "modules" PROVE FALSE
      OBVIOUS
    <3>1. q = <<"vm", "modules", "modules">>
      BY <2>2 DEF WellPlaced
    <3>2. q[1] = "vm"
      BY <3>1
    <3> QED
      BY <3>2, <2>1, <1>3, Names
  <2>6. q[3] \in LiveIn(k) \ {"modules"}
    BY <2>2, <2>3, <2>4, <2>5 DEF WellPlaced
  <2>7. l \in Blackened(k[n])
    <3>1. CASE l \in Blackened(a.kind[s])
      BY <3>1, <1>2, Colors
    <3>2. CASE a.kind[t] = "class" /\ l = "fields"
      <4>1. k[m] = "class" /\ Guarded(k, ps, q)
        BY <3>2, <1>3, <2>1, <2>2 DEF WellPlaced
      <4> QED
        BY <4>1, <3>2, <2>1, Colors DEF Guarded
    <3> QED
      BY <1>1, <3>1, <3>2
  <2>8. p[1] = n /\ p[2] = l /\ p[3] = q[3]
    BY <2>1
  <2>9. p = <<p[1], p[2], p[3]>>
    BY <2>1, <2>8
  <2> QED
    BY <2>3, <2>4, <2>6, <2>7, <2>8, <2>9
<1>6. WellPointed(k, all)
  <2>1. ASSUME NEW p \in ps PROVE WellPlaced(k, all, p)
    <3>1. WellPlaced(k, ps, p)
      BY DEF WellPointed
    <3>2. Guarded(k, ps, p) => Guarded(k, all, p)
      BY DEF Guarded
    <3> QED
      BY <3>1, <3>2 DEF WellPlaced
  <2>2. ASSUME NEW p \in more PROVE WellPlaced(k, all, p)
    <3>1. p[1] # "vm"
      BY <1>5, <1>2, Names
    <3> QED
      BY <1>5, <1>2, <3>1 DEF WellPlaced, Guarded
  <2> QED
    BY <2>1, <2>2 DEF WellPointed
<1>7. LinksFit(all, val, a)
  BY DEF PointsFit, LinksFit
<1>8. MayFit(all, val, a)
  <2>1. \A p \in more : p[1] \notin Structs
    BY <1>5, <1>2
  <2> QED
    BY <2>1 DEF PointsFit, MayFit
<1>9. StructsFit(all, a)
  <2>1. \A p \in more : p[3] \notin Structs
    BY <1>5
  <2> QED
    BY <2>1 DEF PointsFit, StructsFit
<1>10. RawFit(all, val, a)
  <2>1. \A p \in more : p[3] # Garbage
    BY <1>5
  <2> QED
    BY <2>1 DEF PointsFit, RawFit
<1> QED
  BY <1>6, <1>7, <1>8, <1>9, <1>10 DEF PointsFit, s, t, n, m, more

\* The parser's tokens move on.
LEMMA ShiftKeeps ==
  ASSUME NEW k, NEW ps, WellPointed(k, ps),
         NEW a, WellKnown(a), NEW val, ValuesFit(k, val, a), PointsFit(ps, val, a), \A p \in a.structs : p[1] # "parser"
  PROVE  /\ WellPointed(k, Moved(ps, "parser"))
         /\ PointsFit(Moved(ps, "parser"), val, Shifted(a))
<1> DEFINE all == Moved(ps, "parser")
           b == Shifted(a)
<1>1. /\ b.links = Moved(a.links, <<"parser", 0>>) /\ b.may = Moved(a.may, "parser")
      /\ b.structs = a.structs /\ b.raw = a.raw
  BY DEF Shifted, WellKnown, IsKnowledge
<1>2. \A p \in ps : p[1] # "parser" \/ p[2] = "next" => p \in all
  BY DEF Moved
<1>3. \A p \in ps : p[1] = "parser" /\ p[2] = "current" => <<"parser", "previous", p[3]>> \in all
  BY DEF Moved
<1>4. \A p \in ps : p[1] = "parser" /\ p[2] = "next" => <<"parser", "current", p[3]>> \in all
  BY DEF Moved
<1>5. \A p \in all : \/ p \in ps /\ (p[1] # "parser" \/ p[2] = "next")
                     \/ \E q \in ps : q[1] = "parser" /\ q[2] = "current" /\ p = <<"parser", "previous", q[3]>>
                     \/ \E q \in ps : q[1] = "parser" /\ q[2] = "next" /\ p = <<"parser", "current", q[3]>>
  BY DEF Moved
<1>6. "parser" \in Structs /\ "parser" # "vm" /\ "parser" \notin Object
  BY Names
<1>7. \A q \in ps : WellPlaced(k, ps, q)
  BY DEF WellPointed
<1>8. ASSUME NEW q \in ps, q[1] = "parser", q[2] = "current" \/ q[2] = "next"
      PROVE  q[3] \in LiveIn(k) \ {"modules"} /\ q[3] \notin Structs \cup {Garbage}
  <2>1. WellPlaced(k, ps, q)
    BY <1>7
  <2>2. q[3] \notin Structs
    <3> SUFFICES ASSUME q[3] \in Structs PROVE FALSE
      OBVIOUS
    <3>1. q \in a.structs
      BY DEF PointsFit, StructsFit
    <3> QED
      BY <3>1, <1>8
  <2>3. q[3] # Garbage
    BY <1>8 DEF PointsFit, RawFit
  <2>4. q[3] # "modules"
    <3> SUFFICES ASSUME q[3] = "modules" PROVE FALSE
      OBVIOUS
    <3>1. q = <<"vm", "modules", "modules">>
      BY <2>1 DEF WellPlaced
    <3>2. q[1] = "vm"
      BY <3>1
    <3> QED
      BY <3>2, <1>8, <1>6
  <2> QED
    BY <2>1, <2>2, <2>3, <2>4 DEF WellPlaced
<1>9. ASSUME NEW p \in all
      PROVE  \/ p \in ps /\ (p[1] # "parser" \/ p[2] = "next")
             \/ /\ p = <<p[1], p[2], p[3]>> /\ p[1] = "parser" /\ p[3] \in LiveIn(k) \ {"modules"}
                /\ p[3] \notin Structs \cup {Garbage}
  <2>1. CASE p \in ps /\ (p[1] # "parser" \/ p[2] = "next")
    BY <2>1
  <2>2. ASSUME NEW l, NEW q \in ps, q[1] = "parser", q[2] = "current" \/ q[2] = "next", p = <<"parser", l, q[3]>>
        PROVE  /\ p = <<p[1], p[2], p[3]>> /\ p[1] = "parser" /\ p[3] \in LiveIn(k) \ {"modules"}
               /\ p[3] \notin Structs \cup {Garbage}
    <3>1. p[1] = "parser" /\ p[3] = q[3] /\ p = <<p[1], p[2], p[3]>>
      BY <2>2
    <3> QED
      BY <3>1, <2>2, <1>8
  <2> QED
    BY <2>1, <2>2, <1>5
<1> HIDE DEF all, b
<1>10. WellPointed(k, all)
  <2>1. Permanent \subseteq all
    <3>1. \A p \in Permanent : p[1] # "parser"
      BY DEF Permanent
    <3> QED
      BY <3>1, <1>2 DEF WellPointed
  <2>2. ASSUME NEW p \in ps PROVE Guarded(k, ps, p) => Guarded(k, all, p)
    <3>1. <<"modules", "entries", p[3]>> \in ps => <<"modules", "entries", p[3]>> \in all
      BY <1>2
    <3>2. <<"core", "variables", p[3]>> \in ps => <<"core", "variables", p[3]>> \in all
      BY <1>2
    <3> QED
      BY <3>1, <3>2 DEF Guarded
  <2>3. ASSUME NEW p \in all PROVE WellPlaced(k, all, p)
    <3>1. CASE p \in ps
      BY <3>1, <2>2, <1>7 DEF WellPlaced
    <3>2. CASE p \notin ps
      BY <3>2, <1>9, <1>6 DEF WellPlaced
    <3> QED
      BY <3>1, <3>2
  <2> QED
    BY <2>1, <2>3 DEF WellPointed
<1>11. LinksFit(all, val, b)
  <2>1. <<"parser", 0>> \in DOMAIN Fixed /\ val[<<"parser", 0>>] = "parser"
    <3>1. <<"parser", 0>> \in DOMAIN Fixed
      BY <1>6, FixedSymbols, Names
    <3> QED
      BY <3>1 DEF ValuesFit
  <2>2. ASSUME NEW j \in a.links
        PROVE  <<val[j[1]], j[2], val[j[3]]>> \in ps /\ (j[1] # <<"parser", 0>> => val[j[1]] # "parser")
    <3>1. <<val[j[1]], j[2], val[j[3]]>> \in ps /\ j[1] \in Symbols(a)
      BY DEF PointsFit, LinksFit, WellKnown
    <3>2. ASSUME j[1] # <<"parser", 0>> PROVE val[j[1]] # "parser"
      BY <3>1, <3>2, <1>6, OtherNode
    <3> QED
      BY <3>1, <3>2
  <2>3. ASSUME NEW j \in b.links PROVE <<val[j[1]], j[2], val[j[3]]>> \in all
    <3>1. CASE j \in a.links /\ (j[1] # <<"parser", 0>> \/ j[2] = "next")
      <4> DEFINE q == <<val[j[1]], j[2], val[j[3]]>>
      <4>1. q \in ps /\ (q[1] # "parser" \/ q[2] = "next")
        BY <3>1, <2>2
      <4> QED
        BY <4>1, <1>2
    <3>2. ASSUME NEW i \in a.links, i[1] = <<"parser", 0>>, i[2] = "current", j = <<<<"parser", 0>>, "previous", i[3]>>
          PROVE  <<val[j[1]], j[2], val[j[3]]>> \in all
      <4> DEFINE q == <<val[i[1]], i[2], val[i[3]]>>
      <4>1. q \in ps /\ q[1] = "parser" /\ q[2] = "current" /\ q[3] = val[i[3]]
        BY <3>2, <2>1, <2>2
      <4>2. <<"parser", "previous", q[3]>> \in all
        BY <4>1, <1>3
      <4> QED
        BY <4>1, <4>2, <3>2, <2>1
    <3>3. ASSUME NEW i \in a.links, i[1] = <<"parser", 0>>, i[2] = "next", j = <<<<"parser", 0>>, "current", i[3]>>
          PROVE  <<val[j[1]], j[2], val[j[3]]>> \in all
      <4> DEFINE q == <<val[i[1]], i[2], val[i[3]]>>
      <4>1. q \in ps /\ q[1] = "parser" /\ q[2] = "next" /\ q[3] = val[i[3]]
        BY <3>3, <2>1, <2>2
      <4>2. <<"parser", "current", q[3]>> \in all
        BY <4>1, <1>4
      <4> QED
        BY <4>1, <4>2, <3>3, <2>1
    <3> QED
      BY <3>1, <3>2, <3>3, <1>1 DEF Moved
  <2> QED
    BY <2>3 DEF LinksFit
<1>12. MayFit(all, val, b)
  <2>1. ASSUME NEW q \in ps, q[1] \in Structs \ {"vm"}, q[3] \in Object
        PROVE  \E m \in a.may : m[1] = q[1] /\ m[2] = q[2] /\ (m[3] = Unknown \/ val[m[3]] = q[3])
    BY <2>1 DEF PointsFit, MayFit
  <2>2. ASSUME NEW p \in all, p[1] \in Structs \ {"vm"}, p[3] \in Object
        PROVE  \E m \in b.may : m[1] = p[1] /\ m[2] = p[2] /\ (m[3] = Unknown \/ val[m[3]] = p[3])
    <3>1. CASE p \in ps /\ (p[1] # "parser" \/ p[2] = "next")
      <4>1. PICK m \in a.may : m[1] = p[1] /\ m[2] = p[2] /\ (m[3] = Unknown \/ val[m[3]] = p[3])
        BY <2>1, <2>2, <3>1
      <4>2. m \in b.may
        BY <4>1, <3>1, <1>1 DEF Moved
      <4> QED
        BY <4>1, <4>2
    <3>2. ASSUME NEW q \in ps, NEW l, NEW l2, q[1] = "parser", q[2] = l, p = <<"parser", l2, q[3]>>,
                 \/ l = "current" /\ l2 = "previous"
                 \/ l = "next" /\ l2 = "current"
          PROVE  \E m \in b.may : m[1] = p[1] /\ m[2] = p[2] /\ (m[3] = Unknown \/ val[m[3]] = p[3])
      <4>1. p[1] = "parser" /\ p[2] = l2 /\ p[3] = q[3]
        BY <3>2
      <4>2. PICK m \in a.may : m[1] = "parser" /\ m[2] = l /\ (m[3] = Unknown \/ val[m[3]] = q[3])
        BY <2>1, <2>2, <3>2, <4>1, <1>6
      <4>3. <<"parser", l2, m[3]>> \in b.may
        BY <4>2, <3>2, <1>1 DEF Moved
      <4> QED
        BY <4>1, <4>2, <4>3
    <3> QED
      BY <3>1, <3>2, <1>5
  <2> QED
    BY <2>2 DEF MayFit
<1>13. StructsFit(all, b)
  <2>1. {p \in ps : p[3] \in Structs} = a.structs
    BY DEF PointsFit, StructsFit
  <2>2. ASSUME NEW p \in all, p[3] \in Structs PROVE p \in a.structs
    BY <2>1, <2>2, <1>9
  <2>3. ASSUME NEW p \in a.structs PROVE p \in all /\ p[3] \in Structs
    BY <2>1, <1>2
  <2> QED
    BY <2>2, <2>3, <1>1 DEF StructsFit
<1>14. RawFit(all, val, b)
  <2>1. \A p \in all : p[3] = Garbage => p \in ps
    BY <1>9
  <2> QED
    BY <2>1, <1>1 DEF PointsFit, RawFit
<1> QED
  BY <1>10, <1>11, <1>12, <1>13, <1>14 DEF PointsFit, all, b

(****************************************************************************)
(* Allocation, and what is read.                                            *)
(****************************************************************************)
\* A new object.
LEMMA AllocateKeeps ==
  ASSUME NEW k, NEW st, WellTyped(k, st), NEW ps, WellPointed(k, ps), NEW a, WellKnown(a), NEW val, ValuesFit(k, val, a),
         NEW o \in Fresh, k[o] = "free", NEW new \in Kinds
  PROVE  /\ WellTyped([k EXCEPT ![o] = new], st) /\ WellPointed([k EXCEPT ![o] = new], ps)
         /\ ValuesFit([k EXCEPT ![o] = new], val, a)
         /\ o \in LiveIn([k EXCEPT ![o] = new]) /\ o \notin FixedNames /\ o \in Object /\ o \notin LiveIn(k)
         /\ [k EXCEPT ![o] = new][o] = new /\ \A x \in LiveIn(k) : x \in LiveIn([k EXCEPT ![o] = new])
<1> DEFINE k2 == [k EXCEPT ![o] = new]
<1>1. o \in Object /\ o \notin FixedNames /\ o \notin LiveIn(k) /\ o \notin FixedObjects
  BY Names DEF LiveIn
<1>2. k \in [Object -> Kinds \cup {"free"}]
  BY DEF WellTyped
<1>3. k2 \in [Object -> Kinds \cup {"free"}] /\ k2[o] = new /\ \A x \in Object : x # o => k2[x] = k[x]
  BY <1>1, <1>2
<1> HIDE DEF k2
<1>4. o \in LiveIn(k2) /\ \A x \in LiveIn(k) : x \in LiveIn(k2) /\ k2[x] = k[x]
  BY <1>1, <1>3, Colors DEF LiveIn
<1>5. WellTyped(k2, st)
  <2>1. \A x \in Object : st[x] # <<>> => k2[x] = "djuru"
    <3>1. "djuru" # "free"
      OBVIOUS
    <3> QED
      BY <3>1, <1>3 DEF WellTyped
  <2>2. \A x \in Object : \A j \in 1..Len(st[x]) : st[x][j] \in LiveIn(k2) \ {"modules"}
    BY <1>4 DEF WellTyped
  <2>3. \A x \in FixedObjects : k2[x] = Boot[x]
    BY <1>1, <1>3, Names DEF WellTyped
  <2> QED
    BY <2>1, <2>2, <2>3, <1>3 DEF WellTyped
<1>6. WellPointed(k2, ps)
  <2>1. ASSUME NEW p \in ps PROVE WellPlaced(k2, ps, p)
    <3>1. WellPlaced(k, ps, p)
      BY DEF WellPointed
    <3>2. p[1] \in Object => k2[p[1]] = k[p[1]]
      <4>1. p[1] \in Object => p[1] \in LiveIn(k)
        BY <3>1, Names DEF WellPlaced
      <4> QED
        BY <4>1, <1>4
    <3>4. ASSUME p[1] \in Object, Guarded(k, ps, p) PROVE Guarded(k2, ps, p)
      <4>1. CASE /\ k[p[1]] = "extern" /\ p[2] = "classObj" /\ p[3] \in Object /\ k[p[3]] = "class"
                 /\ <<"core", "variables", p[3]>> \in ps
        <5>1. k[o] # "class" /\ p[3] # o
          BY <4>1
        <5> QED
          BY <4>1, <5>1, <1>3, <3>2, <3>4 DEF Guarded
      <4>2. CASE p[2] \in Blackened(k[p[1]])
        BY <4>2, <3>2, <3>4 DEF Guarded
      <4>3. CASE p[2] = "module" /\ <<"modules", "entries", p[3]>> \in ps
        BY <4>3 DEF Guarded
      <4> QED
        BY <3>4, <4>1, <4>2, <4>3 DEF Guarded
    <3> QED
      BY <3>1, <3>4, <1>4 DEF WellPlaced
  <2> QED
    BY <2>1 DEF WellPointed
<1>7. ValuesFit(k2, val, a)
  <2>1. \A s \in Symbols(a) : a.kind[s] # "struct" =>
          /\ val[s] \in LiveIn(k2)
          /\ a.kind[s] # "any" => k2[val[s]] = a.kind[s]
          /\ val[s] = "modules" => s = TheModules
    BY <1>4 DEF ValuesFit
  <2> QED
    BY <2>1 DEF ValuesFit
<1> QED
  BY <1>1, <1>3, <1>4, <1>5, <1>6, <1>7 DEF k2

\* A symbol of its own is given to a value: what is known does not change.
LEMMA ExtendKeeps ==
  ASSUME NEW a, WellKnown(a), NEW k, NEW val, ValuesFit(k, val, a), NEW n, n \notin Symbols(a), NEW o
  PROVE  /\ ValuesFit(k, Put(val, n, o), a)
         /\ \A ps : PointsFit(ps, val, a) => PointsFit(ps, Put(val, n, o), a)
         /\ \A ps : HereFits(ps, val, a) => HereFits(ps, Put(val, n, o), a)
         /\ \A r : LocalsFit(r, val, a) => LocalsFit(r, Put(val, n, o), a)
         /\ \A tr : RootsFit(tr, val, a) => RootsFit(tr, Put(val, n, o), a)
         /\ \A st : StackFits(st, val, a) => StackFits(st, Put(val, n, o), a)
         /\ n \in DOMAIN Put(val, n, o) /\ Put(val, n, o)[n] = o
<1> DEFINE v == Put(val, n, o)
<1>1. n \in DOMAIN v /\ v[n] = o /\ \A s \in DOMAIN val : s \in DOMAIN v /\ (s # n => v[s] = val[s])
  BY DEF Put
<1>2. \A s \in Symbols(a) : s \in DOMAIN v /\ v[s] = val[s]
  BY <1>1 DEF ValuesFit
<1>3. a.here \in Symbols(a) /\ \A s \in DOMAIN Fixed : s \in Symbols(a)
  BY DEF WellKnown
<1> HIDE DEF v
<1>4. ValuesFit(k, v, a)
  <2>1. \A s \in Symbols(a) : a.kind[s] # "struct" =>
          /\ v[s] \in LiveIn(k)
          /\ a.kind[s] # "any" => k[v[s]] = a.kind[s]
          /\ v[s] = "modules" => s = TheModules
    BY <1>2 DEF ValuesFit
  <2>2. \A s \in DOMAIN Fixed : v[s] = s[1]
    BY <1>2, <1>3 DEF ValuesFit
  <2>3. (\A s \in a.fresh : v[s] \in Fresh) /\ \A s \in a.apart : v[s] # v[a.here]
    <3>1. a.fresh \subseteq Symbols(a) /\ a.apart \subseteq Symbols(a)
      BY DEF WellKnown
    <3> QED
      BY <3>1, <1>2, <1>3 DEF ValuesFit
  <2> QED
    BY <1>2, <2>1, <2>2, <2>3 DEF ValuesFit
<1>5. ASSUME NEW ps, PointsFit(ps, val, a) PROVE PointsFit(ps, v, a)
  <2>1. LinksFit(ps, v, a)
    <3>1. \A j \in a.links : j[1] \in Symbols(a) /\ j[3] \in Symbols(a)
      BY DEF WellKnown
    <3> QED
      BY <3>1, <1>2, <1>5 DEF PointsFit, LinksFit
  <2>2. MayFit(ps, v, a)
    <3>1. \A m \in a.may : m[3] = Unknown \/ v[m[3]] = val[m[3]]
      BY <1>2 DEF WellKnown
    <3> QED
      BY <3>1, <1>5 DEF PointsFit, MayFit
  <2>3. RawFit(ps, v, a)
    <3>1. \A s \in a.raw : v[s] = val[s]
      BY <1>2 DEF WellKnown
    <3> QED
      BY <3>1, <1>5 DEF PointsFit, RawFit
  <2> QED
    BY <2>1, <2>2, <2>3, <1>5 DEF PointsFit
<1>6. ASSUME NEW ps, HereFits(ps, val, a) PROVE HereFits(ps, v, a)
  BY <1>2, <1>3, <1>6 DEF HereFits
<1>7. ASSUME NEW r, LocalsFit(r, val, a) PROVE LocalsFit(r, v, a)
  <2>1. \A x \in DOMAIN a.env : v[a.env[x]] = val[a.env[x]]
    BY <1>2 DEF WellKnown
  <2> QED
    BY <2>1, <1>7 DEF LocalsFit
<1>8. ASSUME NEW tr, RootsFit(tr, val, a) PROVE RootsFit(tr, v, a)
  <2>1. \A j \in 1..Len(a.temp) : v[a.temp[j]] = val[a.temp[j]]
    <3>1. a.temp \in Seq(Symbols(a))
      BY DEF WellKnown
    <3>2. \A j \in 1..Len(a.temp) : a.temp[j] \in Symbols(a)
      BY <3>1
    <3> QED
      BY <3>2, <1>2
  <2> QED
    BY <2>1, <1>8 DEF RootsFit
<1>9. ASSUME NEW st, StackFits(st, val, a) PROVE StackFits(st, v, a)
  <2>1. \A j \in 1..Len(a.stk) : v[a.stk[j]] = val[a.stk[j]]
    <3>1. a.stk \in Seq(Symbols(a))
      BY DEF WellKnown
    <3>2. \A j \in 1..Len(a.stk) : a.stk[j] \in Symbols(a)
      BY <3>1
    <3> QED
      BY <3>2, <1>2
  <2>2. v[a.here] = val[a.here]
    BY <1>2, <1>3
  <2> QED
    BY <2>1, <2>2, <1>9 DEF StackFits
<1> QED
  BY <1>1, <1>4, <1>5, <1>6, <1>7, <1>8, <1>9 DEF v

\* A local gets a value of its own.
LEMMA AssignKeeps ==
  ASSUME NEW r, NEW a, WellKnown(a), NEW val, LocalsFit(r, val, a), NEW x, x \notin FixedNames \cup {Here, Garbage},
         NEW s, NEW b, b.env = Put(a.env, x, s)
  PROVE  LocalsFit([y \in DOMAIN r \cup {x} |-> IF y = x THEN val[s] ELSE r[y]], val, b)
<1> DEFINE r2 == [y \in DOMAIN r \cup {x} |-> IF y = x THEN val[s] ELSE r[y]]
<1>1. DOMAIN r2 = DOMAIN r \cup {x} /\ r2[x] = val[s] /\ \A y \in DOMAIN r : y # x => r2[y] = r[y]
  OBVIOUS
<1>2. DOMAIN b.env = DOMAIN a.env \cup {x} /\ b.env[x] = s /\ \A y \in DOMAIN a.env : y # x => b.env[y] = a.env[y]
  BY DEF Put
<1> HIDE DEF r2
<1>3. DOMAIN r2 \cap (FixedNames \cup {Here, Garbage}) = {}
  BY <1>1 DEF LocalsFit
<1>4. ASSUME NEW y \in DOMAIN b.env PROVE y \in DOMAIN r2 /\ r2[y] = val[b.env[y]]
  BY <1>1, <1>2 DEF LocalsFit
<1> QED
  BY <1>3, <1>4 DEF LocalsFit, r2

\* A symbol of its own is known for an object.
LEMMA GiveKeeps ==
  ASSUME NEW a, WellKnown(a), NEW k, NEW val, ValuesFit(k, val, a), NEW n, n \notin Symbols(a), n \in DOMAIN val,
         val[n] \in LiveIn(k) \ {"modules"}, NEW type \in Kinds \cup {"any"}, type # "any" => k[val[n]] = type,
         NEW b, b.kind = Put(a.kind, n, type), b.here = a.here, b.fresh \subseteq a.fresh \cup {n}, b.apart \subseteq a.apart \cup {n},
         n \in b.fresh => val[n] \in Fresh, n \in b.apart => val[n] # val[a.here]
  PROVE  ValuesFit(k, val, b)
<1>1. DOMAIN b.kind = DOMAIN a.kind \cup {n} /\ b.kind[n] = type /\ \A s \in DOMAIN a.kind : s # n => b.kind[s] = a.kind[s]
  BY DEF Put
<1>2. Symbols(b) = Symbols(a) \cup {n} /\ \A s \in Symbols(a) : b.kind[s] = a.kind[s]
  BY <1>1 DEF Symbols
<1>3. \A s \in Symbols(b) : s \in DOMAIN val
  BY <1>2 DEF ValuesFit
<1>4. ASSUME NEW s \in Symbols(b), b.kind[s] # "struct"
      PROVE  val[s] \in LiveIn(k) /\ (b.kind[s] # "any" => k[val[s]] = b.kind[s]) /\ (val[s] = "modules" => s = TheModules)
  <2>1. CASE s = n
    BY <2>1, <1>1
  <2>2. CASE s # n
    BY <2>2, <1>2, <1>4 DEF ValuesFit
  <2> QED
    BY <2>1, <2>2
<1>5. \A s \in b.fresh : val[s] \in Fresh
  BY DEF ValuesFit
<1>6. \A s \in b.apart : val[s] # val[b.here]
  BY DEF ValuesFit
<1> QED
  BY <1>3, <1>4, <1>5, <1>6 DEF ValuesFit

\* The pointers of a new object.
Given(o, val, a, holds) == {<<o, h[1], IF h[2] = Garbage THEN Garbage ELSE val[Sym(a, h[2])]>> : h \in holds}

\* A new object, with pointers to what is known, or with garbage.
LEMMA NewKeeps ==
  ASSUME NEW k, NEW st, WellTyped(k, st), NEW ps, WellPointed(k, ps), NEW a, WellKnown(a), NEW val, ValuesFit(k, val, a),
         PointsFit(ps, val, a), NEW o \in Fresh, k[o] = "free", NEW i, NEW act, AllowsNew(a, i, act),
         <<act.x, i>> \in DOMAIN val, val[<<act.x, i>>] = o
  PROVE  LET k2  == [k EXCEPT ![o] = act.label]
             ps2 == ps \cup Given(o, val, a, act.holds)
             b   == AfterNew(a, i, act)
         IN /\ WellTyped(k2, st) /\ WellPointed(k2, ps2)
            /\ ValuesFit(k2, val, b) /\ PointsFit(ps2, val, b)
<1> DEFINE type == act.label
           holds == act.holds
           n   == <<act.x, i>>
           k2  == [k EXCEPT ![o] = type]
           more == Given(o, val, a, holds)
           ps2 == ps \cup more
           b   == AfterNew(a, i, act)
<1>1. type \in Kinds /\ n \notin Symbols(a)
      /\ \A h \in holds : (h = <<"frames", Garbage>> /\ type = "djuru") \/ MayHold(a, type, h[1], Sym(a, h[2]))
  BY DEF AllowsNew, CanAssign
<1>2. /\ b.kind = Put(a.kind, n, type) /\ b.fresh = a.fresh \cup {n} /\ b.apart = a.apart \cup {n} /\ b.here = a.here
      /\ b.links = a.links \cup {<<n, h[1], Sym(a, h[2])>> : h \in {h \in holds : h[2] # Garbage}}
      /\ b.raw = (IF <<"frames", Garbage>> \in holds THEN a.raw \cup {n} ELSE a.raw)
      /\ b.may = a.may /\ b.structs = a.structs
  BY DEF AfterNew, Assigned, WellKnown, IsKnowledge
<1>3. \A p : p \in more <=> \E h \in holds : p = <<o, h[1], IF h[2] = Garbage THEN Garbage ELSE val[Sym(a, h[2])]>>
  BY DEF Given
<1>4. /\ WellTyped(k2, st) /\ WellPointed(k2, ps) /\ ValuesFit(k2, val, a)
      /\ o \in LiveIn(k2) /\ o \notin FixedNames /\ o \in Object /\ o \notin LiveIn(k)
      /\ k2[o] = type /\ \A x \in LiveIn(k) : x \in LiveIn(k2)
  <2>1. \A new \in Kinds : WellTyped([k EXCEPT ![o] = new], st)
    BY AllocateKeeps
  <2>2. \A new \in Kinds : WellPointed([k EXCEPT ![o] = new], ps)
    BY AllocateKeeps
  <2>3. \A new \in Kinds : ValuesFit([k EXCEPT ![o] = new], val, a)
    BY AllocateKeeps
  <2>4. \A new \in Kinds : o \in LiveIn([k EXCEPT ![o] = new]) /\ [k EXCEPT ![o] = new][o] = new
    BY AllocateKeeps
  <2>5. \A new \in Kinds : \A x \in LiveIn(k) : x \in LiveIn([k EXCEPT ![o] = new])
    BY AllocateKeeps
  <2>6. o \notin FixedNames /\ o \in Object /\ o \notin LiveIn(k)
    BY Names DEF LiveIn
  <2> QED
    BY <1>1, <2>1, <2>2, <2>3, <2>4, <2>5, <2>6
<1>5. o \notin Structs /\ o # "modules" /\ o # "vm"
  BY <1>4, Names DEF FixedObjects
<1>6. val[n] = o /\ n \in DOMAIN val
  OBVIOUS
<1> HIDE DEF n, k2, more, b, type, holds
<1>7. ValuesFit(k2, val, b)
  <2>1. val[a.here] # o
    <3>1. a.here \in Symbols(a) /\ a.kind[a.here] # "struct"
      BY DEF WellKnown
    <3>2. val[a.here] \in LiveIn(k)
      BY <3>1 DEF ValuesFit
    <3> QED
      BY <3>2, <1>4
  <2> QED
    BY <2>1, <1>1, <1>2, <1>4, <1>5, <1>6, GiveKeeps
<1>8. ASSUME NEW h \in holds, h[2] # Garbage
      PROVE  /\ Sym(a, h[2]) \in Symbols(a) /\ val[Sym(a, h[2])] \in LiveIn(k2) \ {"modules"} /\ val[Sym(a, h[2])] \in Object
             /\ val[Sym(a, h[2])] \notin Structs \cup {Garbage}
             /\ Guarded(k2, ps, <<o, h[1], val[Sym(a, h[2])]>>)
  <2> DEFINE t == Sym(a, h[2])
             m == val[t]
             p == <<o, h[1], m>>
  <2>1. MayHold(a, type, h[1], t)
    <3>1. h # <<"frames", Garbage>>
      BY <1>8
    <3> QED
      BY <3>1, <1>1
  <2>2. IsObject(a, t) /\ t \in Symbols(a)
    BY <2>1 DEF MayHold, IsObject
  <2>3. m \in LiveIn(k2) \ {"modules"} /\ m \in Object /\ m \notin Structs \cup {Garbage, Freed}
        /\ (a.kind[t] # "any" => k2[m] = a.kind[t])
    <3>1. IsObject(a, t) /\ ValuesFit(k2, val, a)
      BY <2>2, <1>4
    <3> HIDE DEF t
    <3> QED
      BY <3>1, ObjectOf
  <2>4. p[1] = o /\ p[2] = h[1] /\ p[3] = m
    OBVIOUS
  <2>5. val[TheModules] = "modules" /\ val[TheCore] = "core"
    BY FixedSymbols DEF ValuesFit, TheModules, TheCore
  <2>6. ASSUME NEW x, <<x, "entries", t>> \in a.links \/ <<x, "variables", t>> \in a.links
        PROVE  /\ <<x, "entries", t>> \in a.links => <<val[x], "entries", m>> \in ps
               /\ <<x, "variables", t>> \in a.links => <<val[x], "variables", m>> \in ps
    <3>1. \A j \in a.links : <<val[j[1]], j[2], val[j[3]]>> \in ps
      BY DEF PointsFit, LinksFit
    <3>2. <<x, "entries", t>>[1] = x /\ <<x, "entries", t>>[2] = "entries" /\ <<x, "entries", t>>[3] = t
      OBVIOUS
    <3>3. <<x, "variables", t>>[1] = x /\ <<x, "variables", t>>[2] = "variables" /\ <<x, "variables", t>>[3] = t
      OBVIOUS
    <3> HIDE DEF t
    <3> QED
      BY <3>1, <3>2, <3>3
  <2> HIDE DEF m, p, t
  <2>7. Guarded(k2, ps, p)
    <3>1. CASE h[1] \in Blackened(type)
      BY <3>1, <2>4, <1>4 DEF Guarded
    <3>2. CASE h[1] = "module" /\ <<TheModules, "entries", t>> \in a.links
      <4>1. <<"modules", "entries", p[3]>> \in ps
        BY <3>2, <2>4, <2>5, <2>6
      <4> QED
        BY <3>2, <4>1, <2>4 DEF Guarded
    <3>3. CASE type = "extern" /\ h[1] = "classObj" /\ a.kind[t] = "class" /\ <<TheCore, "variables", t>> \in a.links
      <4>1. <<"core", "variables", p[3]>> \in ps
        BY <3>3, <2>4, <2>5, <2>6
      <4>2. k2[p[3]] = "class" /\ p[3] \in Object
        BY <3>3, <2>3, <2>4
      <4> QED
        BY <3>3, <4>1, <4>2, <2>4, <1>4 DEF Guarded
    <3> QED
      BY <2>1, <3>1, <3>2, <3>3 DEF MayHold
  <2> QED
    BY <2>2, <2>3, <2>7 DEF m, p, t
<1>9. ASSUME NEW p \in more
      PROVE  /\ p = <<p[1], p[2], p[3]>> /\ p[1] = o /\ p[3] \in (LiveIn(k2) \ {"modules"}) \cup {Garbage}
             /\ p[3] \notin Structs /\ Guarded(k2, ps, p)
             /\ p[3] = Garbage => p[2] = "frames" /\ <<"frames", Garbage>> \in holds
  <2>1. PICK h \in holds : p = <<o, h[1], IF h[2] = Garbage THEN Garbage ELSE val[Sym(a, h[2])]>>
    BY <1>3
  <2>2. CASE h[2] = Garbage
    <3>1. ~MayHold(a, type, h[1], Sym(a, h[2]))
      <4> SUFFICES ASSUME Sym(a, Garbage) \in Symbols(a) PROVE FALSE
        BY <2>2 DEF MayHold, IsObject
      <4>1. Garbage # Here
        BY DEF Here, Garbage
      <4>2. Garbage \notin FixedNames
        BY DEF FixedNames, Structs, Garbage
      <4>3. Garbage \notin DOMAIN a.env
        BY DEF WellKnown
      <4> QED
        BY <4>1, <4>2, <4>3, SymbolOf
    <3>2. h = <<"frames", Garbage>> /\ type = "djuru"
      BY <3>1, <1>1
    <3>3. p = <<o, "frames", Garbage>>
      BY <2>1, <3>2
    <3>4. p[1] = o /\ p[2] = "frames" /\ p[3] = Garbage
      BY <3>3
    <3>5. Guarded(k2, ps, p)
      BY <3>2, <3>4, <1>4, Colors DEF Guarded
    <3>6. <<"frames", Garbage>> \in holds
      BY <3>2
    <3> QED
      BY <3>3, <3>4, <3>5, <3>6, Names
  <2>3. CASE h[2] # Garbage
    <3>1. p = <<o, h[1], val[Sym(a, h[2])]>>
      BY <2>1, <2>3
    <3>2. p[1] = o /\ p[2] = h[1] /\ p[3] = val[Sym(a, h[2])]
      BY <3>1
    <3>3. val[Sym(a, h[2])] \in LiveIn(k2) \ {"modules"} /\ val[Sym(a, h[2])] \notin Structs \cup {Garbage}
      BY <2>3, <1>8
    <3>4. Guarded(k2, ps, p)
      BY <3>1, <2>3, <1>8
    <3> QED
      BY <3>1, <3>2, <3>3, <3>4
  <2> QED
    BY <2>2, <2>3
<1>10. WellPointed(k2, ps2)
  <2>1. \A p : Guarded(k2, ps, p) => Guarded(k2, ps2, p)
    BY DEF Guarded
  <2>2. ASSUME NEW p \in ps PROVE WellPlaced(k2, ps2, p)
    BY <2>1, <1>4 DEF WellPointed, WellPlaced
  <2>3. ASSUME NEW p \in more PROVE WellPlaced(k2, ps2, p)
    BY <2>1, <1>4, <1>5, <1>9, Names DEF WellPlaced, FixedObjects, Garbage
  <2> QED
    BY <2>2, <2>3, <1>4 DEF WellPointed
<1>11. LinksFit(ps2, val, b)
  <2>1. ASSUME NEW j \in b.links PROVE <<val[j[1]], j[2], val[j[3]]>> \in ps2
    <3>1. CASE j \in a.links
      BY <3>1 DEF PointsFit, LinksFit
    <3>2. CASE j \notin a.links
      <4>1. PICK h \in holds : h[2] # Garbage /\ j = <<n, h[1], Sym(a, h[2])>>
        BY <3>2, <1>2
      <4>2. <<val[j[1]], j[2], val[j[3]]>> = <<o, h[1], val[Sym(a, h[2])]>>
        BY <4>1, <1>6
      <4> QED
        BY <4>1, <4>2, <1>3
    <3> QED
      BY <3>1, <3>2
  <2> QED
    BY <2>1 DEF LinksFit
<1>12. MayFit(ps2, val, b)
  <2>1. \A p \in more : p[1] \notin Structs
    BY <1>5, <1>9
  <2> QED
    BY <2>1, <1>2 DEF PointsFit, MayFit
<1>13. StructsFit(ps2, b)
  <2>1. \A p \in more : p[3] \notin Structs
    BY <1>9
  <2> QED
    BY <2>1, <1>2 DEF PointsFit, StructsFit
<1>14. RawFit(ps2, val, b)
  <2>1. ASSUME NEW p \in ps2, p[3] = Garbage PROVE p[2] = "frames" /\ \E s \in b.raw : val[s] = p[1]
    <3>1. CASE p \in ps
      BY <3>1, <2>1, <1>2 DEF PointsFit, RawFit
    <3>2. CASE p \notin ps
      <4>1. p \in more
        BY <3>2
      <4>2. p[2] = "frames" /\ p[1] = o /\ <<"frames", Garbage>> \in holds
        BY <2>1, <4>1, <1>9
      <4>3. n \in b.raw
        BY <4>2, <1>2
      <4> QED
        BY <4>2, <4>3, <1>6
    <3> QED
      BY <3>1, <3>2
  <2> QED
    BY <2>1 DEF RawFit
<1> QED
  BY <1>4, <1>7, <1>10, <1>11, <1>12, <1>13, <1>14 DEF PointsFit, n, k2, more, b, type, holds

\* Less is known after what is not held is left out.
LEMMA OnlyHeldFits ==
  ASSUME NEW a, IsKnowledge(a), NEW val, NEW k, NEW r, NEW ps, NEW tr, NEW st,
         ValuesFit(k, val, a), LocalsFit(r, val, a), PointsFit(ps, val, a), HereFits(ps, val, a), RootsFit(tr, val, a),
         StackFits(st, val, a)
  PROVE  /\ ValuesFit(k, val, OnlyHeld(a)) /\ LocalsFit(r, val, OnlyHeld(a)) /\ PointsFit(ps, val, OnlyHeld(a))
         /\ HereFits(ps, val, OnlyHeld(a)) /\ RootsFit(tr, val, OnlyHeld(a)) /\ StackFits(st, val, OnlyHeld(a))
<1> DEFINE held == Held(a)
           b == OnlyHeld(a)
<1>1. /\ b.env = Restrict(a.env, {x \in DOMAIN a.env : a.env[x] \in held})
      /\ b.kind = Restrict(a.kind, DOMAIN a.kind \cap held)
      /\ b.fresh = a.fresh \cap held /\ b.apart = a.apart \cap held
      /\ b.links = {l \in a.links : {l[1], l[3]} \subseteq held}
      /\ b.may = {<<p[1], p[2], IF p[3] \in held THEN p[3] ELSE Unknown>> : p \in a.may}
      /\ b.structs = a.structs /\ b.temp = a.temp /\ b.stk = a.stk /\ b.under = a.under
      /\ b.here = a.here /\ b.raw = a.raw
  BY DEF OnlyHeld, IsKnowledge
<1>2. /\ DOMAIN b.env \subseteq DOMAIN a.env /\ \A x \in DOMAIN b.env : b.env[x] = a.env[x]
      /\ DOMAIN b.kind \subseteq DOMAIN a.kind /\ \A s \in DOMAIN b.kind : b.kind[s] = a.kind[s]
  BY <1>1 DEF Restrict
<1> HIDE DEF b, held
<1>3. ValuesFit(k, val, b)
  BY <1>1, <1>2 DEF ValuesFit, Symbols
<1>4. LocalsFit(r, val, b)
  BY <1>2 DEF LocalsFit
<1>5. PointsFit(ps, val, b)
  <2>1. LinksFit(ps, val, b) /\ StructsFit(ps, b) /\ RawFit(ps, val, b)
    BY <1>1 DEF PointsFit, LinksFit, StructsFit, RawFit
  <2>2. ASSUME NEW p \in ps, p[1] \in Structs \ {"vm"}, p[3] \in Object
        PROVE  \E m \in b.may : m[1] = p[1] /\ m[2] = p[2] /\ (m[3] = Unknown \/ val[m[3]] = p[3])
    <3>1. PICK m \in a.may : m[1] = p[1] /\ m[2] = p[2] /\ (m[3] = Unknown \/ val[m[3]] = p[3])
      BY <2>2 DEF PointsFit, MayFit
    <3> DEFINE m2 == <<m[1], m[2], IF m[3] \in held THEN m[3] ELSE Unknown>>
    <3>2. m2 \in b.may
      BY <1>1
    <3>3. m2[1] = m[1] /\ m2[2] = m[2] /\ (m2[3] = m[3] \/ m2[3] = Unknown)
      OBVIOUS
    <3> QED
      BY <3>1, <3>2, <3>3
  <2> QED
    BY <2>1, <2>2 DEF PointsFit, MayFit
<1>6. HereFits(ps, val, b) /\ RootsFit(tr, val, b) /\ StackFits(st, val, b)
  BY <1>1 DEF HereFits, RootsFit, StackFits
<1> QED
  BY <1>3, <1>4, <1>5, <1>6 DEF b

(****************************************************************************)
(* The temporary roots, and the stack of the djuru that runs.               *)
(****************************************************************************)
LEMMA RootKeeps ==
  ASSUME NEW a, WellKnown(a), NEW val, NEW tr, RootsFit(tr, val, a), NEW s \in Symbols(a), val[s] \in Object
  PROVE  RootsFit(Append(tr, val[s]), val, [a EXCEPT !.temp = Append(@, s)])
<1> DEFINE b == [a EXCEPT !.temp = Append(@, s)]
           tr2 == Append(tr, val[s])
<1>1. b.temp = Append(a.temp, s)
  BY DEF WellKnown, IsKnowledge
<1>2. a.temp \in Seq(Symbols(a)) /\ tr \in Seq(Object) /\ Len(tr) = Len(a.temp)
  BY DEF WellKnown, RootsFit
<1>3. /\ b.temp \in Seq(Symbols(a)) /\ Len(b.temp) = Len(a.temp) + 1 /\ b.temp[Len(a.temp) + 1] = s
      /\ \A j \in 1..Len(a.temp) : b.temp[j] = a.temp[j]
  BY <1>1, <1>2
<1>4. /\ tr2 \in Seq(Object) /\ Len(tr2) = Len(tr) + 1 /\ tr2[Len(tr) + 1] = val[s]
      /\ \A j \in 1..Len(tr) : tr2[j] = tr[j]
  BY <1>2
<1>5. Len(a.temp) \in Nat
  BY <1>2
<1> HIDE DEF b, tr2
<1>6. ASSUME NEW j \in 1..Len(b.temp) PROVE tr2[j] = val[b.temp[j]]
  <2>1. CASE j \in 1..Len(a.temp)
    BY <2>1, <1>2, <1>3, <1>4 DEF RootsFit
  <2>2. CASE j = Len(a.temp) + 1
    BY <2>2, <1>2, <1>3, <1>4
  <2> QED
    BY <2>1, <2>2, <1>3, <1>5
<1> QED
  BY <1>2, <1>3, <1>4, <1>6 DEF RootsFit, b, tr2

\* Without its last element.
LEMMA FrontOf ==
  ASSUME NEW S, NEW seq \in Seq(S), seq # <<>>
  PROVE  /\ Front(seq) \in Seq(S) /\ Len(Front(seq)) = Len(seq) - 1 /\ Len(seq) \in Nat \ {0}
         /\ \A j \in 1..Len(seq) - 1 : Front(seq)[j] = seq[j]
         /\ Last(seq) = seq[Len(seq)] /\ Last(seq) \in S
<1>1. Len(seq) \in Nat \ {0}
  OBVIOUS
<1>2. Front(seq) = [j \in 1..Len(seq) - 1 |-> seq[j]] \/ Front(seq) = SubSeq(seq, 1, Len(seq) - 1)
  BY DEF Front
<1> QED
  BY <1>1, <1>2 DEF Last

LEMMA UnrootKeeps ==
  ASSUME NEW a, WellKnown(a), NEW val, NEW tr, RootsFit(tr, val, a), a.temp # <<>>
  PROVE  RootsFit(Front(tr), val, [a EXCEPT !.temp = Front(@)])
<1> DEFINE b == [a EXCEPT !.temp = Front(@)]
<1>1. b.temp = Front(a.temp)
  BY DEF WellKnown, IsKnowledge
<1>2. a.temp \in Seq(Symbols(a)) /\ tr \in Seq(Object) /\ Len(tr) = Len(a.temp)
  BY DEF WellKnown, RootsFit
<1>3. tr # <<>>
  BY <1>2
<1>4. /\ Len(Front(a.temp)) = Len(a.temp) - 1 /\ Len(a.temp) \in Nat \ {0}
      /\ \A j \in 1..Len(a.temp) - 1 : Front(a.temp)[j] = a.temp[j]
  BY <1>2, FrontOf
<1>5. /\ Front(tr) \in Seq(Object) /\ Len(Front(tr)) = Len(tr) - 1
      /\ \A j \in 1..Len(tr) - 1 : Front(tr)[j] = tr[j]
  BY <1>2, <1>3, FrontOf
<1> HIDE DEF b
<1> QED
  BY <1>1, <1>2, <1>4, <1>5 DEF RootsFit, b

\* The place of one of the last q of p elements.
LEMMA Within ==
  /\ \A p, q, u \in Nat : \A j \in 1..q : p - q >= u => (p - q) + j \in 1..p
  /\ \A p, q, u \in Nat : \A j \in 1..q - 1 : p - q >= u => (p - q) + j \in 1..p - 1
  /\ \A p, q, u \in Nat : p - q >= u /\ q # 0 => p # 0
OBVIOUS

\* A djuru that runs has its stack changed at the top.
LEMMA PushKeeps ==
  ASSUME NEW k, NEW st, WellTyped(k, st), NEW a, WellKnown(a), NEW val, ValuesFit(k, val, a), StackFits(st, val, a),
         NEW s \in Symbols(a), val[s] \in LiveIn(k) \ {"modules"}
  PROVE  LET st2 == [st EXCEPT ![val[a.here]] = Append(st[val[a.here]], val[s])] IN
         WellTyped(k, st2) /\ StackFits(st2, val, [a EXCEPT !.stk = Append(@, s)])
<1> DEFINE d == val[a.here]
           top == st[d]
           m == val[s]
           top2 == Append(top, m)
           st2 == [st EXCEPT ![d] = top2]
           b == [a EXCEPT !.stk = Append(@, s)]
<1>1. d \in Object /\ k[d] = "djuru" /\ m \in Object /\ m \in LiveIn(k) \ {"modules"}
  <2>1. a.here \in Symbols(a) /\ a.kind[a.here] = "djuru"
    BY DEF WellKnown
  <2> QED
    BY <2>1 DEF ValuesFit, LiveIn
<1>2. b.stk = Append(a.stk, s) /\ b.here = a.here /\ b.under = a.under
  BY DEF WellKnown, IsKnowledge
<1>3. a.stk \in Seq(Symbols(a)) /\ top \in Seq(Object) /\ a.under \in Nat
  BY <1>1 DEF WellKnown, WellTyped
<1>4. /\ top2 \in Seq(Object) /\ Len(top2) = Len(top) + 1 /\ top2[Len(top) + 1] = m /\ Len(top) \in Nat
      /\ \A j \in 1..Len(top) : top2[j] = top[j]
  BY <1>1, <1>3
<1>5. /\ Len(b.stk) = Len(a.stk) + 1 /\ b.stk[Len(a.stk) + 1] = s /\ Len(a.stk) \in Nat
      /\ \A j \in 1..Len(a.stk) : b.stk[j] = a.stk[j]
  BY <1>2, <1>3
<1>6. st2 \in [Object -> Seq(Object)] /\ st2[d] = top2 /\ \A o \in Object : o # d => st2[o] = st[o]
  BY <1>1, <1>4 DEF WellTyped
<1>7. Len(top) - Len(a.stk) >= a.under /\ \A j \in 1..Len(a.stk) : top[(Len(top) - Len(a.stk)) + j] = val[a.stk[j]]
  BY DEF StackFits
<1> HIDE DEF top2, st2, b, top, m
<1>8. WellTyped(k, st2)
  <2>1. \A o \in Object : st2[o] # <<>> => k[o] = "djuru"
    BY <1>1, <1>6 DEF WellTyped
  <2>2. ASSUME NEW o \in Object, NEW j \in 1..Len(st2[o]) PROVE st2[o][j] \in LiveIn(k) \ {"modules"}
    <3>1. CASE o # d
      BY <3>1, <2>2, <1>6 DEF WellTyped
    <3>2. CASE o = d
      <4>1. CASE j \in 1..Len(top)
        BY <4>1, <3>2, <1>1, <1>4, <1>6 DEF WellTyped, top
      <4>2. CASE j = Len(top) + 1
        BY <4>2, <3>2, <1>1, <1>4, <1>6
      <4> QED
        BY <4>1, <4>2, <3>2, <1>4, <1>6
    <3> QED
      BY <3>1, <3>2
  <2> QED
    BY <2>1, <2>2, <1>6 DEF WellTyped
<1>9. StackFits(st2, val, b)
  <2>1. st2[val[b.here]] = top2
    BY <1>2, <1>6
  <2>2. Len(top2) - Len(b.stk) = Len(top) - Len(a.stk)
    BY <1>4, <1>5
  <2>3. ASSUME NEW j \in 1..Len(b.stk) PROVE top2[(Len(top2) - Len(b.stk)) + j] = val[b.stk[j]]
    <3>1. CASE j \in 1..Len(a.stk)
      <4> DEFINE at == (Len(top2) - Len(b.stk)) + j
      <4>1. at = (Len(top) - Len(a.stk)) + j
        BY <2>2
      <4>2. (Len(top) - Len(a.stk)) + j \in 1..Len(top)
        BY <3>1, <1>3, <1>4, <1>5, <1>7, Within
      <4>3. top[(Len(top) - Len(a.stk)) + j] = val[a.stk[j]] /\ b.stk[j] = a.stk[j]
        BY <3>1, <1>5, <1>7
      <4> HIDE DEF at
      <4>4. top2[at] = val[b.stk[j]]
        BY <4>1, <4>2, <4>3, <1>4
      <4> QED
        BY <4>4 DEF at
    <3>2. CASE j = Len(a.stk) + 1
      <4>1. (Len(top2) - Len(b.stk)) + j = Len(top) + 1
        <5> DEFINE below == Len(top)
                   known == Len(a.stk)
        <5>1. Len(top2) = below + 1 /\ Len(b.stk) = known + 1 /\ below \in Nat /\ known \in Nat /\ j = known + 1
          BY <3>2, <1>4, <1>5
        <5> HIDE DEF below, known
        <5>2. (Len(top2) - Len(b.stk)) + j = below + 1
          BY <5>1
        <5> QED
          BY <5>2 DEF below
      <4>2. top2[(Len(top2) - Len(b.stk)) + j] = m
        BY <4>1, <1>4
      <4>3. b.stk[j] = s
        BY <3>2, <1>5
      <4>4. val[b.stk[j]] = m
        BY <4>3 DEF m
      <4> QED
        BY <4>2, <4>4
    <3>3. j \in 1..Len(a.stk) \/ j = Len(a.stk) + 1
      <4>1. \A n \in Nat : \A i \in 1..n + 1 : i \in 1..n \/ i = n + 1
        OBVIOUS
      <4> QED
        BY <4>1, <1>5
    <3> QED
      BY <3>1, <3>2, <3>3
  <2>4. Len(top2) - Len(b.stk) >= b.under
    BY <2>2, <1>2, <1>7
  <2> QED
    BY <2>1, <2>3, <2>4 DEF StackFits
<1> QED
  BY <1>8, <1>9 DEF top2, st2, b, top, m

LEMMA DropKeeps ==
  ASSUME NEW k, NEW st, WellTyped(k, st), NEW a, WellKnown(a), NEW val, ValuesFit(k, val, a), StackFits(st, val, a),
         a.stk # <<>>
  PROVE  LET st2 == [st EXCEPT ![val[a.here]] = Front(st[val[a.here]])] IN
         WellTyped(k, st2) /\ StackFits(st2, val, [a EXCEPT !.stk = Front(@)])
<1> DEFINE d == val[a.here]
           top == st[d]
           top2 == Front(top)
           st2 == [st EXCEPT ![d] = top2]
           b == [a EXCEPT !.stk = Front(@)]
<1>1. d \in Object /\ k[d] = "djuru"
  <2>1. a.here \in Symbols(a) /\ a.kind[a.here] = "djuru"
    BY DEF WellKnown
  <2> QED
    BY <2>1 DEF ValuesFit, LiveIn
<1>2. b.stk = Front(a.stk) /\ b.here = a.here /\ b.under = a.under
  BY DEF WellKnown, IsKnowledge
<1>3. a.stk \in Seq(Symbols(a)) /\ top \in Seq(Object) /\ a.under \in Nat
  BY <1>1 DEF WellKnown, WellTyped
<1>4. Len(top) - Len(a.stk) >= a.under /\ \A j \in 1..Len(a.stk) : top[(Len(top) - Len(a.stk)) + j] = val[a.stk[j]]
  BY DEF StackFits
<1>5. /\ Len(b.stk) = Len(a.stk) - 1 /\ Len(a.stk) \in Nat \ {0}
      /\ \A j \in 1..Len(a.stk) - 1 : b.stk[j] = a.stk[j]
  BY <1>2, <1>3, FrontOf
<1>6. top # <<>>
  <2>1. Len(top) \in Nat
    BY <1>3
  <2>2. Len(top) # 0
    BY <2>1, <1>3, <1>4, <1>5, Within
  <2> HIDE DEF top
  <2> QED
    BY <2>2
<1>7. /\ top2 \in Seq(Object) /\ Len(top2) = Len(top) - 1 /\ Len(top) \in Nat \ {0}
      /\ \A j \in 1..Len(top) - 1 : top2[j] = top[j]
  BY <1>3, <1>6, FrontOf
<1>8. st2 \in [Object -> Seq(Object)] /\ st2[d] = top2 /\ \A o \in Object : o # d => st2[o] = st[o]
  BY <1>1, <1>7 DEF WellTyped
<1> HIDE DEF top2, st2, b, top
<1>9. WellTyped(k, st2)
  <2>1. \A o \in Object : st2[o] # <<>> => k[o] = "djuru"
    BY <1>1, <1>8 DEF WellTyped
  <2>2. ASSUME NEW o \in Object, NEW j \in 1..Len(st2[o]) PROVE st2[o][j] \in LiveIn(k) \ {"modules"}
    <3>1. CASE o # d
      BY <3>1, <2>2, <1>8 DEF WellTyped
    <3>2. CASE o = d
      <4>1. j \in 1..Len(top) - 1 /\ j \in 1..Len(top)
        BY <3>2, <1>7, <1>8
      <4> QED
        BY <4>1, <3>2, <1>1, <1>7, <1>8 DEF WellTyped, top
    <3> QED
      BY <3>1, <3>2
  <2> QED
    BY <2>1, <2>2, <1>8 DEF WellTyped
<1>10. StackFits(st2, val, b)
  <2>1. st2[val[b.here]] = top2
    BY <1>2, <1>8
  <2>2. Len(top2) - Len(b.stk) = Len(top) - Len(a.stk)
    BY <1>5, <1>7
  <2>3. ASSUME NEW j \in 1..Len(b.stk) PROVE top2[(Len(top2) - Len(b.stk)) + j] = val[b.stk[j]]
    <3> DEFINE at == (Len(top2) - Len(b.stk)) + j
    <3>1. at = (Len(top) - Len(a.stk)) + j
      BY <2>2
    <3>2. j \in 1..Len(a.stk) - 1 /\ j \in 1..Len(a.stk)
      BY <1>5
    <3>3. (Len(top) - Len(a.stk)) + j \in 1..Len(top) - 1
      BY <3>2, <1>3, <1>4, <1>5, <1>7, Within
    <3>4. top[(Len(top) - Len(a.stk)) + j] = val[a.stk[j]] /\ b.stk[j] = a.stk[j]
      BY <3>2, <1>4, <1>5
    <3> HIDE DEF at
    <3>5. top2[at] = val[b.stk[j]]
      BY <3>1, <3>3, <3>4, <1>7
    <3> QED
      BY <3>5 DEF at
  <2>4. Len(top2) - Len(b.stk) >= b.under
    BY <2>2, <1>2, <1>4
  <2> QED
    BY <2>1, <2>3, <2>4 DEF StackFits
<1> QED
  BY <1>9, <1>10 DEF top2, st2, b, top

\* Another djuru gets its first slot.
LEMMA SlotKeeps ==
  ASSUME NEW k, NEW st, WellTyped(k, st), NEW a, WellKnown(a), NEW val, ValuesFit(k, val, a), StackFits(st, val, a),
         NEW s \in a.apart, a.kind[s] = "djuru", NEW m \in LiveIn(k) \ {"modules"}
  PROVE  LET st2 == [st EXCEPT ![val[s]] = <<m>>] IN WellTyped(k, st2) /\ StackFits(st2, val, a)
<1> DEFINE e == val[s]
           st2 == [st EXCEPT ![e] = <<m>>]
<1>1. e \in Object /\ k[e] = "djuru" /\ e # val[a.here] /\ m \in Object
  <2>1. s \in Symbols(a)
    BY DEF WellKnown
  <2> QED
    BY <2>1 DEF ValuesFit, LiveIn
<1>2. val[a.here] \in Object
  <2>1. a.here \in Symbols(a) /\ a.kind[a.here] = "djuru"
    BY DEF WellKnown
  <2> QED
    BY <2>1 DEF ValuesFit, LiveIn
<1>3. st2 \in [Object -> Seq(Object)] /\ st2[e] = <<m>> /\ \A o \in Object : o # e => st2[o] = st[o]
  BY <1>1 DEF WellTyped
<1> HIDE DEF e, st2
<1>4. WellTyped(k, st2)
  <2>1. \A o \in Object : st2[o] # <<>> => k[o] = "djuru"
    BY <1>1, <1>3 DEF WellTyped
  <2>2. ASSUME NEW o \in Object, NEW j \in 1..Len(st2[o]) PROVE st2[o][j] \in LiveIn(k) \ {"modules"}
    <3>1. CASE o # e
      BY <3>1, <2>2, <1>3 DEF WellTyped
    <3>2. CASE o = e
      <4>1. j = 1
        BY <3>2, <1>3
      <4> QED
        BY <4>1, <3>2, <1>3
    <3> QED
      BY <3>1, <3>2
  <2> QED
    BY <2>1, <2>2, <1>3 DEF WellTyped
<1>5. StackFits(st2, val, a)
  BY <1>1, <1>2, <1>3 DEF StackFits
<1> QED
  BY <1>4, <1>5 DEF e, st2

\* More is known of what structs may hold.
LEMMA MayKeeps ==
  ASSUME NEW k, NEW ps, NEW a, WellKnown(a), NEW val, ValuesFit(k, val, a), PointsFit(ps, val, a), NEW more
  PROVE  ValuesFit(k, val, [a EXCEPT !.may = @ \cup more]) /\ PointsFit(ps, val, [a EXCEPT !.may = @ \cup more])
<1> DEFINE b == [a EXCEPT !.may = @ \cup more]
<1>1. /\ b.env = a.env /\ b.kind = a.kind /\ b.fresh = a.fresh /\ b.apart = a.apart /\ b.links = a.links
      /\ b.may = a.may \cup more /\ b.structs = a.structs /\ b.raw = a.raw /\ b.here = a.here
  BY DEF WellKnown, IsKnowledge
<1> HIDE DEF b
<1>2. ValuesFit(k, val, b)
  BY <1>1 DEF ValuesFit, Symbols
<1>3. LinksFit(ps, val, b) /\ MayFit(ps, val, b) /\ StructsFit(ps, b) /\ RawFit(ps, val, b)
  BY <1>1 DEF PointsFit, LinksFit, MayFit, StructsFit, RawFit
<1> QED
  BY <1>2, <1>3 DEF PointsFit, b

\* A struct gets a pointer to a new object.
LEMMA EnsureKeeps ==
  ASSUME NEW k, NEW st, WellTyped(k, st), NEW ps, WellPointed(k, ps), NEW a, WellKnown(a), NEW val, ValuesFit(k, val, a),
         PointsFit(ps, val, a), NEW o \in Fresh, k[o] = "free", NEW act, AllowsEnsure(a, act)
  PROVE  LET k2  == [k EXCEPT ![o] = act.y]
             ps2 == ps \cup {<<act.x, act.label, o>>}
             b   == [a EXCEPT !.may = @ \cup {<<act.x, act.label, Unknown>>}]
         IN /\ WellTyped(k2, st) /\ WellPointed(k2, ps2)
            /\ ValuesFit(k2, val, b) /\ PointsFit(ps2, val, b)
<1> DEFINE new == act.y
           x   == act.x
           l   == act.label
           k2  == [k EXCEPT ![o] = new]
           ptr == <<x, l, o>>
           ps2 == ps \cup {ptr}
           b   == [a EXCEPT !.may = @ \cup {<<x, l, Unknown>>}]
<1>1. x \in Structs /\ x # "vm" /\ l \notin StructLabels /\ new \in Kinds
  BY DEF AllowsEnsure
<1>2. /\ b.links = a.links /\ b.may = a.may \cup {<<x, l, Unknown>>} /\ b.structs = a.structs /\ b.raw = a.raw
  BY DEF WellKnown, IsKnowledge
<1>3. /\ WellTyped(k2, st) /\ WellPointed(k2, ps) /\ ValuesFit(k2, val, a)
      /\ o \in LiveIn(k2) /\ o \notin FixedNames /\ o \in Object
  <2>1. \A type \in Kinds : WellTyped([k EXCEPT ![o] = type], st)
    BY AllocateKeeps
  <2>2. \A type \in Kinds : WellPointed([k EXCEPT ![o] = type], ps)
    BY AllocateKeeps
  <2>3. \A type \in Kinds : ValuesFit([k EXCEPT ![o] = type], val, a)
    BY AllocateKeeps
  <2>4. \A type \in Kinds : o \in LiveIn([k EXCEPT ![o] = type])
    BY AllocateKeeps
  <2>5. o \notin FixedNames /\ o \in Object
    BY Names
  <2> QED
    BY <1>1, <2>1, <2>2, <2>3, <2>4, <2>5
<1>4. o \notin Structs \cup {Garbage} /\ o # "modules"
  BY <1>3, Names DEF FixedObjects
<1>5. ptr[1] = x /\ ptr[2] = l /\ ptr[3] = o /\ x \notin Object
  BY <1>1, Names
<1>6. ValuesFit(k2, val, b)
  <2> HIDE DEF k2, x, l
  <2> QED
    BY <1>3, MayKeeps
<1>7. PointsFit(ps, val, b)
  <2> HIDE DEF x, l
  <2> QED
    BY MayKeeps
<1> HIDE DEF k2, b, ptr, x, l, new
<1>8. WellPointed(k2, ps2)
  <2>1. ASSUME NEW p \in ps PROVE WellPlaced(k2, ps2, p)
    <3>1. WellPlaced(k2, ps, p)
      BY <1>3 DEF WellPointed
    <3>2. Guarded(k2, ps, p) => Guarded(k2, ps2, p)
      BY DEF Guarded
    <3> QED
      BY <3>1, <3>2 DEF WellPlaced
  <2>2. WellPlaced(k2, ps2, ptr)
    <3>1. ptr = <<ptr[1], ptr[2], ptr[3]>>
      BY <1>5 DEF ptr
    <3> QED
      BY <3>1, <1>1, <1>3, <1>4, <1>5 DEF WellPlaced
  <2> QED
    BY <2>1, <2>2, <1>3 DEF WellPointed
<1>9. LinksFit(ps2, val, b)
  BY <1>7 DEF PointsFit, LinksFit
<1>10. MayFit(ps2, val, b)
  <2>1. ASSUME NEW p \in ps2, p[1] \in Structs \ {"vm"}, p[3] \in Object
        PROVE  \E m \in b.may : m[1] = p[1] /\ m[2] = p[2] /\ (m[3] = Unknown \/ val[m[3]] = p[3])
    <3>1. CASE p \in ps
      BY <3>1, <2>1, <1>7 DEF PointsFit, MayFit
    <3>2. CASE p = ptr
      <4> DEFINE m == <<x, l, Unknown>>
      <4>1. m \in b.may /\ m[1] = x /\ m[2] = l /\ m[3] = Unknown
        BY <1>2
      <4> QED
        BY <4>1, <3>2, <1>5
    <3> QED
      BY <3>1, <3>2
  <2> QED
    BY <2>1 DEF MayFit
<1>11. StructsFit(ps2, b)
  BY <1>4, <1>5, <1>7 DEF PointsFit, StructsFit
<1>12. RawFit(ps2, val, b)
  BY <1>4, <1>5, <1>7 DEF PointsFit, RawFit
<1> QED
  BY <1>3, <1>6, <1>8, <1>9, <1>10, <1>11, <1>12 DEF PointsFit, k2, b, ptr, x, l, new

\* A local gets one of the objects that a node points to.
LEMMA LoadKeeps ==
  ASSUME NEW k, NEW ps, WellPointed(k, ps), k \in [Object -> Kinds \cup {"free"}],
         NEW a, WellKnown(a), NEW val, ValuesFit(k, val, a), PointsFit(ps, val, a), NEW i, NEW act, AllowsLoad(a, i, act),
         NEW p \in ps, p[1] = val[Sym(a, act.x)], p[2] = act.label, act.holds \cap {k[p[3]], "any"} # {},
         <<act.y, i>> \in DOMAIN val, val[<<act.y, i>>] = p[3]
  PROVE  ValuesFit(k, val, AfterLoad(a, i, act)) /\ PointsFit(ps, val, AfterLoad(a, i, act))
<1> DEFINE n == <<act.y, i>>
           o == p[3]
           s == Sym(a, act.x)
           l == act.label
           type == IF "any" \in act.holds THEN "any" ELSE CHOOSE k0 \in act.holds : TRUE
           b == AfterLoad(a, i, act)
<1>1. n \notin Symbols(a) /\ s \in Symbols(a) /\ a.raw = {} /\ l \notin StructLabels \cup {"modules"}
      /\ \A k0 \in act.holds : act.holds = {k0}
  BY DEF AllowsLoad, CanAssign
<1>2. /\ b.kind = Put(a.kind, n, type) /\ b.fresh = a.fresh /\ b.apart = a.apart /\ b.here = a.here
      /\ b.links = a.links \cup {<<s, l, n>>} /\ b.raw = a.raw /\ b.may = a.may /\ b.structs = a.structs
  BY DEF AfterLoad, Assigned, WellKnown, IsKnowledge
<1>3. val[n] = o /\ n \in DOMAIN val /\ p[1] = val[s] /\ p[2] = l
  OBVIOUS
<1>4. type # "any" => type = k[o]
  <2>1. PICK k0 : k0 \in act.holds /\ k0 \in {k[o], "any"}
    OBVIOUS
  <2>2. act.holds = {k0}
    BY <2>1, <1>1
  <2> QED
    BY <2>1, <2>2
<1> HIDE DEF n, o, s, l, type, b
<1>5. WellPlaced(k, ps, p)
  BY DEF WellPointed
<1>6. o \in LiveIn(k) \ {"modules"}
  <2>1. o \notin Structs
    <3> SUFFICES ASSUME o \in Structs PROVE FALSE
      OBVIOUS
    <3>1. p \in a.structs
      BY DEF PointsFit, StructsFit, o
    <3> QED
      BY <3>1, <1>1, <1>3 DEF WellKnown
  <2>2. o # Garbage
    BY <1>1 DEF PointsFit, RawFit, o
  <2>3. o # "modules"
    <3> SUFFICES ASSUME o = "modules" PROVE FALSE
      OBVIOUS
    <3>1. p = <<"vm", "modules", "modules">>
      BY <1>5 DEF WellPlaced, o
    <3>2. p[2] = "modules"
      BY <3>1
    <3> QED
      BY <3>2, <1>1, <1>3
  <2> QED
    BY <2>1, <2>2, <2>3, <1>5 DEF WellPlaced, o
<1>7. type \in Kinds \cup {"any"}
  BY <1>4, <1>6 DEF LiveIn
<1>8. ValuesFit(k, val, b)
  <2>1. n \notin b.fresh /\ n \notin b.apart
    BY <1>1, <1>2 DEF WellKnown
  <2>2. b.fresh \subseteq a.fresh \cup {n} /\ b.apart \subseteq a.apart \cup {n}
    BY <1>2
  <2>3. val[n] \in LiveIn(k) \ {"modules"} /\ (type # "any" => k[val[n]] = type)
    BY <1>3, <1>4, <1>6
  <2> QED
    BY <2>1, <2>2, <2>3, <1>1, <1>2, <1>3, <1>7, GiveKeeps
<1>9. LinksFit(ps, val, b)
  <2>1. ASSUME NEW j \in b.links PROVE <<val[j[1]], j[2], val[j[3]]>> \in ps
    <3>1. CASE j \in a.links
      BY <3>1 DEF PointsFit, LinksFit
    <3>2. CASE j = <<s, l, n>>
      <4>1. <<val[j[1]], j[2], val[j[3]]>> = <<p[1], p[2], p[3]>>
        BY <3>2, <1>3 DEF o
      <4> QED
        BY <4>1, <1>5 DEF WellPlaced
    <3> QED
      BY <3>1, <3>2, <1>2
  <2> QED
    BY <2>1 DEF LinksFit
<1>10. MayFit(ps, val, b) /\ StructsFit(ps, b) /\ RawFit(ps, val, b)
  BY <1>2 DEF PointsFit, MayFit, StructsFit, RawFit
<1> QED
  BY <1>8, <1>9, <1>10 DEF PointsFit, b

\* The top of the stack, when it is known and when it is not.
LEMMA TopIsKnown ==
  ASSUME NEW k, NEW st, WellTyped(k, st), NEW a, WellKnown(a), NEW val, ValuesFit(k, val, a), StackFits(st, val, a),
         a.stk # <<>>
  PROVE  Last(a.stk) \in Symbols(a) /\ Last(st[val[a.here]]) = val[Last(a.stk)]
<1> DEFINE top == st[val[a.here]]
           at  == (Len(top) - Len(a.stk)) + Len(a.stk)
<1>1. val[a.here] \in Object
  <2>1. a.here \in Symbols(a) /\ a.kind[a.here] = "djuru"
    BY DEF WellKnown
  <2> QED
    BY <2>1 DEF ValuesFit, LiveIn
<1>2. a.stk \in Seq(Symbols(a)) /\ top \in Seq(Object) /\ a.under \in Nat
  BY <1>1 DEF WellKnown, WellTyped
<1>3. Len(top) - Len(a.stk) >= a.under /\ \A j \in 1..Len(a.stk) : top[(Len(top) - Len(a.stk)) + j] = val[a.stk[j]]
  BY DEF StackFits
<1>4. Len(a.stk) \in Nat \ {0} /\ Last(a.stk) = a.stk[Len(a.stk)] /\ Last(a.stk) \in Symbols(a)
  BY <1>2, FrontOf
<1>5. Len(top) \in Nat
  BY <1>2
<1>6. top[at] = val[a.stk[Len(a.stk)]]
  <2>1. Len(a.stk) \in 1..Len(a.stk)
    BY <1>4
  <2> QED
    BY <2>1, <1>3
<1>7. at = Len(top)
  BY <1>4, <1>5
<1> HIDE DEF top, at
<1>8. Last(top) = top[Len(top)]
  BY DEF Last
<1> QED
  BY <1>4, <1>6, <1>7, <1>8 DEF top

LEMMA TopIsThere ==
  ASSUME NEW k, NEW st, WellTyped(k, st), NEW a, WellKnown(a), NEW val, ValuesFit(k, val, a), StackFits(st, val, a),
         a.stk = <<>>, a.under > 0
  PROVE  /\ Last(st[val[a.here]]) \in LiveIn(k) \ {"modules"}
         /\ \A n, b : val[n] = Last(st[val[a.here]]) /\ b.stk = <<n>> /\ b.under = a.under - 1 /\ b.here = a.here
                        => StackFits(st, val, b)
<1> DEFINE top == st[val[a.here]]
<1>1. val[a.here] \in Object
  <2>1. a.here \in Symbols(a) /\ a.kind[a.here] = "djuru"
    BY DEF WellKnown
  <2> QED
    BY <2>1 DEF ValuesFit, LiveIn
<1>2. top \in Seq(Object) /\ a.under \in Nat /\ Len(a.stk) = 0
  BY <1>1 DEF WellKnown, WellTyped
<1>3. Len(top) - Len(a.stk) >= a.under
  BY DEF StackFits
<1>4. Len(top) \in Nat
  BY <1>2
<1>5. Len(top) >= a.under /\ Len(top) \in 1..Len(top)
  BY <1>2, <1>3, <1>4
<1>6. Last(top) = top[Len(top)]
  BY DEF Last
<1>7. Last(top) \in LiveIn(k) \ {"modules"}
  BY <1>1, <1>5, <1>6 DEF WellTyped
<1>8. ASSUME NEW n, NEW b, val[n] = Last(top), b.stk = <<n>>, b.under = a.under - 1, b.here = a.here
      PROVE  StackFits(st, val, b)
  <2>1. Len(b.stk) = 1 /\ b.stk[1] = n
    BY <1>8
  <2>2. st[val[b.here]] = top
    BY <1>8
  <2> HIDE DEF top
  <2>3. Len(top) - Len(b.stk) >= b.under
    BY <2>1, <1>2, <1>4, <1>5, <1>8
  <2>4. ASSUME NEW j \in 1..Len(b.stk) PROVE top[(Len(top) - Len(b.stk)) + j] = val[b.stk[j]]
    <3>1. j = 1
      BY <2>1
    <3>2. (Len(top) - 1) + 1 = Len(top)
      BY <1>4
    <3> QED
      BY <3>1, <3>2, <2>1, <1>6, <1>8
  <2> QED
    BY <2>2, <2>3, <2>4 DEF StackFits
<1> QED
  BY <1>7, <1>8

(****************************************************************************)
(* The steps of a routine.                                                  *)
(****************************************************************************)
Healthy == WellTyped(kind, stack) /\ WellPointed(kind, points)

\* A symbol of its own is given a value.
LEMMA ExtendFits ==
  ASSUME NEW a, WellKnown(a), NEW val, Fits(val, a), NEW n, n \notin Symbols(a), NEW o
  PROVE  Fits(Put(val, n, o), a) /\ n \in DOMAIN Put(val, n, o) /\ Put(val, n, o)[n] = o
<1> DEFINE v == Put(val, n, o)
<1>1. ValuesFit(kind, val, a)
  BY DEF Fits
<1>2. ValuesFit(kind, v, a) /\ n \in DOMAIN v /\ v[n] = o
  BY <1>1, ExtendKeeps
<1>3. PointsFit(points, val, a) => PointsFit(points, v, a)
  BY <1>1, ExtendKeeps
<1>4. HereFits(points, val, a) => HereFits(points, v, a)
  BY <1>1, ExtendKeeps
<1>5. LocalsFit(reg, val, a) => LocalsFit(reg, v, a)
  BY <1>1, ExtendKeeps
<1>6. RootsFit(tempRoots, val, a) => RootsFit(tempRoots, v, a)
  BY <1>1, ExtendKeeps
<1>7. StackFits(stack, val, a) => StackFits(stack, v, a)
  BY <1>1, ExtendKeeps
<1> HIDE DEF v
<1> QED
  BY <1>2, <1>3, <1>4, <1>5, <1>6, <1>7 DEF Fits, v

\* What does not depend on the parts of the knowledge that change.
LEMMA SameValues ==
  ASSUME NEW a, NEW b, b.kind = a.kind, b.fresh = a.fresh, b.apart = a.apart, b.here = a.here,
         NEW k, NEW val, ValuesFit(k, val, a)
  PROVE  ValuesFit(k, val, b)
BY DEF ValuesFit, Symbols

LEMMA SamePoints ==
  ASSUME NEW a, NEW b, b.links = a.links, b.may = a.may, b.structs = a.structs, b.raw = a.raw,
         NEW ps, NEW val, PointsFit(ps, val, a)
  PROVE  PointsFit(ps, val, b)
<1>1. LinksFit(ps, val, b)
  BY DEF PointsFit, LinksFit
<1>2. MayFit(ps, val, b)
  BY DEF PointsFit, MayFit
<1>3. StructsFit(ps, b) /\ RawFit(ps, val, b)
  BY DEF PointsFit, StructsFit, RawFit
<1> QED
  BY <1>1, <1>2, <1>3 DEF PointsFit

LEMMA RootStep ==
  ASSUME NEW a, WellKnown(a), NEW val, Fits(val, a), Healthy, NEW act, act = step, IsObject(a, Sym(a, act.x)), DoRoot
  PROVE  Healthy' /\ Fits(val, [a EXCEPT !.temp = Append(@, Sym(a, act.x))])'
<1> DEFINE s == Sym(a, act.x)
           b == [a EXCEPT !.temp = Append(@, s)]
<1>1. tempRoots' = Append(tempRoots, Node(act.x)) /\ UNCHANGED <<kind, points, stack, reg>>
  BY DEF DoRoot
<1>2. s \in Symbols(a) /\ val[s] \in Object
  BY ObjectOf DEF IsObject, Fits
<1>3. Node(act.x) = val[s]
  BY <1>2, NodeOf
<1>4. RootsFit(tempRoots', val, b)
  BY <1>1, <1>2, <1>3, RootKeeps DEF Fits
<1>5. /\ b.env = a.env /\ b.kind = a.kind /\ b.fresh = a.fresh /\ b.apart = a.apart /\ b.links = a.links
      /\ b.may = a.may /\ b.structs = a.structs /\ b.raw = a.raw /\ b.here = a.here /\ b.stk = a.stk /\ b.under = a.under
  BY DEF WellKnown, IsKnowledge
<1> HIDE DEF b, s
<1>6. /\ ValuesFit(kind, val, b) /\ LocalsFit(reg, val, b) /\ PointsFit(points, val, b) /\ HereFits(points, val, b)
      /\ StackFits(stack, val, b)
  <2>1. ValuesFit(kind, val, b)
    BY <1>5, SameValues DEF Fits
  <2>2. PointsFit(points, val, b)
    BY <1>5, SamePoints DEF Fits
  <2>3. LocalsFit(reg, val, b) /\ HereFits(points, val, b)
    BY <1>5 DEF Fits, LocalsFit, HereFits
  <2>4. StackFits(stack, val, b)
    BY <1>5 DEF Fits, StackFits
  <2> QED
    BY <2>1, <2>2, <2>3, <2>4
<1>7. Fits(val, b)'
  BY <1>1, <1>4, <1>6 DEF Fits
<1>8. Healthy'
  BY <1>1 DEF Healthy
<1> QED
  BY <1>7, <1>8 DEF b, s

LEMMA UnrootStep ==
  ASSUME NEW a, WellKnown(a), NEW val, Fits(val, a), Healthy, a.temp # <<>>, DoUnroot
  PROVE  Healthy' /\ Fits(val, [a EXCEPT !.temp = Front(@)])'
<1> DEFINE b == [a EXCEPT !.temp = Front(@)]
<1>1. tempRoots' = Front(tempRoots) /\ UNCHANGED <<kind, points, stack, reg>>
  BY DEF DoUnroot
<1>2. RootsFit(tempRoots', val, b)
  BY <1>1, UnrootKeeps DEF Fits
<1>3. /\ b.env = a.env /\ b.kind = a.kind /\ b.fresh = a.fresh /\ b.apart = a.apart /\ b.links = a.links
      /\ b.may = a.may /\ b.structs = a.structs /\ b.raw = a.raw /\ b.here = a.here /\ b.stk = a.stk /\ b.under = a.under
  BY DEF WellKnown, IsKnowledge
<1> HIDE DEF b
<1>4. ValuesFit(kind, val, b)
  BY <1>3, SameValues DEF Fits
<1>5. PointsFit(points, val, b)
  BY <1>3, SamePoints DEF Fits
<1>6. LocalsFit(reg, val, b) /\ HereFits(points, val, b)
  BY <1>3 DEF Fits, LocalsFit, HereFits
<1>7. StackFits(stack, val, b)
  BY <1>3 DEF Fits, StackFits
<1>8. Fits(val, b)'
  BY <1>1, <1>2, <1>4, <1>5, <1>6, <1>7 DEF Fits
<1>9. Healthy'
  BY <1>1 DEF Healthy
<1> QED
  BY <1>8, <1>9 DEF b

\* The djuru that runs.
LEMMA TheDjuruFits ==
  ASSUME NEW a, WellKnown(a), NEW val, Fits(val, a)
  PROVE  TheDjuru = val[a.here]
<1>1. Sym(a, Here) = a.here /\ a.here \in Symbols(a)
  BY DEF Sym, WellKnown
<1>2. Node(Here) = val[a.here]
  BY <1>1, NodeOf
<1> QED
  BY <1>2 DEF Node

\* What a step that changes only the stack leaves.
LEMMA StackStep ==
  ASSUME NEW a, WellKnown(a), NEW val, Fits(val, a), Healthy, UNCHANGED <<kind, points, tempRoots, reg>>,
         NEW b, b.env = a.env, b.kind = a.kind, b.fresh = a.fresh, b.apart = a.apart, b.links = a.links,
         b.may = a.may, b.structs = a.structs, b.raw = a.raw, b.here = a.here, b.temp = a.temp,
         WellTyped(kind, stack'), StackFits(stack', val, b)
  PROVE  Healthy' /\ Fits(val, b)'
<1>1. ValuesFit(kind, val, b)
  BY SameValues DEF Fits
<1>2. PointsFit(points, val, b)
  BY SamePoints DEF Fits
<1>3. LocalsFit(reg, val, b) /\ HereFits(points, val, b)
  BY DEF Fits, LocalsFit, HereFits
<1>4. RootsFit(tempRoots, val, b)
  BY DEF Fits, RootsFit
<1>5. Fits(val, b)'
  BY <1>1, <1>2, <1>3, <1>4 DEF Fits
<1>6. Healthy'
  BY DEF Healthy
<1> QED
  BY <1>5, <1>6

LEMMA PushStep ==
  ASSUME NEW a, WellKnown(a), NEW val, Fits(val, a), Healthy, NEW act, act = step, IsObject(a, Sym(a, act.x)), DoPush
  PROVE  Healthy' /\ Fits(val, [a EXCEPT !.stk = Append(@, Sym(a, act.x))])'
<1> DEFINE s == Sym(a, act.x)
           d == val[a.here]
           b == [a EXCEPT !.stk = Append(@, s)]
<1>1. stack' = [stack EXCEPT ![TheDjuru] = Append(stack[TheDjuru], Node(act.x))] /\ UNCHANGED <<kind, points, tempRoots, reg>>
  BY DEF DoPush, OnStack
<1>2. s \in Symbols(a) /\ val[s] \in LiveIn(kind) \ {"modules"}
  BY ObjectOf DEF IsObject, Fits
<1>3. Node(act.x) = val[s]
  BY <1>2, NodeOf
<1>4. stack' = [stack EXCEPT ![d] = Append(stack[d], val[s])]
  BY <1>1, <1>3, TheDjuruFits
<1>5. WellTyped(kind, stack) /\ ValuesFit(kind, val, a) /\ StackFits(stack, val, a)
  BY DEF Fits, Healthy
<1>6. WellTyped(kind, stack') /\ StackFits(stack', val, b)
  <2> HIDE DEF s
  <2> QED
    BY <1>2, <1>4, <1>5, PushKeeps
<1>7. /\ b.env = a.env /\ b.kind = a.kind /\ b.fresh = a.fresh /\ b.apart = a.apart /\ b.links = a.links
      /\ b.may = a.may /\ b.structs = a.structs /\ b.raw = a.raw /\ b.here = a.here /\ b.temp = a.temp
  BY DEF WellKnown, IsKnowledge
<1> HIDE DEF b, s
<1>8. Healthy' /\ Fits(val, b)'
  BY <1>1, <1>6, <1>7, StackStep
<1> QED
  BY <1>8 DEF b, s

LEMMA DropStep ==
  ASSUME NEW a, WellKnown(a), NEW val, Fits(val, a), Healthy, a.stk # <<>>, DoDrop
  PROVE  Healthy' /\ Fits(val, [a EXCEPT !.stk = Front(@)])'
<1> DEFINE d == val[a.here]
           b == [a EXCEPT !.stk = Front(@)]
<1>1. stack' = [stack EXCEPT ![TheDjuru] = Front(stack[TheDjuru])] /\ UNCHANGED <<kind, points, tempRoots, reg>>
  BY DEF DoDrop, OnStack
<1>2. stack' = [stack EXCEPT ![d] = Front(stack[d])]
  BY <1>1, TheDjuruFits
<1>3. WellTyped(kind, stack) /\ ValuesFit(kind, val, a) /\ StackFits(stack, val, a)
  BY DEF Fits, Healthy
<1>4. WellTyped(kind, stack') /\ StackFits(stack', val, b)
  BY <1>2, <1>3, DropKeeps
<1>5. /\ b.env = a.env /\ b.kind = a.kind /\ b.fresh = a.fresh /\ b.apart = a.apart /\ b.links = a.links
      /\ b.may = a.may /\ b.structs = a.structs /\ b.raw = a.raw /\ b.here = a.here /\ b.temp = a.temp
  BY DEF WellKnown, IsKnowledge
<1> HIDE DEF b
<1>6. Healthy' /\ Fits(val, b)'
  BY <1>1, <1>4, <1>5, StackStep
<1> QED
  BY <1>6 DEF b

LEMMA SlotStep ==
  ASSUME NEW a, WellKnown(a), NEW val, Fits(val, a), Healthy, NEW act, act = step, AllowsSlot(a, act), DoSlot
  PROVE  Healthy' /\ Fits(val, a)'
<1> DEFINE s == Sym(a, act.x)
           t == Sym(a, act.y)
<1>1. stack' = [stack EXCEPT ![Node(act.x)] = <<Node(act.y)>>] /\ UNCHANGED <<kind, points, tempRoots, reg>>
  BY DEF DoSlot, OnStack
<1>2. s \in a.apart /\ a.kind[s] = "djuru" /\ IsObject(a, t) /\ s \in Symbols(a) /\ t \in Symbols(a)
  BY DEF AllowsSlot, WellKnown, IsObject
<1>3. val[t] \in LiveIn(kind) \ {"modules"}
  <2>1. IsObject(a, t) /\ ValuesFit(kind, val, a)
    BY <1>2 DEF Fits
  <2> QED
    BY <2>1, ObjectOf
<1>4. Node(act.x) = val[s] /\ Node(act.y) = val[t]
  BY <1>2, NodeOf
<1>5. WellTyped(kind, stack) /\ ValuesFit(kind, val, a) /\ StackFits(stack, val, a)
  BY DEF Fits, Healthy
<1>6. stack' = [stack EXCEPT ![val[s]] = <<val[t]>>]
  BY <1>1, <1>4
<1> HIDE DEF s, t
<1>7. WellTyped(kind, stack') /\ StackFits(stack', val, a)
  BY <1>2, <1>3, <1>5, <1>6, SlotKeeps
<1> QED
  BY <1>1, <1>7, StackStep

LEMMA PeekStep ==
  ASSUME NEW a, WellKnown(a), NEW val, Fits(val, a), Healthy, NEW i, NEW act, act = step, AllowsPeek(a, i, act), DoPeek
  PROVE  Healthy' /\ \E v : Fits(v, AfterPeek(a, i, act))'
<1> DEFINE x == act.x
           n == <<x, i>>
           d == val[a.here]
           o == Last(stack[d])
           b == AfterPeek(a, i, act)
<1>1. UNCHANGED heapVars /\ reg' = [y \in DOMAIN reg \cup {x} |-> IF y = x THEN o ELSE reg[y]]
  BY TheDjuruFits DEF DoPeek, Assign
<1>2. WellTyped(kind, stack) /\ ValuesFit(kind, val, a) /\ StackFits(stack, val, a) /\ LocalsFit(reg, val, a)
      /\ PointsFit(points, val, a)
  BY DEF Fits, Healthy
<1>3. Healthy'
  BY <1>1 DEF Healthy, heapVars
<1>4. ASSUME a.stk # <<>> PROVE Fits(val, b)'
  <2> DEFINE s == Last(a.stk)
  <2>1. x \notin FixedNames \cup {Here, Garbage}
    BY <1>4 DEF AllowsPeek
  <2>2. o = val[s]
    BY <1>2, <1>4, TopIsKnown
  <2>3. /\ b.env = Put(a.env, x, s) /\ b.kind = a.kind /\ b.fresh = a.fresh /\ b.apart = a.apart /\ b.links = a.links
        /\ b.may = a.may /\ b.structs = a.structs /\ b.raw = a.raw /\ b.here = a.here /\ b.temp = a.temp
        /\ b.stk = a.stk /\ b.under = a.under
    BY <1>4 DEF AfterPeek, WellKnown, IsKnowledge
  <2>4. reg' = [y \in DOMAIN reg \cup {x} |-> IF y = x THEN val[s] ELSE reg[y]]
    BY <1>1, <2>2
  <2> HIDE DEF b, s, x
  <2>5. LocalsFit(reg', val, b)
    BY <2>1, <2>3, <2>4, <1>2, AssignKeeps
  <2>6. ValuesFit(kind, val, b)
    BY <2>3, <1>2, SameValues
  <2>7. PointsFit(points, val, b)
    BY <2>3, <1>2, SamePoints
  <2>8. HereFits(points, val, b) /\ RootsFit(tempRoots, val, b)
    BY <2>3 DEF Fits, HereFits, RootsFit
  <2>9. StackFits(stack, val, b)
    BY <2>3, <1>2 DEF StackFits
  <2> QED
    BY <2>5, <2>6, <2>7, <2>8, <2>9, <1>1 DEF Fits, heapVars
<1>5. ASSUME a.stk = <<>> PROVE \E v : Fits(v, b)'
  <2>0. PICK v : v = Put(val, n, o)
    OBVIOUS
  <2>1. a.under > 0 /\ x \notin FixedNames \cup {Here, Garbage} /\ n \notin Symbols(a)
    BY <1>5 DEF AllowsPeek, CanAssign
  <2>2. o \in LiveIn(kind) \ {"modules"}
    BY <2>1, <1>2, <1>5, TopIsThere
  <2>3. Fits(v, a) /\ n \in DOMAIN v /\ v[n] = o
    BY <2>0, <2>1, ExtendFits
  <2>4. /\ b.env = Put(a.env, x, n) /\ b.kind = Put(a.kind, n, "any") /\ b.fresh = a.fresh /\ b.apart = a.apart
        /\ b.links = a.links /\ b.may = a.may /\ b.structs = a.structs /\ b.raw = a.raw /\ b.here = a.here
        /\ b.temp = a.temp /\ b.stk = <<n>> /\ b.under = a.under - 1
    BY <1>5 DEF AfterPeek, Assigned, WellKnown, IsKnowledge
  <2>5. v[a.here] = d
    <3>1. a.here \in Symbols(a) /\ a.here \in DOMAIN val
      BY <1>2 DEF WellKnown, ValuesFit
    <3>2. \A s \in DOMAIN val : s # n => v[s] = val[s]
      BY <2>0 DEF Put
    <3> QED
      BY <3>1, <3>2, <2>1
  <2> HIDE DEF n, o, x, b
  <2>6. ValuesFit(kind, v, a) /\ LocalsFit(reg, v, a) /\ PointsFit(points, v, a) /\ HereFits(points, v, a)
        /\ RootsFit(tempRoots, v, a) /\ StackFits(stack, v, a)
    BY <2>3 DEF Fits
  <2>7. ValuesFit(kind, v, b)
    <3>1. n \notin b.fresh /\ n \notin b.apart /\ b.fresh \subseteq a.fresh \cup {n} /\ b.apart \subseteq a.apart \cup {n}
      BY <2>1, <2>4 DEF WellKnown
    <3> QED
      BY <3>1, <2>1, <2>2, <2>3, <2>4, <2>6, GiveKeeps
  <2>8. LocalsFit(reg', v, b)
    <3>1. reg' = [y \in DOMAIN reg \cup {x} |-> IF y = x THEN v[n] ELSE reg[y]]
      BY <1>1, <2>3
    <3> QED
      BY <3>1, <2>1, <2>4, <2>6, AssignKeeps
  <2>9. PointsFit(points, v, b)
    BY <2>4, <2>6, SamePoints
  <2>10. HereFits(points, v, b) /\ RootsFit(tempRoots, v, b)
    BY <2>4, <2>6 DEF HereFits, RootsFit
  <2>11. StackFits(stack, v, b)
    <3>1. v[n] = Last(stack[v[a.here]])
      BY <2>3, <2>5 DEF o
    <3> QED
      BY <3>1, <2>1, <2>4, <2>6, <1>2, <1>5, TopIsThere
  <2>12. Fits(v, b)'
    BY <2>7, <2>8, <2>9, <2>10, <2>11, <1>1 DEF Fits, heapVars
  <2> QED
    BY <2>12
<1> QED
  BY <1>3, <1>4, <1>5

LEMMA LoadStep ==
  ASSUME NEW a, WellKnown(a), NEW val, Fits(val, a), Healthy, NEW i, NEW act, act = step, AllowsLoad(a, i, act), DoLoad
  PROVE  Healthy' /\ \E v : Fits(v, AfterLoad(a, i, act))'
<1> DEFINE y == act.y
           n == <<y, i>>
           b == AfterLoad(a, i, act)
<1>1. PICK o \in Found(act) : reg' = [z \in DOMAIN reg \cup {y} |-> IF z = y THEN o ELSE reg[z]]
  BY DEF DoLoad, Assign
<1>2. UNCHANGED heapVars
  BY DEF DoLoad
<1>3. Healthy'
  BY <1>2 DEF Healthy, heapVars
<1>4. Sym(a, act.x) \in Symbols(a) /\ n \notin Symbols(a) /\ y \notin FixedNames \cup {Here, Garbage}
  BY DEF AllowsLoad, CanAssign
<1>5. PICK p \in points : p[1] = val[Sym(a, act.x)] /\ p[2] = act.label /\ p[3] = o
  <2>1. Node(act.x) = val[Sym(a, act.x)]
    BY <1>4, NodeOf
  <2> QED
    BY <1>1, <2>1 DEF Found, Targets
<1>6. act.holds \cap {kind[o], "any"} # {}
  BY <1>1 DEF Found
<1>7. PICK v : v = Put(val, n, o)
  OBVIOUS
<1>8. Fits(v, a) /\ n \in DOMAIN v /\ v[n] = o
  BY <1>4, <1>7, ExtendFits
<1>9. v[Sym(a, act.x)] = val[Sym(a, act.x)]
  <2>1. Sym(a, act.x) \in DOMAIN val /\ Sym(a, act.x) # n
    BY <1>4 DEF Fits, ValuesFit
  <2> QED
    BY <2>1, <1>7 DEF Put
<1>10. /\ ValuesFit(kind, v, a) /\ LocalsFit(reg, v, a) /\ PointsFit(points, v, a) /\ HereFits(points, v, a)
       /\ RootsFit(tempRoots, v, a) /\ StackFits(stack, v, a)
       /\ WellPointed(kind, points) /\ kind \in [Object -> Kinds \cup {"free"}]
  BY <1>8 DEF Fits, Healthy, WellTyped
<1>11. /\ b.env = Put(a.env, y, n) /\ b.here = a.here /\ b.temp = a.temp /\ b.stk = a.stk /\ b.under = a.under
  BY DEF AfterLoad, Assigned, WellKnown, IsKnowledge
<1>12. p[1] = v[Sym(a, act.x)] /\ p[2] = act.label /\ act.holds \cap {kind[p[3]], "any"} # {} /\ v[<<act.y, i>>] = p[3]
       /\ <<act.y, i>> \in DOMAIN v
  BY <1>5, <1>6, <1>8, <1>9
<1>13. ValuesFit(kind, v, b) /\ PointsFit(points, v, b)
  BY <1>10, <1>12, LoadKeeps
<1> HIDE DEF b, n, y
<1>14. LocalsFit(reg', v, b)
  <2>1. reg' = [z \in DOMAIN reg \cup {y} |-> IF z = y THEN v[n] ELSE reg[z]]
    BY <1>1, <1>8
  <2> QED
    BY <2>1, <1>4, <1>10, <1>11, AssignKeeps
<1>15. HereFits(points, v, b) /\ RootsFit(tempRoots, v, b) /\ StackFits(stack, v, b)
  BY <1>10, <1>11 DEF HereFits, RootsFit, StackFits
<1>16. Fits(v, b)'
  BY <1>2, <1>13, <1>14, <1>15 DEF Fits, heapVars
<1> QED
  BY <1>3, <1>16 DEF b

\* Pointers from elsewhere leave vm->djuru alone.
LEMMA SameDjurus ==
  ASSUME NEW ps, NEW ps2, \A p \in ps : p[1] = "vm" /\ p[2] = "djuru" => p \in ps2,
         \A p \in ps2 : p[1] = "vm" /\ p[2] = "djuru" => p \in ps
  PROVE  Djurus(ps2) = Djurus(ps)
BY DEF Djurus

LEMMA NewStep ==
  ASSUME NEW a, WellKnown(a), NEW val, Fits(val, a), Healthy, NEW i, NEW act, act = step, AllowsNew(a, i, act), DoNew
  PROVE  Healthy' /\ \E v : Fits(v, AfterNew(a, i, act))'
<1> DEFINE x == act.x
           n == <<x, i>>
           b == AfterNew(a, i, act)
<1>1. PICK o \in free : /\ kind' = [kind EXCEPT ![o] = act.label] /\ points' = points \cup Pointers(o, act.holds)
                        /\ reg' = [z \in DOMAIN reg \cup {x} |-> IF z = x THEN o ELSE reg[z]]
  BY DEF DoNew, Assign
<1>2. UNCHANGED <<stack, tempRoots>> /\ o \in Fresh /\ kind[o] = "free"
  BY <1>1 DEF DoNew, free
<1>3. n \notin Symbols(a) /\ x \notin FixedNames \cup {Here, Garbage}
  BY DEF AllowsNew, CanAssign
<1>4. PICK v : v = Put(val, n, o)
  OBVIOUS
<1>5. Fits(v, a) /\ n \in DOMAIN v /\ v[n] = o
  BY <1>3, <1>4, ExtendFits
<1>6. /\ ValuesFit(kind, v, a) /\ LocalsFit(reg, v, a) /\ PointsFit(points, v, a) /\ HereFits(points, v, a)
      /\ RootsFit(tempRoots, v, a) /\ StackFits(stack, v, a)
      /\ WellPointed(kind, points) /\ WellTyped(kind, stack)
  BY <1>5 DEF Fits, Healthy
<1>7. Pointers(o, act.holds) = Given(o, v, a, act.holds)
  <2>1. ASSUME NEW h \in act.holds PROVE Node(h[2]) = IF h[2] = Garbage THEN Garbage ELSE v[Sym(a, h[2])]
    <3>1. CASE h[2] = Garbage
      <4>1. Garbage # Here /\ Garbage \notin DOMAIN reg
        BY <1>6 DEF LocalsFit, Here, Garbage
      <4> QED
        BY <3>1, <4>1 DEF Node
    <3>2. CASE h[2] # Garbage
      <4>1. h # <<"frames", Garbage>>
        BY <3>2
      <4>2. Sym(a, h[2]) \in Symbols(a)
        BY <4>1 DEF AllowsNew, MayHold, IsObject
      <4>3. Node(h[2]) = v[Sym(a, h[2])]
        BY <4>2, <1>5, NodeOf
      <4> QED
        BY <3>2, <4>3
    <3> QED
      BY <3>1, <3>2
  <2> QED
    BY <2>1 DEF Pointers, Given
<1>8. /\ b.env = Put(a.env, x, n) /\ b.here = a.here /\ b.temp = a.temp /\ b.stk = a.stk /\ b.under = a.under
  BY DEF AfterNew, Assigned, WellKnown, IsKnowledge
<1>9. WellTyped(kind', stack) /\ WellPointed(kind', points') /\ ValuesFit(kind', v, b) /\ PointsFit(points', v, b)
  <2>1. kind' = [kind EXCEPT ![o] = act.label] /\ points' = points \cup Given(o, v, a, act.holds)
    BY <1>1, <1>7
  <2>2. <<act.x, i>> \in DOMAIN v /\ v[<<act.x, i>>] = o
    BY <1>5
  <2> QED
    BY <2>1, <2>2, <1>2, <1>6, NewKeeps
<1>10. HereFits(points', v, b)
  <2>1. o # "vm"
    BY <1>2, Names
  <2>2. \A p \in points' : p \in points \/ p[1] = o
    BY <1>1, <1>7 DEF Given
  <2>3. Djurus(points') = Djurus(points)
    BY <2>1, <2>2, <1>1, SameDjurus
  <2> HIDE DEF b
  <2> QED
    BY <2>3, <1>6, <1>8 DEF HereFits
<1> HIDE DEF b, n, x
<1>11. LocalsFit(reg', v, b)
  <2>1. reg' = [z \in DOMAIN reg \cup {x} |-> IF z = x THEN v[n] ELSE reg[z]]
    BY <1>1, <1>5
  <2> QED
    BY <2>1, <1>3, <1>6, <1>8, AssignKeeps
<1>12. RootsFit(tempRoots, v, b) /\ StackFits(stack, v, b)
  BY <1>6, <1>8 DEF RootsFit, StackFits
<1>13. Fits(v, b)'
  BY <1>2, <1>9, <1>10, <1>11, <1>12 DEF Fits
<1>14. Healthy'
  BY <1>2, <1>9 DEF Healthy
<1> QED
  BY <1>13, <1>14 DEF b

LEMMA EnsureStep ==
  ASSUME NEW a, WellKnown(a), NEW val, Fits(val, a), Healthy, NEW act, act = step, AllowsEnsure(a, act), DoEnsure
  PROVE  Healthy' /\ Fits(val, [a EXCEPT !.may = @ \cup {<<act.x, act.label, Unknown>>}])'
<1> DEFINE b == [a EXCEPT !.may = @ \cup {<<act.x, act.label, Unknown>>}]
<1>1. UNCHANGED <<stack, tempRoots, reg>>
  BY DEF DoEnsure
<1>2. /\ ValuesFit(kind, val, a) /\ LocalsFit(reg, val, a) /\ PointsFit(points, val, a) /\ HereFits(points, val, a)
      /\ RootsFit(tempRoots, val, a) /\ StackFits(stack, val, a)
      /\ WellPointed(kind, points) /\ WellTyped(kind, stack)
  BY DEF Fits, Healthy
<1>3. /\ b.env = a.env /\ b.here = a.here /\ b.temp = a.temp /\ b.stk = a.stk /\ b.under = a.under
  BY DEF WellKnown, IsKnowledge
<1>4. CASE UNCHANGED <<kind, points>>
  <2>1. ValuesFit(kind, val, b) /\ PointsFit(points, val, b)
    BY <1>2, MayKeeps
  <2> HIDE DEF b
  <2>2. HereFits(points, val, b) /\ LocalsFit(reg, val, b) /\ RootsFit(tempRoots, val, b) /\ StackFits(stack, val, b)
    BY <1>2, <1>3 DEF HereFits, LocalsFit, RootsFit, StackFits
  <2>3. Fits(val, b)'
    BY <1>1, <1>4, <2>1, <2>2 DEF Fits
  <2>4. Healthy'
    BY <1>1, <1>4 DEF Healthy
  <2> QED
    BY <2>3, <2>4 DEF b
<1>5. ASSUME NEW o \in free, kind' = [kind EXCEPT ![o] = act.y], points' = points \cup {<<act.x, act.label, o>>}
      PROVE  Healthy' /\ Fits(val, b)'
  <2>1. o \in Fresh /\ kind[o] = "free"
    BY DEF free
  <2>2. WellTyped(kind', stack) /\ WellPointed(kind', points') /\ ValuesFit(kind', val, b) /\ PointsFit(points', val, b)
    BY <2>1, <1>2, <1>5, EnsureKeeps
  <2>3. Djurus(points') = Djurus(points)
    <3>1. act.x # "vm"
      BY DEF AllowsEnsure
    <3>2. \A p \in points' : p \in points \/ p[1] # "vm"
      BY <3>1, <1>5
    <3> QED
      BY <3>2, <1>5, SameDjurus
  <2> HIDE DEF b
  <2>4. HereFits(points', val, b) /\ LocalsFit(reg, val, b) /\ RootsFit(tempRoots, val, b) /\ StackFits(stack, val, b)
    BY <2>3, <1>2, <1>3 DEF HereFits, LocalsFit, RootsFit, StackFits
  <2>5. Fits(val, b)'
    BY <1>1, <2>2, <2>4 DEF Fits
  <2>6. Healthy'
    BY <1>1, <2>2 DEF Healthy
  <2> QED
    BY <2>5, <2>6
<1> HIDE DEF b
<1>6. CASE /\ free # {}
           /\ LET o == CHOOSE o \in free : TRUE
              IN kind' = [kind EXCEPT ![o] = act.y] /\ points' = points \cup {<<act.x, act.label, o>>}
  <2>1. PICK o \in free : kind' = [kind EXCEPT ![o] = act.y] /\ points' = points \cup {<<act.x, act.label, o>>}
    BY <1>6
  <2> QED
    BY <2>1, <1>5 DEF b
<1> QED
  BY <1>4, <1>6 DEF b, DoEnsure

\* What a step that changes only pointers leaves.
LEMMA PointersStep ==
  ASSUME NEW a, WellKnown(a), NEW val, Fits(val, a), Healthy, UNCHANGED <<kind, stack, tempRoots, reg>>,
         NEW b, b.env = a.env, b.kind = a.kind, b.fresh = a.fresh, b.apart = a.apart, b.here = a.here,
         b.temp = a.temp, b.stk = a.stk, b.under = a.under,
         WellPointed(kind, points'), PointsFit(points', val, b), Djurus(points') = Djurus(points)
  PROVE  Healthy' /\ Fits(val, b)'
<1>1. ValuesFit(kind, val, b)
  BY SameValues DEF Fits
<1>2. LocalsFit(reg, val, b) /\ HereFits(points', val, b)
  BY DEF Fits, LocalsFit, HereFits
<1>3. RootsFit(tempRoots, val, b) /\ StackFits(stack, val, b)
  BY DEF Fits, RootsFit, StackFits
<1>4. Fits(val, b)'
  BY <1>1, <1>2, <1>3 DEF Fits
<1>5. Healthy'
  BY DEF Healthy
<1> QED
  BY <1>4, <1>5

\* The parts of what is known that hold before and after.
LEMMA HealthyFits ==
  ASSUME NEW a, NEW val, Fits(val, a), Healthy
  PROVE  /\ ValuesFit(kind, val, a) /\ LocalsFit(reg, val, a) /\ PointsFit(points, val, a) /\ HereFits(points, val, a)
         /\ RootsFit(tempRoots, val, a) /\ StackFits(stack, val, a)
         /\ WellPointed(kind, points) /\ WellTyped(kind, stack)
BY DEF Fits, Healthy

LEMMA LinkStep ==
  ASSUME NEW a, WellKnown(a), NEW val, Fits(val, a), Healthy, NEW act, AllowsLink(a, act),
         points' = points \cup Pointers(Node(act.x), act.holds), UNCHANGED <<kind, stack, tempRoots, reg>>
  PROVE  Healthy' /\ Fits(val, Added(a, act.x, act.holds))'
<1> DEFINE x == act.x
           b == Added(a, x, act.holds)
<1>1. \A h \in act.holds : AllowsPointer(a, x, h[1], h[2]) /\ h[1] # "djuru"
  BY DEF AllowsLink
<1>2. Pointers(Node(x), act.holds) = Linked(val, a, x, act.holds)
  <2>1. ASSUME NEW h \in act.holds PROVE Node(x) = val[Sym(a, x)] /\ Node(h[2]) = val[Sym(a, h[2])]
    <3>1. Sym(a, x) \in Symbols(a) /\ Sym(a, h[2]) \in Symbols(a)
      BY <1>1 DEF AllowsPointer
    <3> QED
      BY <3>1, NodeOf
  <2> QED
    BY <2>1 DEF Pointers, Linked
<1>3. WellPointed(kind, points') /\ PointsFit(points', val, b)
  BY <1>1, <1>2, HealthyFits, AddKeeps
<1>4. Djurus(points') = Djurus(points)
  <2>1. \A p \in points' : p \in points \/ p[2] # "djuru"
    BY <1>1 DEF Pointers
  <2> QED
    BY <2>1, SameDjurus
<1>5. /\ b.env = a.env /\ b.kind = a.kind /\ b.fresh = a.fresh /\ b.apart = a.apart /\ b.here = a.here
      /\ b.temp = a.temp /\ b.stk = a.stk /\ b.under = a.under
  BY DEF Added, WellKnown, IsKnowledge
<1> HIDE DEF b
<1>6. Healthy' /\ Fits(val, b)'
  BY <1>3, <1>4, <1>5, PointersStep
<1> QED
  BY <1>6 DEF b

LEMMA UnlinkStep ==
  ASSUME NEW a, WellKnown(a), NEW val, Fits(val, a), Healthy, NEW act, AllowsUnlink(a, act),
         points' = points \ {<<Node(act.x), act.label, Node(act.y)>>}, UNCHANGED <<kind, stack, tempRoots, reg>>
  PROVE  Healthy' /\ Fits(val, [a EXCEPT !.links = Cut(@, Sym(a, act.x), act.label)])'
<1> DEFINE b == [a EXCEPT !.links = Cut(@, Sym(a, act.x), act.label)]
<1>1. Sym(a, act.x) \in Symbols(a) /\ Sym(a, act.y) \in Symbols(a)
  BY DEF AllowsUnlink, IsObject
<1>2. Node(act.x) = val[Sym(a, act.x)] /\ Node(act.y) = val[Sym(a, act.y)]
  BY <1>1, NodeOf
<1>3. points' = points \ {<<val[Sym(a, act.x)], act.label, val[Sym(a, act.y)]>>}
  BY <1>2
<1>4. kind["aClass"] = "class"
  BY HealthyFits, Names DEF WellTyped, FixedObjects
<1>5. WellPointed(kind, points') /\ PointsFit(points', val, b)
  BY <1>3, <1>4, HealthyFits, UnlinkKeeps
<1>6. Djurus(points') = Djurus(points)
  <2> DEFINE gone == <<Node(act.x), act.label, Node(act.y)>>
  <2>1. gone[2] # "djuru"
    BY DEF AllowsUnlink
  <2> HIDE DEF gone
  <2> QED
    BY <2>1, SameDjurus DEF gone
<1>7. /\ b.env = a.env /\ b.kind = a.kind /\ b.fresh = a.fresh /\ b.apart = a.apart /\ b.here = a.here
      /\ b.temp = a.temp /\ b.stk = a.stk /\ b.under = a.under
  BY DEF WellKnown, IsKnowledge
<1> HIDE DEF b
<1>8. Healthy' /\ Fits(val, b)'
  BY <1>5, <1>6, <1>7, PointersStep
<1> QED
  BY <1>8 DEF b

LEMMA CopyStep ==
  ASSUME NEW a, WellKnown(a), NEW val, Fits(val, a), Healthy, NEW act, AllowsCopy(a, act),
         points' = points \cup {<<Node(act.x), act.label, o>> : o \in Targets(Node(act.y), act.label)},
         UNCHANGED <<kind, stack, tempRoots, reg>>
  PROVE  Healthy' /\ Fits(val, a)'
<1>1. Sym(a, act.x) \in Symbols(a) /\ Sym(a, act.y) \in Symbols(a)
  BY DEF AllowsCopy, IsObject
<1>2. Node(act.x) = val[Sym(a, act.x)] /\ Node(act.y) = val[Sym(a, act.y)]
  BY <1>1, NodeOf
<1> DEFINE more == {<<val[Sym(a, act.x)], act.label, o>> :
                      o \in {p[3] : p \in {p \in points : p[1] = val[Sym(a, act.y)] /\ p[2] = act.label}}}
<1>3. points' = points \cup more
  BY <1>2 DEF Targets
<1>4. WellPointed(kind, points \cup more) /\ PointsFit(points \cup more, val, a)
  BY HealthyFits, CopyKeeps
<1>5. Djurus(points') = Djurus(points)
  <2>1. val[Sym(a, act.x)] # "vm"
    <3>1. IsObject(a, Sym(a, act.x))
      BY DEF AllowsCopy
    <3>2. val[Sym(a, act.x)] \in Object
      BY <3>1, HealthyFits, ObjectOf
    <3> QED
      BY <3>2, Names
  <2>2. \A p \in points' : p \in points \/ p[1] # "vm"
    BY <2>1, <1>3
  <2> QED
    BY <2>2, <1>3, SameDjurus
<1> HIDE DEF more
<1> QED
  BY <1>3, <1>4, <1>5, PointersStep

LEMMA ForgetStep ==
  ASSUME NEW a, WellKnown(a), NEW val, Fits(val, a), Healthy, NEW x \in Structs \ {"vm"},
         points' = {p \in points : p[1] # x}, UNCHANGED <<kind, stack, tempRoots, reg>>
  PROVE  Healthy' /\ Fits(val, Forgotten(a, x))'
<1> DEFINE b == Forgotten(a, x)
<1>1. WellPointed(kind, points') /\ PointsFit(points', val, b)
  BY HealthyFits, ForgetKeeps
<1>2. Djurus(points') = Djurus(points)
  BY SameDjurus
<1>3. /\ b.env = a.env /\ b.kind = a.kind /\ b.fresh = a.fresh /\ b.apart = a.apart /\ b.here = a.here
      /\ b.temp = a.temp /\ b.stk = a.stk /\ b.under = a.under
  BY DEF Forgotten, WellKnown, IsKnowledge
<1> HIDE DEF b
<1>4. Healthy' /\ Fits(val, b)'
  BY <1>1, <1>2, <1>3, PointersStep
<1> QED
  BY <1>4 DEF b

LEMMA ShiftStep ==
  ASSUME NEW a, WellKnown(a), NEW val, Fits(val, a), Healthy, \A p \in a.structs : p[1] # "parser",
         points' = Moved(points, "parser"), UNCHANGED <<kind, stack, tempRoots, reg>>
  PROVE  Healthy' /\ Fits(val, Shifted(a))'
<1> DEFINE b == Shifted(a)
<1>1. WellPointed(kind, points') /\ PointsFit(points', val, b)
  <2>1. WellPointed(kind, points) /\ ValuesFit(kind, val, a) /\ PointsFit(points, val, a)
    BY HealthyFits
  <2>2. WellPointed(kind, Moved(points, "parser")) /\ PointsFit(Moved(points, "parser"), val, b)
    BY <2>1, ShiftKeeps
  <2> QED
    BY <2>2
<1>2. Djurus(points') = Djurus(points)
  <2>1. \A p \in points' : p \in points \/ p[1] # "vm"
    BY Names DEF Moved
  <2>2. \A p \in points : p[1] = "vm" => p \in points'
    BY Names DEF Moved
  <2> QED
    BY <2>1, <2>2, SameDjurus
<1>3. /\ b.env = a.env /\ b.kind = a.kind /\ b.fresh = a.fresh /\ b.apart = a.apart /\ b.here = a.here
      /\ b.temp = a.temp /\ b.stk = a.stk /\ b.under = a.under
  BY DEF Shifted, WellKnown, IsKnowledge
<1> HIDE DEF b
<1>4. Healthy' /\ Fits(val, b)'
  BY <1>1, <1>2, <1>3, PointersStep
<1> QED
  BY <1>4 DEF b

\* A label of a node of which no pointer is permanent.
LEMMA ClearStep ==
  ASSUME NEW a, WellKnown(a), NEW val, Fits(val, a), Healthy, NEW act, AllowsClear(a, act),
         points' = Without(Node(act.x), act.label), UNCHANGED <<kind, stack, tempRoots, reg>>
  PROVE  Healthy' /\ Fits(val, Removed(a, act.x, act.label))'
<1> DEFINE s == Sym(a, act.x)
           b == Removed(a, act.x, act.label)
<1>1. s \in Symbols(a)
  BY DEF AllowsClear
<1>2. points' = {p \in points : ~(p[1] = val[s] /\ p[2] = act.label)}
  <2>1. Node(act.x) = val[s]
    BY <1>1, NodeOf
  <2> QED
    BY <2>1 DEF Without
<1>3. /\ act.x \in Structs => val[s] = act.x /\ (act.x = "vm" => act.label = "compiler")
      /\ act.x \notin Structs => /\ val[s] \in Object
                                 /\ \/ act.label \in {"frames", "caller", "error"}
                                    \/ act.label = "entries" /\ val[s] # "modules"
  <2>1. ASSUME s # TheModules PROVE val[s] # "modules"
    <3>1. TheModules \in Symbols(a) /\ val[TheModules] = "modules"
      BY FixedSymbols, HealthyFits DEF WellKnown, ValuesFit, TheModules
    <3>2. Differ(s, TheModules)
      BY <2>1 DEF Differ
    <3> QED
      BY <1>1, <3>1, <3>2, HealthyFits, DifferentNodes
  <2>2. act.x \in Structs => val[s] = act.x
    BY <1>1, HealthyFits, StructNode
  <2>3. act.x \notin Structs => val[s] \in Object
    BY <1>1, HealthyFits, StructNode
  <2> QED
    BY <2>1, <2>2, <2>3 DEF AllowsClear
<1>4. \A q \in Permanent : q[1] # val[s] \/ q[2] # act.label
  <2>1. CASE act.x \in Structs
    <3>1. \A q \in Permanent : q[1] \in Structs => q[1] = "vm" /\ q[2] # "compiler"
      BY DEF Permanent, Structs
    <3> QED
      BY <2>1, <3>1, <1>3
  <2>2. CASE act.x \notin Structs
    BY <2>2, <1>3 DEF Permanent
  <2> QED
    BY <2>1, <2>2
<1>5. WellPointed(kind, points') /\ PointsFit(points', val, b)
  <2>1. WellPointed(kind, points) /\ ValuesFit(kind, val, a) /\ PointsFit(points, val, a)
    BY HealthyFits
  <2> QED
    BY <2>1, <1>1, <1>2, <1>4, RemoveKeeps
<1>6. Djurus(points') = Djurus(points)
  <2>1. ~(val[s] = "vm" /\ act.label = "djuru")
    BY <1>3, Names
  <2> QED
    BY <2>1, <1>2, SameDjurus
<1>7. /\ b.env = a.env /\ b.kind = a.kind /\ b.fresh = a.fresh /\ b.apart = a.apart /\ b.here = a.here
      /\ b.temp = a.temp /\ b.stk = a.stk /\ b.under = a.under
  BY DEF Removed, WellKnown, IsKnowledge
<1> HIDE DEF b
<1>8. Healthy' /\ Fits(val, b)'
  BY <1>5, <1>6, <1>7, PointersStep
<1> QED
  BY <1>8 DEF b

\* What is known after pointers are taken out is still knowledge.
LEMMA RemovedIsKnown ==
  ASSUME NEW a, WellKnown(a), NEW x, NEW l
  PROVE  /\ WellKnown(Removed(a, x, l)) /\ Symbols(Removed(a, x, l)) = Symbols(a)
         /\ \A y : Sym(Removed(a, x, l), y) = Sym(a, y)
         /\ \A y, l2, z : AllowsPointer(a, y, l2, z) => AllowsPointer(Removed(a, x, l), y, l2, z)
<1> DEFINE b == Removed(a, x, l)
<1>1. /\ b.links \subseteq a.links /\ b.may \subseteq a.may /\ b.structs \subseteq a.structs /\ b.raw \subseteq a.raw
      /\ b.env = a.env /\ b.kind = a.kind /\ b.fresh = a.fresh /\ b.apart = a.apart /\ b.here = a.here
      /\ b.temp = a.temp /\ b.stk = a.stk /\ b.under = a.under /\ DOMAIN b = DOMAIN a
  BY DEF Removed, WellKnown, IsKnowledge, Cut, CutOf
<1> HIDE DEF b
<1>2. Symbols(b) = Symbols(a) /\ \A y : Sym(b, y) = Sym(a, y)
  BY <1>1 DEF Symbols, Sym
<1>3. WellKnown(b)
  <2>1. IsKnowledge(b)
    BY <1>1 DEF WellKnown, IsKnowledge
  <2>2. /\ \A s \in DOMAIN Fixed : s \in Symbols(b) /\ b.kind[s] = Fixed[s]
        /\ \A s \in Symbols(b) \ DOMAIN Fixed : s[2] # 0 /\ b.kind[s] \in Kinds \cup {"any"}
        /\ DOMAIN b.env \cap (FixedNames \cup {Here, Garbage}) = {}
        /\ \A y \in DOMAIN b.env : b.env[y] \in Symbols(b) /\ b.kind[b.env[y]] # "struct"
    BY <1>1, <1>2 DEF WellKnown
  <2>3. /\ b.fresh \cup b.apart \cup b.raw \subseteq Symbols(b)
        /\ \A k \in b.links : {k[1], k[3]} \subseteq Symbols(b)
    BY <1>1, <1>2 DEF WellKnown
  <2>4. \A p \in b.may : p[1] \in Structs \ {"vm"} /\ p[3] \in Symbols(b) \cup {Unknown}
    BY <1>1, <1>2 DEF WellKnown
  <2>5. \A p \in b.structs : p[1] \in Structs /\ p[2] \in StructLabels /\ p[3] \in Structs
    BY <1>1, <1>2 DEF WellKnown
  <2>6. /\ b.temp \in Seq(Symbols(b)) /\ Len(b.temp) <= MSC_MAX_TEMP_ROOTS
        /\ b.stk \in Seq(Symbols(b)) /\ b.under \in Nat
        /\ b.here \in Symbols(b) /\ b.kind[b.here] = "djuru"
    BY <1>1, <1>2 DEF WellKnown
  <2> QED
    BY <2>1, <2>2, <2>3, <2>4, <2>5, <2>6 DEF WellKnown
<1>4. ASSUME NEW y, NEW l2, NEW z, AllowsPointer(a, y, l2, z) PROVE AllowsPointer(b, y, l2, z)
  BY <1>1, <1>2, <1>4 DEF AllowsPointer, IsObject
<1> QED
  BY <1>2, <1>3, <1>4 DEF b

LEMMA SetStep ==
  ASSUME NEW a, WellKnown(a), NEW val, Fits(val, a), Healthy, NEW act, AllowsSet(a, act),
         points' = Without(Node(act.x), act.label) \cup {<<Node(act.x), act.label, Node(act.y)>>},
         UNCHANGED <<kind, stack, tempRoots, reg>>
  PROVE  Healthy' /\ Fits(val, AfterSet(a, act))'
<1> DEFINE x == act.x
           l == act.label
           y == act.y
           s == Sym(a, x)
           t == Sym(a, y)
           less == Removed(a, x, l)
           fewer == {p \in points : ~(p[1] = val[s] /\ p[2] = l)}
           b == Added(less, x, {<<l, y>>})
           here == [b EXCEPT !.here = t, !.stk = <<>>, !.under = 0, !.apart = {}]
<1>1. AllowsPointer(a, x, l, y) /\ s \in Symbols(a) /\ t \in Symbols(a)
  BY DEF AllowsSet, AllowsPointer
<1>2. Node(x) = val[s] /\ Node(y) = val[t]
  BY <1>1, NodeOf
<1>3. points' = fewer \cup {<<val[s], l, val[t]>>}
  BY <1>2 DEF Without
<1>4. /\ x \in Structs => val[s] = x /\ (x = "vm" => l = "compiler" \/ l = "djuru")
      /\ x \notin Structs => val[s] \in Fresh
  <2>1. x \in Structs => val[s] = x
    BY <1>1, HealthyFits, StructNode
  <2>2. x = "vm" => l = "compiler" \/ l = "djuru"
    BY DEF AllowsSet
  <2>3. x \notin Structs => val[s] \in Fresh
    BY HealthyFits DEF AllowsSet, ValuesFit
  <2> QED
    BY <2>1, <2>2, <2>3
<1>5. \A q \in Permanent : q[1] # val[s] \/ q[2] # l
  <2>1. CASE x \in Structs
    <3>1. \A q \in Permanent : q[1] \in Structs => q[1] = "vm" /\ q[2] # "compiler" /\ q[2] # "djuru"
      BY DEF Permanent, Structs
    <3> QED
      BY <2>1, <3>1, <1>4
  <2>2. CASE x \notin Structs
    <3>1. \A q \in Permanent : q[1] = "vm" \/ q[1] \in FixedObjects
      BY DEF Permanent, FixedObjects
    <3> QED
      BY <2>2, <3>1, <1>4, Names
  <2> QED
    BY <2>1, <2>2
<1>6. WellPointed(kind, fewer) /\ PointsFit(fewer, val, less)
  <2>1. WellPointed(kind, points) /\ ValuesFit(kind, val, a) /\ PointsFit(points, val, a)
    BY HealthyFits
  <2> QED
    BY <2>1, <1>1, <1>5, RemoveKeeps
<1>7. /\ less.env = a.env /\ less.kind = a.kind /\ less.fresh = a.fresh /\ less.apart = a.apart /\ less.here = a.here
      /\ less.temp = a.temp /\ less.stk = a.stk /\ less.under = a.under /\ IsKnowledge(less)
  BY DEF Removed, WellKnown, IsKnowledge
<1>8. WellKnown(less) /\ Sym(less, x) = s /\ Sym(less, y) = t /\ AllowsPointer(less, x, l, y)
  <2>1. WellKnown(less)
    BY RemovedIsKnown
  <2>2. Sym(less, x) = s /\ Sym(less, y) = t
    BY RemovedIsKnown
  <2>3. AllowsPointer(less, x, l, y)
    BY <1>1, RemovedIsKnown
  <2> QED
    BY <2>1, <2>2, <2>3
<1>9. ValuesFit(kind, val, less)
  <2>1. ValuesFit(kind, val, a)
    BY HealthyFits
  <2> HIDE DEF less
  <2> QED
    BY <2>1, <1>7, SameValues
<1>10. /\ b.env = a.env /\ b.kind = a.kind /\ b.fresh = a.fresh /\ b.apart = a.apart /\ b.here = a.here
       /\ b.temp = a.temp /\ b.stk = a.stk /\ b.under = a.under /\ IsKnowledge(b)
  <2> HIDE DEF less
  <2> QED
    BY <1>7 DEF Added, IsKnowledge
<1>11. WellPointed(kind, points') /\ PointsFit(points', val, b)
  <2> DEFINE holds == {<<l, y>>}
  <2>1. \A h \in holds : AllowsPointer(less, x, h[1], h[2])
    BY <1>8
  <2>2. Linked(val, less, x, holds) = {<<val[s], l, val[t]>>}
    BY <1>8 DEF Linked
  <2> HIDE DEF less, fewer, holds, x, s, t, l, y
  <2>3. WellPointed(kind, fewer \cup Linked(val, less, x, holds))
    BY <2>1, <1>6, <1>8, <1>9, AddKeeps
  <2>4. PointsFit(fewer \cup Linked(val, less, x, holds), val, Added(less, x, holds))
    BY <2>1, <1>6, <1>8, <1>9, AddKeeps
  <2> QED
    BY <2>2, <2>3, <2>4, <1>3 DEF holds
<1>12. AfterSet(a, act) = IF x = "vm" /\ l = "djuru" THEN here ELSE b
  BY DEF AfterSet
<1>13. CASE ~(x = "vm" /\ l = "djuru")
  <2>1. ~(val[s] = "vm" /\ l = "djuru")
    BY <1>4, <1>13, Names
  <2> DEFINE new == <<val[s], l, val[t]>>
  <2>2. new[1] = val[s] /\ new[2] = l
    OBVIOUS
  <2> HIDE DEF new
  <2>3. Djurus(points') = Djurus(points)
    BY <2>1, <2>2, <1>3, SameDjurus DEF new
  <2> HIDE DEF b
  <2>4. Healthy' /\ Fits(val, b)'
    BY <2>3, <1>10, <1>11, PointersStep
  <2> QED
    BY <2>4, <1>12, <1>13
<1>14. CASE x = "vm" /\ l = "djuru"
  <2>1. a.kind[t] = "djuru" /\ val[s] = "vm"
    BY <1>4, <1>14, Names DEF AllowsSet
  <2>2. Djurus(points') = {val[t]}
    <3> DEFINE new == <<val[s], l, val[t]>>
    <3>1. new[1] = "vm" /\ new[2] = "djuru" /\ new[3] = val[t]
      BY <2>1, <1>14
    <3>2. \A p \in fewer : ~(p[1] = "vm" /\ p[2] = "djuru")
      BY <2>1, <1>14
    <3>3. points' = fewer \cup {new}
      BY <1>3
    <3> HIDE DEF new, fewer, t
    <3>4. ASSUME NEW p \in points', p[1] = "vm", p[2] = "djuru" PROVE p[3] = val[t]
      BY <3>1, <3>2, <3>3, <3>4
    <3>5. val[t] \in Djurus(points')
      BY <3>1, <3>3 DEF Djurus
    <3> QED
      BY <3>4, <3>5 DEF Djurus
  <2>3. val[t] \in Object
    BY <2>1, <1>1, HealthyFits DEF ValuesFit, LiveIn
  <2> HIDE DEF t, b
  <2>4. /\ here.env = b.env /\ here.kind = b.kind /\ here.fresh = b.fresh /\ here.apart = {} /\ here.here = t
        /\ here.temp = b.temp /\ here.stk = <<>> /\ here.under = 0
        /\ here.links = b.links /\ here.may = b.may /\ here.structs = b.structs /\ here.raw = b.raw
    BY <1>10 DEF IsKnowledge
  <2> HIDE DEF here
  <2>5. ValuesFit(kind, val, here)
    <3>1. ValuesFit(kind, val, a)
      BY HealthyFits
    <3> QED
      BY <3>1, <2>4, <1>10 DEF ValuesFit, Symbols
  <2>6. PointsFit(points', val, here)
    BY <2>4, <1>11, SamePoints
  <2>7. LocalsFit(reg, val, here) /\ RootsFit(tempRoots, val, here)
    BY <2>4, <1>10, HealthyFits DEF LocalsFit, RootsFit
  <2>8. HereFits(points', val, here)
    BY <2>2, <2>4 DEF HereFits
  <2>9. StackFits(stack, val, here)
    <3>1. stack[val[t]] \in Seq(Object)
      BY <2>3, HealthyFits DEF WellTyped
    <3>2. Len(stack[val[t]]) \in Nat /\ Len(here.stk) = 0
      BY <3>1, <2>4
    <3> QED
      BY <3>2, <2>4 DEF StackFits
  <2>10. Fits(val, here)'
    BY <2>5, <2>6, <2>7, <2>8, <2>9 DEF Fits
  <2>11. Healthy'
    BY <1>11 DEF Healthy
  <2> QED
    BY <2>10, <2>11, <1>12, <1>14
<1> QED
  BY <1>13, <1>14

\* A step keeps what is known after it true.
LEMMA RunStepFits ==
  ASSUME NEW a, WellKnown(a), NEW val, Fits(val, a), Healthy, NEW i, NEW act, act = step, Allows(a, i, act),
         RunStep, ~FindsNone
  PROVE  Healthy' /\ \E v : Fits(v, After(a, i, act))'
<1>1. CASE DoReallocate
  <2>1. act.op = "reallocate" /\ UNCHANGED <<heapVars, reg>>
    BY <1>1 DEF DoReallocate, Do
  <2>2. After(a, i, act) = a
    BY <2>1 DEF After
  <2>3. Healthy' /\ Fits(val, a)'
    BY <2>1 DEF heapVars, Healthy, Fits
  <2> QED
    BY <2>2, <2>3
<1>2. CASE DoNew
  <2>1. act.op = "new"
    BY <1>2 DEF DoNew, Do
  <2>2. After(a, i, act) = AfterNew(a, i, act) /\ AllowsNew(a, i, act)
    BY <2>1 DEF After, Allows
  <2> QED
    BY <2>2, <1>2, NewStep
<1>3. CASE DoEnsure
  <2>1. act.op = "ensure"
    BY <1>3 DEF DoEnsure, Do
  <2>2. AllowsEnsure(a, act) /\ After(a, i, act) = [a EXCEPT !.may = @ \cup {<<act.x, act.label, Unknown>>}]
    BY <2>1 DEF After, Allows
  <2>3. Healthy' /\ Fits(val, [a EXCEPT !.may = @ \cup {<<act.x, act.label, Unknown>>}])'
    BY <2>2, <1>3, EnsureStep
  <2> QED
    BY <2>2, <2>3
<1>4. CASE DoPoint
  <2>1. UNCHANGED <<kind, stack, tempRoots, reg>>
    BY <1>4 DEF DoPoint
  <2>2. act.op \in {"link", "unlink", "set", "copy", "clear", "forget", "shift"}
    BY <1>4 DEF DoPoint, Do
  <2>3. CASE act.op = "link"
    <3>1. AllowsLink(a, act) /\ After(a, i, act) = Added(a, act.x, act.holds)
      BY <2>3 DEF After, Allows
    <3>2. points' = points \cup Pointers(Node(act.x), act.holds)
      BY <2>3, <1>4 DEF DoPoint
    <3>3. Healthy' /\ Fits(val, Added(a, act.x, act.holds))'
      BY <3>1, <3>2, <2>1, LinkStep
    <3> QED
      BY <3>1, <3>3
  <2>4. CASE act.op = "unlink"
    <3> DEFINE b == [a EXCEPT !.links = Cut(@, Sym(a, act.x), act.label)]
    <3>1. AllowsUnlink(a, act) /\ After(a, i, act) = b
      BY <2>4 DEF After, Allows
    <3>2. points' = points \ {<<Node(act.x), act.label, Node(act.y)>>}
      BY <2>4, <1>4 DEF DoPoint
    <3>3. Healthy' /\ Fits(val, b)'
      BY <3>1, <3>2, <2>1, UnlinkStep
    <3> HIDE DEF b
    <3> QED
      BY <3>1, <3>3
  <2>5. CASE act.op = "set"
    <3>1. AllowsSet(a, act) /\ After(a, i, act) = AfterSet(a, act)
      BY <2>5 DEF After, Allows
    <3>2. points' = Without(Node(act.x), act.label) \cup {<<Node(act.x), act.label, Node(act.y)>>}
      BY <2>5, <1>4 DEF DoPoint
    <3>3. Healthy' /\ Fits(val, AfterSet(a, act))'
      BY <3>1, <3>2, <2>1, SetStep
    <3> QED
      BY <3>1, <3>3
  <2>6. CASE act.op = "copy"
    <3>1. AllowsCopy(a, act) /\ After(a, i, act) = a
      BY <2>6 DEF After, Allows
    <3>2. points' = points \cup {<<Node(act.x), act.label, o>> : o \in Targets(Node(act.y), act.label)}
      BY <2>6, <1>4 DEF DoPoint
    <3>3. Healthy' /\ Fits(val, a)'
      BY <3>1, <3>2, <2>1, CopyStep
    <3> QED
      BY <3>1, <3>3
  <2>7. CASE act.op = "clear"
    <3>1. AllowsClear(a, act) /\ After(a, i, act) = Removed(a, act.x, act.label)
      BY <2>7 DEF After, Allows
    <3>2. points' = Without(Node(act.x), act.label)
      BY <2>7, <1>4 DEF DoPoint
    <3>3. Healthy' /\ Fits(val, Removed(a, act.x, act.label))'
      BY <3>1, <3>2, <2>1, ClearStep
    <3> QED
      BY <3>1, <3>3
  <2>8. CASE act.op = "forget"
    <3>1. act.x \in Structs \ {"vm"} /\ After(a, i, act) = Forgotten(a, act.x)
      BY <2>8 DEF After, Allows
    <3>2. points' = {p \in points : p[1] # act.x}
      BY <2>8, <1>4 DEF DoPoint
    <3>3. Healthy' /\ Fits(val, Forgotten(a, act.x))'
      BY <3>1, <3>2, <2>1, ForgetStep
    <3> QED
      BY <3>1, <3>3
  <2>9. CASE act.op = "shift"
    <3>1. (\A p \in a.structs : p[1] # "parser") /\ After(a, i, act) = Shifted(a)
      BY <2>9 DEF After, Allows
    <3>2. points' = {p \in points : p[1] # "parser" \/ p[2] = "next"}
                      \cup {<<"parser", "previous", o>> : o \in Targets("parser", "current")}
                      \cup {<<"parser", "current", o>> : o \in Targets("parser", "next")}
      BY <2>9, <1>4 DEF DoPoint
    <3>3. points' = Moved(points, "parser")
      BY <3>2 DEF Moved, Targets
    <3>4. Healthy' /\ Fits(val, Shifted(a))'
      BY <3>1, <3>3, <2>1, ShiftStep
    <3> QED
      BY <3>1, <3>4
  <2> QED
    BY <2>2, <2>3, <2>4, <2>5, <2>6, <2>7, <2>8, <2>9
<1>5. CASE DoLoad
  <2>1. act.op \in {"load", "find"}
    BY <1>5 DEF DoLoad, Do
  <2>2. AllowsLoad(a, i, act) /\ After(a, i, act) = AfterLoad(a, i, act)
    BY <2>1 DEF After, Allows
  <2> QED
    BY <2>2, <1>5, LoadStep
<1>6. CASE DoRoot
  <2>1. act.op = "root"
    BY <1>6 DEF DoRoot, Do
  <2> DEFINE b == [a EXCEPT !.temp = Append(@, Sym(a, act.x))]
  <2>2. IsObject(a, Sym(a, act.x)) /\ After(a, i, act) = b
    BY <2>1 DEF After, Allows
  <2>3. Healthy' /\ Fits(val, b)'
    BY <2>2, <1>6, RootStep
  <2> HIDE DEF b
  <2> QED
    BY <2>2, <2>3
<1>7. CASE DoUnroot
  <2>1. act.op = "unroot"
    BY <1>7 DEF DoUnroot, Do
  <2> DEFINE b == [a EXCEPT !.temp = Front(@)]
  <2>2. a.temp # <<>> /\ After(a, i, act) = b
    BY <2>1 DEF After, Allows
  <2>3. Healthy' /\ Fits(val, b)'
    BY <2>2, <1>7, UnrootStep
  <2> HIDE DEF b
  <2> QED
    BY <2>2, <2>3
<1>8. CASE DoPush
  <2>1. act.op = "push"
    BY <1>8 DEF DoPush, Do
  <2> DEFINE b == [a EXCEPT !.stk = Append(@, Sym(a, act.x))]
  <2>2. IsObject(a, Sym(a, act.x)) /\ After(a, i, act) = b
    BY <2>1 DEF After, Allows
  <2>3. Healthy' /\ Fits(val, b)'
    BY <2>2, <1>8, PushStep
  <2> HIDE DEF b
  <2> QED
    BY <2>2, <2>3
<1>9. CASE DoDrop
  <2>1. act.op = "drop"
    BY <1>9 DEF DoDrop, Do
  <2> DEFINE b == [a EXCEPT !.stk = Front(@)]
  <2>2. a.stk # <<>> /\ After(a, i, act) = b
    BY <2>1 DEF After, Allows
  <2>3. Healthy' /\ Fits(val, b)'
    BY <2>2, <1>9, DropStep
  <2> HIDE DEF b
  <2> QED
    BY <2>2, <2>3
<1>10. CASE DoSlot
  <2>1. act.op = "slot"
    BY <1>10 DEF DoSlot, Do
  <2>2. AllowsSlot(a, act) /\ After(a, i, act) = a
    BY <2>1 DEF After, Allows
  <2>3. Healthy' /\ Fits(val, a)'
    BY <2>2, <1>10, SlotStep
  <2> QED
    BY <2>2, <2>3
<1>11. CASE DoPeek
  <2>1. act.op = "peek"
    BY <1>11 DEF DoPeek, Do
  <2>2. AllowsPeek(a, i, act) /\ After(a, i, act) = AfterPeek(a, i, act)
    BY <2>1 DEF After, Allows
  <2> QED
    BY <2>2, <1>11, PeekStep
<1> QED
  BY <1>1, <1>2, <1>3, <1>4, <1>5, <1>6, <1>7, <1>8, <1>9, <1>10, <1>11 DEF RunStep

(****************************************************************************)
(* What a collection marks.                                                 *)
(****************************************************************************)
\* A set that grows by what T finds, until there is no more: the function
\* that computes it, for sets of finitely many nodes.
GrowsBy(N, T, f) == f = [m \in SUBSET N |-> IF m \cup T[m] = m THEN m ELSE f[m \cup T[m]]]

LEMMA GrowingIsDefined ==
  ASSUME NEW N, NEW T \in [SUBSET N -> SUBSET N], \A m, m2 \in SUBSET N : m \subseteq m2 => T[m] \subseteq T[m2]
  PROVE  \E f : GrowsBy(N, T, f)
<1> DEFINE Closed(m) == {S \in SUBSET N : m \subseteq S /\ T[S] \subseteq S}
           least(m) == {x \in N : \A S \in Closed(m) : x \in S}
           f == [m \in SUBSET N |-> least(m)]
<1>1. ASSUME NEW m \in SUBSET N PROVE f[m] = IF m \cup T[m] = m THEN m ELSE f[m \cup T[m]]
  <2>1. T[m] \in SUBSET N /\ m \cup T[m] \in SUBSET N
    OBVIOUS
  <2>2. CASE m \cup T[m] = m
    <3>1. m \in Closed(m)
      BY <2>2
    <3> QED
      BY <2>2, <3>1
  <2>3. CASE m \cup T[m] # m
    <3>1. ASSUME NEW S \in Closed(m) PROVE S \in Closed(m \cup T[m])
      <4>1. T[m] \subseteq T[S]
        BY <3>1
      <4> QED
        BY <3>1, <4>1
    <3>2. Closed(m \cup T[m]) = Closed(m)
      BY <3>1
    <3>3. f[m] = least(m) /\ f[m \cup T[m]] = least(m \cup T[m])
      BY <2>1
    <3> QED
      BY <2>3, <3>2, <3>3
  <2> QED
    BY <2>2, <2>3
<1>2. GrowsBy(N, T, f)
  BY <1>1 DEF GrowsBy
<1> QED
  BY <1>2

LEMMA GrowingEnds ==
  ASSUME NEW N, IsFiniteSet(N), NEW T \in [SUBSET N -> SUBSET N], NEW f, GrowsBy(N, T, f)
  PROVE  \A m \in SUBSET N : m \subseteq f[m] /\ f[m] \in SUBSET N /\ T[f[m]] \subseteq f[m]
<1> DEFINE Ends(m) == m \subseteq f[m] /\ f[m] \in SUBSET N /\ T[f[m]] \subseteq f[m]
           size == [m \in SUBSET N |-> Cardinality(N \ m)]
           bad == {m \in SUBSET N : ~Ends(m)}
           sizes == {size[m] : m \in bad}
<1>1. \A m \in SUBSET N : size[m] \in Nat
  <2>1. ASSUME NEW m \in SUBSET N PROVE Cardinality(N \ m) \in Nat
    <3>1. IsFiniteSet(N \ m)
      BY FS_Subset
    <3> QED
      BY <3>1, FS_CardinalityType
  <2> QED
    BY <2>1
<1>2. ASSUME NEW m \in SUBSET N PROVE f[m] = IF m \cup T[m] = m THEN m ELSE f[m \cup T[m]]
  BY DEF GrowsBy
<1> SUFFICES ASSUME bad # {} PROVE FALSE
  OBVIOUS
<1>3. PICK m \in bad : \A m2 \in bad : size[m] <= size[m2]
  <2>0. \A m \in bad : m \in SUBSET N
    OBVIOUS
  <2> HIDE DEF size, bad
  <2>1. sizes \in SUBSET Nat /\ sizes # {}
    BY <2>0, <1>1
  <2>2. PICK n \in sizes : \A n2 \in sizes : n <= n2
    BY <2>1, LeastMember
  <2> QED
    BY <2>2
<1>4. m \in SUBSET N /\ ~Ends(m)
  OBVIOUS
<1> DEFINE more == m \cup T[m]
<1>5. more \in SUBSET N
  BY <1>4
<1>6. more # m
  BY <1>2, <1>4
<1>7. f[m] = f[more]
  BY <1>2, <1>4, <1>6
<1>8. size[more] < size[m]
  <2>1. N \ more \in SUBSET (N \ m) /\ N \ more # N \ m
    BY <1>4, <1>5, <1>6
  <2>2. IsFiniteSet(N \ m)
    BY FS_Subset
  <2>3. Cardinality(N \ more) <= Cardinality(N \ m) /\ Cardinality(N \ m) # Cardinality(N \ more)
    BY <2>1, <2>2, FS_Subset
  <2>4. size[more] = Cardinality(N \ more) /\ size[m] = Cardinality(N \ m) /\ size[more] \in Nat /\ size[m] \in Nat
    BY <1>1, <1>4, <1>5
  <2> QED
    BY <2>3, <2>4
<1>9. Ends(more)
  <2>1. more \notin bad
    <3>1. size[more] \in Nat /\ size[m] \in Nat
      BY <1>1, <1>4, <1>5
    <3> HIDE DEF size, bad, more
    <3> QED
      BY <3>1, <1>3, <1>8
  <2> QED
    BY <2>1, <1>5
<1> QED
  BY <1>4, <1>7, <1>9

LEMMA FewAreFinite ==
  \A x, y, z : IsFiniteSet({x, y, z})
<1> SUFFICES ASSUME NEW x, NEW y, NEW z PROVE IsFiniteSet({x, y, z})
  OBVIOUS
<1>1. IsFiniteSet({x}) /\ IsFiniteSet({y}) /\ IsFiniteSet({z})
  BY FS_Singleton
<1>2. IsFiniteSet({x} \cup {y})
  BY <1>1, FS_Union
<1>3. IsFiniteSet(({x} \cup {y}) \cup {z})
  BY <1>1, <1>2, FS_Union
<1>4. ({x} \cup {y}) \cup {z} = {x, y, z}
  OBVIOUS
<1> QED
  BY <1>3, <1>4

\* The collector follows the pointers of what it marks.
LEMMA TracedNodes ==
  ASSUME Healthy
  PROVE  /\ \A m \in SUBSET Nodes : Traced(m \cap Object) \in SUBSET Nodes
         /\ \A m, m2 \in SUBSET Nodes : m \subseteq m2 => Traced(m \cap Object) \subseteq Traced(m2 \cap Object)
<1>1. \A p \in points : p[3] \in Nodes
  BY DEF Healthy, WellPointed, WellPlaced, LiveIn, Nodes
<1>2. ASSUME NEW o \in Object PROVE Range(stack[o]) \subseteq Nodes
  <2>1. stack[o] \in Seq(Object)
    BY DEF Healthy, WellTyped
  <2> QED
    BY <2>1 DEF Range, Nodes
<1>3. ASSUME NEW m \in SUBSET Nodes PROVE Traced(m \cap Object) \in SUBSET Nodes
  BY <1>1, <1>2 DEF Traced
<1>4. ASSUME NEW m \in SUBSET Nodes, NEW m2 \in SUBSET Nodes, m \subseteq m2
      PROVE  Traced(m \cap Object) \subseteq Traced(m2 \cap Object)
  BY <1>4 DEF Traced
<1> QED
  BY <1>3, <1>4

LEMMA ReachedIsClosed ==
  ASSUME Healthy, NEW os \in SUBSET Nodes
  PROVE  os \subseteq Reached(os) /\ Reached(os) \in SUBSET Nodes /\ Traced(Reached(os) \cap Object) \subseteq Reached(os)
<1> DEFINE T == [m \in SUBSET Nodes |-> Traced(m \cap Object)]
           reached == CHOOSE f : f = [m \in SUBSET Nodes |->
                                        IF m \cup Traced(m \cap Object) = m THEN m ELSE f[m \cup Traced(m \cap Object)]]
<1>1. IsFiniteSet(Nodes)
  <2>1. IsFiniteSet(Fresh)
    BY HeapAssumption
  <2>2. IsFiniteSet(DOMAIN Boot)
    <3> DEFINE A == {"modules", "core", "Class"}
               B == {"main", "script", "code"}
               C == {"nested_code", "aClass", "aList"}
               D == {"aMap", "aString", "literal_string"}
               E == {"aClosure"}
    <3>1. DOMAIN Boot = (A \cup B) \cup (C \cup (D \cup E))
      BY DEF Boot
    <3>2. IsFiniteSet(A) /\ IsFiniteSet(B) /\ IsFiniteSet(C) /\ IsFiniteSet(D) /\ IsFiniteSet(E)
      BY FewAreFinite, FS_Singleton
    <3> HIDE DEF A, B, C, D, E
    <3>3. IsFiniteSet(A \cup B) /\ IsFiniteSet(D \cup E)
      BY <3>2, FS_Union
    <3>4. IsFiniteSet(C \cup (D \cup E))
      BY <3>2, <3>3, FS_Union
    <3> QED
      BY <3>1, <3>3, <3>4, FS_Union
  <2>3. IsFiniteSet(Structs) /\ IsFiniteSet({Garbage} \cup {Freed})
    <3> DEFINE A == {"vm", "parser", "compiler"}
               B == {"nested"}
               C == {"classInfo"}
               D == {Garbage}
               E == {Freed}
    <3>1. Structs = A \cup (B \cup C)
      BY DEF Structs
    <3>2. IsFiniteSet(A) /\ IsFiniteSet(B) /\ IsFiniteSet(C) /\ IsFiniteSet(D) /\ IsFiniteSet(E)
      BY FewAreFinite, FS_Singleton
    <3> HIDE DEF A, B, C, D, E
    <3>3. IsFiniteSet(B \cup C) /\ IsFiniteSet(D \cup E)
      BY <3>2, FS_Union
    <3>4. IsFiniteSet(A \cup (B \cup C))
      BY <3>2, <3>3, FS_Union
    <3> QED
      BY <3>1, <3>3, <3>4 DEF D, E
  <2>4. IsFiniteSet(Fresh \cup DOMAIN Boot) /\ IsFiniteSet(Structs \cup ({Garbage} \cup {Freed}))
    BY <2>1, <2>2, <2>3, FS_Union
  <2>5. Nodes = (Fresh \cup DOMAIN Boot) \cup (Structs \cup ({Garbage} \cup {Freed}))
    BY DEF Nodes, Object
  <2> HIDE DEF Nodes
  <2> QED
    BY <2>4, <2>5, FS_Union
<1>2. T \in [SUBSET Nodes -> SUBSET Nodes] /\ \A m, m2 \in SUBSET Nodes : m \subseteq m2 => T[m] \subseteq T[m2]
  BY TracedNodes
<1>3. \A f : GrowsBy(Nodes, T, f) <=>
        f = [m \in SUBSET Nodes |-> IF m \cup Traced(m \cap Object) = m THEN m ELSE f[m \cup Traced(m \cap Object)]]
  BY DEF GrowsBy
<1>4. Reached(os) = reached[os]
  BY DEF Reached
<1> HIDE DEF T
<1>5. \E f : GrowsBy(Nodes, T, f)
  BY <1>2, GrowingIsDefined
<1>6. GrowsBy(Nodes, T, reached)
  BY <1>3, <1>5
<1> HIDE DEF reached
<1>7. os \subseteq reached[os] /\ reached[os] \in SUBSET Nodes /\ T[reached[os]] \subseteq reached[os]
  BY <1>1, <1>2, <1>6, GrowingEnds
<1> QED
  BY <1>4, <1>7 DEF T

(****************************************************************************)
(* A collection.                                                            *)
(****************************************************************************)
Kept == Reached(roots)

\* The collector follows a pointer of an object, or of a struct.
LEMMA FollowedIsKept ==
  ASSUME Healthy, tempRoots \in Seq(Object)
  PROVE  /\ \A p \in points : <<p[1], p[2]>> \in Followed(points) => p[3] \in Kept
         /\ \A p \in points : p[1] \in Object /\ p[1] \in Kept /\ p[2] \in Blackened(kind[p[1]]) => p[3] \in Kept
         /\ \A o \in Object : o \in Kept => Range(stack[o]) \subseteq Kept
         /\ Range(tempRoots) \subseteq Kept
<1>1. roots \in SUBSET Nodes
  <2>1. \A p \in points : p[3] \in Nodes
    BY DEF Healthy, WellPointed, WellPlaced, LiveIn, Nodes
  <2>2. Range(tempRoots) \subseteq Nodes
    BY DEF Range, Nodes
  <2> QED
    BY <2>1, <2>2 DEF roots
<1>2. roots \subseteq Kept /\ Traced(Kept \cap Object) \subseteq Kept
  BY <1>1, ReachedIsClosed DEF Kept
<1>3. \A p \in points : <<p[1], p[2]>> \in Followed(points) => p[3] \in Kept
  BY <1>2 DEF roots
<1>4. \A p \in points : p[1] \in Object /\ p[1] \in Kept /\ p[2] \in Blackened(kind[p[1]]) => p[3] \in Kept
  BY <1>2 DEF Traced
<1>5. \A o \in Object : o \in Kept => Range(stack[o]) \subseteq Kept
  BY <1>2 DEF Traced
<1>6. Range(tempRoots) \subseteq Kept
  BY <1>2 DEF roots
<1> QED
  BY <1>3, <1>4, <1>5, <1>6

LEMMA FollowedOfVm ==
  \A ps : \A l \in VmLabels : <<"vm", l>> \in Followed(ps)
BY DEF Followed, VmLabels

\* More pointers, and the collector follows no fewer.
LEMMA FollowedGrows ==
  ASSUME NEW ps, NEW more, ps \subseteq more
  PROVE  Followed(ps) \subseteq Followed(more)
<1>1. Compilers(ps) \subseteq Compilers(more)
  BY DEF Compilers
<1> DEFINE infos(q) == {p[3] : p \in {p \in q : p[1] \in Compilers(q) /\ p[2] = "enclosingClass"}}
<1>2. infos(ps) \subseteq infos(more)
  BY <1>1
<1> QED
  BY <1>1, <1>2 DEF Followed

\* The objects that are always there are kept.
LEMMA FixedAreKept ==
  ASSUME Healthy, tempRoots \in Seq(Object)
  PROVE  FixedObjects \subseteq Kept
<1>1. Permanent \subseteq points /\ \A x \in FixedObjects : kind[x] = Boot[x] /\ x \in Object
  BY Names DEF Healthy, WellPointed, WellTyped
<1>2. ASSUME NEW x \in FixedObjects, NEW l, NEW y, <<x, l, y>> \in Permanent, l \in Blackened(Boot[x]), x \in Kept
      PROVE  y \in Kept
  <2> DEFINE p == <<x, l, y>>
  <2>1. p \in points /\ p[1] = x /\ p[2] = l /\ p[3] = y
    BY <1>1, <1>2
  <2> HIDE DEF p
  <2> QED
    BY <2>1, <1>1, <1>2, FollowedIsKept
<1>3. "modules" \in Kept
  <2> DEFINE p == <<"vm", "modules", "modules">>
  <2>1. p \in points /\ p[1] = "vm" /\ p[2] = "modules" /\ p[3] = "modules"
    BY <1>1 DEF Permanent
  <2>2. <<p[1], p[2]>> \in Followed(points)
    BY <2>1, FollowedOfVm DEF VmLabels
  <2> HIDE DEF p
  <2> QED
    BY <2>1, <2>2, FollowedIsKept
<1>4. "core" \in Kept
  BY <1>2, <1>3, Names, Colors DEF Permanent, FixedObjects
<1>5. "aClass" \in Kept
  BY <1>2, <1>4, Names, Colors DEF Permanent, FixedObjects
<1>6. "Class" \in Kept
  BY <1>2, <1>5, Names, Colors DEF Permanent, FixedObjects
<1> QED
  BY <1>3, <1>4, <1>5, <1>6 DEF FixedObjects

\* The djuru that runs is kept.
LEMMA HereIsKept ==
  ASSUME NEW a, WellKnown(a), NEW val, Fits(val, a), Healthy
  PROVE  val[a.here] \in Kept /\ val[a.here] \in Object
<1>1. val[a.here] \in Djurus(points)
  BY HealthyFits DEF HereFits
<1>2. PICK p \in points : p[1] = "vm" /\ p[2] = "djuru" /\ p[3] = val[a.here]
  BY <1>1 DEF Djurus
<1>3. <<p[1], p[2]>> \in Followed(points)
  BY <1>2, FollowedOfVm DEF VmLabels
<1>4. tempRoots \in Seq(Object)
  BY HealthyFits DEF RootsFit
<1>5. val[a.here] \in Kept
  BY <1>2, <1>3, <1>4, FollowedIsKept
<1>6. val[a.here] \in Object
  <2>1. a.here \in Symbols(a) /\ a.kind[a.here] = "djuru"
    BY DEF WellKnown
  <2> QED
    BY <2>1, HealthyFits DEF ValuesFit, LiveIn
<1> QED
  BY <1>5, <1>6

\* What is held as far as is known is kept.
LEMMA OutwardIsKept ==
  ASSUME NEW a, WellKnown(a), NEW val, Fits(val, a), Healthy,
         NEW held, held \subseteq Symbols(a), \A s \in held : val[s] \in Kept \cup Structs
  PROVE  Outward(a, held) \subseteq Symbols(a) /\ \A s \in Outward(a, held) : val[s] \in Kept \cup Structs
<1>1. ASSUME NEW k \in a.links, k[1] \in held, k[2] \in Blackened(a.kind[k[1]])
      PROVE  k[3] \in Symbols(a) /\ val[k[3]] \in Kept
  <2> DEFINE p == <<val[k[1]], k[2], val[k[3]]>>
  <2>1. k[1] \in Symbols(a) /\ k[3] \in Symbols(a) /\ p \in points
    BY HealthyFits DEF WellKnown, PointsFit, LinksFit
  <2>2. a.kind[k[1]] # "struct" /\ a.kind[k[1]] # "any"
    BY <1>1, Colors
  <2>3. kind[val[k[1]]] = a.kind[k[1]]
    BY <2>1, <2>2, HealthyFits DEF ValuesFit
  <2>4. val[k[1]] \in Object /\ val[k[1]] \notin Structs
    BY <2>1, <2>2, HealthyFits, NodeOfSymbol
  <2>5. p[1] = val[k[1]] /\ p[2] = k[2] /\ p[3] = val[k[3]]
    OBVIOUS
  <2>6. tempRoots \in Seq(Object)
    BY HealthyFits DEF RootsFit
  <2> HIDE DEF p
  <2> QED
    BY <2>1, <2>3, <2>4, <2>5, <2>6, <1>1, FollowedIsKept
<1> QED
  BY <1>1 DEF Outward

LEMMA HeldIsKept ==
  ASSUME NEW a, WellKnown(a), NEW val, Fits(val, a), Healthy
  PROVE  \A s \in Held(a) : val[s] \in Kept \cup Structs
<1> DEFINE linked == {k[3] : k \in {k \in a.links : k[1] \in DOMAIN Fixed /\ <<k[1][1], k[2]>> \in Followed(a.structs)}}
           first == DOMAIN Fixed \cup Range(a.temp) \cup Range(a.stk) \cup {a.here} \cup linked
<1>1. tempRoots \in Seq(Object)
  BY HealthyFits DEF RootsFit
<1>2. ASSUME NEW s \in DOMAIN Fixed PROVE s \in Symbols(a) /\ val[s] \in Kept \cup Structs
  <2>1. s \in Symbols(a) /\ val[s] = s[1] /\ s[1] \in FixedNames
    BY FixedSymbols, HealthyFits DEF WellKnown, ValuesFit
  <2> QED
    BY <2>1, <1>1, FixedAreKept, Names
<1>3. ASSUME NEW s \in Range(a.temp) PROVE s \in Symbols(a) /\ val[s] \in Kept \cup Structs
  <2>1. a.temp \in Seq(Symbols(a))
    BY DEF WellKnown
  <2>2. PICK j \in 1..Len(a.temp) : s = a.temp[j]
    BY <2>1 DEF Range
  <2>3. tempRoots[j] = val[s] /\ j \in DOMAIN tempRoots
    BY <2>2, <1>1, HealthyFits DEF RootsFit
  <2>4. tempRoots[j] \in Range(tempRoots)
    BY <2>3 DEF Range
  <2> QED
    BY <2>1, <2>2, <2>3, <2>4, <1>1, FollowedIsKept
<1>4. ASSUME NEW s \in Range(a.stk) PROVE s \in Symbols(a) /\ val[s] \in Kept \cup Structs
  <2> DEFINE top == stack[val[a.here]]
  <2>1. a.stk \in Seq(Symbols(a)) /\ a.under \in Nat
    BY DEF WellKnown
  <2>2. PICK j \in 1..Len(a.stk) : s = a.stk[j]
    BY <2>1 DEF Range
  <2>3. Len(top) - Len(a.stk) >= a.under /\ top[(Len(top) - Len(a.stk)) + j] = val[s]
    BY <2>2, HealthyFits DEF StackFits
  <2>4. val[a.here] \in Object /\ val[a.here] \in Kept /\ top \in Seq(Object)
    BY HereIsKept, HealthyFits DEF WellTyped
  <2>5. Len(top) \in Nat /\ Len(a.stk) \in Nat
    BY <2>1, <2>4
  <2>6. (Len(top) - Len(a.stk)) + j \in 1..Len(top)
    BY <2>1, <2>2, <2>3, <2>5, Within
  <2>7. val[s] \in Range(top)
    <3> DEFINE at == (Len(top) - Len(a.stk)) + j
    <3>1. at \in 1..Len(top) /\ top[at] = val[s]
      BY <2>3, <2>6
    <3> HIDE DEF at, top
    <3>2. DOMAIN top = 1..Len(top)
      BY <2>4
    <3> QED
      BY <3>1, <3>2 DEF Range
  <2>8. s \in Symbols(a)
    BY <2>1, <2>2
  <2> QED
    BY <2>4, <2>7, <2>8, <1>1, FollowedIsKept
<1>5. a.here \in Symbols(a) /\ val[a.here] \in Kept \cup Structs
  BY HereIsKept DEF WellKnown
<1>6. ASSUME NEW s \in linked PROVE s \in Symbols(a) /\ val[s] \in Kept \cup Structs
  <2>1. PICK k \in a.links : k[1] \in DOMAIN Fixed /\ <<k[1][1], k[2]>> \in Followed(a.structs) /\ s = k[3]
    OBVIOUS
  <2> DEFINE p == <<val[k[1]], k[2], val[k[3]]>>
  <2>2. p \in points /\ k[3] \in Symbols(a) /\ val[k[1]] = k[1][1]
    BY <2>1, HealthyFits DEF WellKnown, PointsFit, LinksFit, ValuesFit
  <2>3. p[1] = k[1][1] /\ p[2] = k[2] /\ p[3] = val[s]
    BY <2>1, <2>2
  <2>4. Followed(a.structs) \subseteq Followed(points)
    <3>1. a.structs \subseteq points
      BY HealthyFits DEF PointsFit, StructsFit
    <3> QED
      BY <3>1, FollowedGrows
  <2> HIDE DEF p
  <2> QED
    BY <2>1, <2>2, <2>3, <2>4, <1>1, FollowedIsKept
<1>7. first \subseteq Symbols(a) /\ \A s \in first : val[s] \in Kept \cup Structs
  <2> HIDE DEF linked
  <2> QED
    BY <1>2, <1>3, <1>4, <1>5, <1>6
<1>8. Held(a) = Outward(a, Outward(a, Outward(a, Outward(a, first))))
  BY DEF Held
<1> HIDE DEF first
<1>9. LET h == Outward(a, first) IN h \subseteq Symbols(a) /\ \A s \in h : val[s] \in Kept \cup Structs
  BY <1>7, OutwardIsKept
<1>10. LET h == Outward(a, Outward(a, first)) IN h \subseteq Symbols(a) /\ \A s \in h : val[s] \in Kept \cup Structs
  BY <1>9, OutwardIsKept
<1>11. LET h == Outward(a, Outward(a, Outward(a, first))) IN h \subseteq Symbols(a) /\ \A s \in h : val[s] \in Kept \cup Structs
  BY <1>10, OutwardIsKept
<1>12. LET h == Outward(a, Outward(a, Outward(a, Outward(a, first)))) IN
       h \subseteq Symbols(a) /\ \A s \in h : val[s] \in Kept \cup Structs
  BY <1>11, OutwardIsKept
<1> QED
  BY <1>8, <1>12

\* What a collection must keep: the values that are known, what it comes to
\* from what it keeps, and all that there are pointers to.
Keeps(keep, k, st, ps, val, a) ==
  /\ FixedObjects \subseteq keep
  /\ \A s \in Symbols(a) : val[s] \in keep \cup Structs
  /\ \A o \in Object : o \in keep => Range(st[o]) \subseteq keep
  /\ \A p \in ps : p[1] \in Structs \cup keep /\ p[3] \in Object => p[3] \in keep

SweptKinds(keep, k)  == [o \in Object |-> IF o \in keep THEN k[o] ELSE "free"]
SweptStacks(keep, st) == [o \in Object |-> IF o \in keep THEN st[o] ELSE <<>>]
SweptPoints(keep, ps) == {p \in ps : p[1] \in Structs \cup keep}

LEMMA SweptTypes ==
  ASSUME NEW keep, NEW k, NEW st, WellTyped(k, st), FixedObjects \subseteq keep,
         \A o \in Object : o \in keep => Range(st[o]) \subseteq keep
  PROVE  WellTyped(SweptKinds(keep, k), SweptStacks(keep, st))
<1> DEFINE k2 == SweptKinds(keep, k)
           st2 == SweptStacks(keep, st)
<1>1. \A o \in Object : /\ o \in keep => k2[o] = k[o] /\ st2[o] = st[o]
                        /\ o \notin keep => k2[o] = "free" /\ st2[o] = <<>>
  BY DEF SweptKinds, SweptStacks
<1>2. DOMAIN k2 = Object /\ DOMAIN st2 = Object /\ k2 = [o \in Object |-> k2[o]] /\ st2 = [o \in Object |-> st2[o]]
  BY DEF SweptKinds, SweptStacks
<1>3. /\ \A o \in Object : k[o] \in Kinds \cup {"free"} /\ st[o] \in Seq(Object)
      /\ \A o \in Object : st[o] # <<>> => k[o] = "djuru"
      /\ \A o \in Object : \A j \in 1..Len(st[o]) : st[o][j] \in LiveIn(k) \ {"modules"}
      /\ \A x \in FixedObjects : k[x] = Boot[x]
  BY DEF WellTyped
<1> HIDE DEF k2, st2
<1>4. k2 \in [Object -> Kinds \cup {"free"}]
  <2>1. \A o \in Object : k2[o] \in Kinds \cup {"free"}
    BY <1>1, <1>3
  <2> QED
    BY <2>1, <1>2
<1>5. st2 \in [Object -> Seq(Object)]
  <2>1. ASSUME NEW o \in Object PROVE st2[o] \in Seq(Object)
    <3>1. CASE o \in keep
      BY <3>1, <1>1, <1>3
    <3>2. CASE o \notin keep
      <4>1. st2[o] = <<>>
        BY <3>2, <1>1
      <4> QED
        BY <4>1
    <3> QED
      BY <3>1, <3>2
  <2> QED
    BY <2>1, <1>2
<1>6. \A o \in Object : st2[o] # <<>> => k2[o] = "djuru"
  BY <1>1, <1>3
<1>7. ASSUME NEW o \in Object, NEW j \in 1..Len(st2[o]) PROVE st2[o][j] \in LiveIn(k2) \ {"modules"}
  <2>1. o \in keep /\ st2[o] = st[o]
    <3>1. ASSUME o \notin keep PROVE FALSE
      <4>1. st2[o] = <<>>
        BY <1>1, <3>1
      <4> QED
        BY <4>1
    <3> QED
      BY <3>1, <1>1
  <2>2. st[o][j] \in LiveIn(k) \ {"modules"}
    BY <2>1, <1>3
  <2>3. st[o][j] \in Range(st[o])
    BY <2>1, <1>3 DEF Range
  <2>4. st[o][j] \in keep
    BY <2>1, <2>3
  <2> QED
    BY <2>1, <2>2, <2>4, <1>1 DEF LiveIn
<1>8. \A x \in FixedObjects : k2[x] = Boot[x]
  BY <1>1, <1>3, Names
<1> QED
  BY <1>4, <1>5, <1>6, <1>7, <1>8 DEF WellTyped, k2, st2

LEMMA SweptPlaces ==
  ASSUME NEW keep, NEW k, NEW ps, WellPointed(k, ps), FixedObjects \subseteq keep, \A x \in FixedObjects : k[x] = Boot[x],
         \A p \in ps : p[1] \in Structs \cup keep /\ p[3] \in Object => p[3] \in keep
  PROVE  WellPointed(SweptKinds(keep, k), SweptPoints(keep, ps))
<1> DEFINE k2 == SweptKinds(keep, k)
           ps2 == SweptPoints(keep, ps)
<1>1. \A o \in Object : o \in keep => k2[o] = k[o]
  BY DEF SweptKinds
<1>2. \A p : p \in ps2 <=> p \in ps /\ p[1] \in Structs \cup keep
  BY DEF SweptPoints
<1>3. {"modules", "core", "aClass"} \subseteq keep /\ "vm" \in Structs
  BY Names DEF FixedObjects
<1>4. \A o \in LiveIn(k) : o \in keep => o \in LiveIn(k2)
  BY <1>1 DEF LiveIn
<1> HIDE DEF k2, ps2
<1>5. Permanent \subseteq ps2
  <2>1. Permanent \subseteq ps
    BY DEF WellPointed
  <2>2. \A p \in Permanent : p[1] \in {"vm", "modules", "core", "aClass"}
    BY DEF Permanent
  <2> QED
    BY <2>1, <2>2, <1>2, <1>3
<1>6. ASSUME NEW p \in ps2 PROVE WellPlaced(k2, ps2, p)
  <2>1. p \in ps /\ p[1] \in Structs \cup keep /\ WellPlaced(k, ps, p)
    BY <1>2 DEF WellPointed
  <2>2. p[1] \in LiveIn(k2) \cup Structs
    BY <2>1, <1>4 DEF WellPlaced
  <2>3. p[3] \in LiveIn(k2) \cup Structs \cup {Garbage}
    <3>1. p[3] \in LiveIn(k) => p[3] \in keep
      BY <2>1 DEF LiveIn
    <3> QED
      BY <2>1, <3>1, <1>4 DEF WellPlaced
  <2>4. ASSUME p[1] \in Object PROVE Guarded(k2, ps2, p)
    <3>1. Guarded(k, ps, p) /\ k2[p[1]] = k[p[1]]
      BY <2>1, <2>4, <1>1, Names DEF WellPlaced
    <3>2. \A x : <<"modules", "entries", x>> \in ps => <<"modules", "entries", x>> \in ps2
      BY <1>2, <1>3
    <3>3. \A x : <<"core", "variables", x>> \in ps => <<"core", "variables", x>> \in ps2
      BY <1>2, <1>3
    <3>4. p[3] \in Object => k2[p[3]] = k[p[3]]
      BY <2>1, <1>1
    <3> QED
      BY <3>1, <3>2, <3>3, <3>4 DEF Guarded
  <2> QED
    BY <2>1, <2>2, <2>3, <2>4 DEF WellPlaced
<1> QED
  BY <1>5, <1>6 DEF WellPointed, k2, ps2

LEMMA SweptFits ==
  ASSUME NEW keep, NEW k, NEW st, NEW ps, WellTyped(k, st), NEW a, WellKnown(a), NEW val,
         ValuesFit(k, val, a), PointsFit(ps, val, a), StackFits(st, val, a), Keeps(keep, k, st, ps, val, a)
  PROVE  /\ ValuesFit(SweptKinds(keep, k), val, a) /\ PointsFit(SweptPoints(keep, ps), val, a)
         /\ Djurus(SweptPoints(keep, ps)) = Djurus(ps) /\ StackFits(SweptStacks(keep, st), val, a)
<1> DEFINE k2 == SweptKinds(keep, k)
           ps2 == SweptPoints(keep, ps)
           st2 == SweptStacks(keep, st)
<1>1. \A o \in Object : o \in keep => k2[o] = k[o] /\ st2[o] = st[o]
  BY DEF SweptKinds, SweptStacks
<1>2. \A p : p \in ps2 <=> p \in ps /\ p[1] \in Structs \cup keep
  BY DEF SweptPoints
<1>3. \A s \in Symbols(a) : val[s] \in keep \cup Structs
  BY DEF Keeps
<1>4. ASSUME NEW s \in Symbols(a), a.kind[s] # "struct" PROVE val[s] \in keep /\ val[s] \in Object /\ val[s] \in LiveIn(k)
  BY <1>3, <1>4, NodeOfSymbol
<1> HIDE DEF k2, ps2, st2
<1>5. ValuesFit(k2, val, a)
  <2>1. ASSUME NEW s \in Symbols(a), a.kind[s] # "struct" PROVE val[s] \in LiveIn(k2) /\ k2[val[s]] = k[val[s]]
    BY <1>1, <1>4, <2>1 DEF LiveIn
  <2> QED
    BY <2>1 DEF ValuesFit
<1>6. LinksFit(ps2, val, a)
  <2>1. ASSUME NEW l \in a.links PROVE <<val[l[1]], l[2], val[l[3]]>> \in ps2
    <3> DEFINE p == <<val[l[1]], l[2], val[l[3]]>>
    <3>1. p \in ps /\ p[1] = val[l[1]] /\ l[1] \in Symbols(a)
      BY DEF PointsFit, LinksFit, WellKnown
    <3> HIDE DEF p
    <3>2. p \in ps2
      BY <3>1, <1>2, <1>3
    <3> QED
      BY <3>2 DEF p
  <2> QED
    BY <2>1 DEF LinksFit
<1>7. MayFit(ps2, val, a) /\ RawFit(ps2, val, a)
  BY <1>2 DEF PointsFit, MayFit, RawFit
<1>8. StructsFit(ps2, a)
  <2>1. {p \in ps : p[3] \in Structs} = a.structs /\ \A p \in a.structs : p[1] \in Structs
    BY DEF PointsFit, StructsFit, WellKnown
  <2> QED
    BY <2>1, <1>2 DEF StructsFit
<1>9. Djurus(ps2) = Djurus(ps)
  <2>1. "vm" \in Structs
    BY Names
  <2> QED
    BY <2>1, <1>2, SameDjurus
<1>10. StackFits(st2, val, a)
  <2>1. a.here \in Symbols(a) /\ a.kind[a.here] # "struct"
    BY DEF WellKnown
  <2>2. st2[val[a.here]] = st[val[a.here]]
    BY <2>1, <1>1, <1>4
  <2> QED
    BY <2>2 DEF StackFits
<1> QED
  BY <1>5, <1>6, <1>7, <1>8, <1>9, <1>10 DEF PointsFit, k2, ps2, st2

\* What is known where a collection is safe, it keeps.
LEMMA KnownIsKept ==
  ASSUME NEW a, WellKnown(a), NEW val, Fits(val, a), Healthy, SafeToCollect(a)
  PROVE  /\ Keeps(Kept, kind, stack, points, val, a)
         /\ \A p \in points : p[3] # Garbage
         /\ Range(tempRoots) \subseteq Kept
<1>1. tempRoots \in Seq(Object) /\ points \subseteq points
  BY HealthyFits DEF RootsFit
<1>2. FixedObjects \subseteq Kept /\ Range(tempRoots) \subseteq Kept
  BY <1>1, FixedAreKept, FollowedIsKept
<1>3. \A s \in Symbols(a) : val[s] \in Kept \cup Structs
  BY HeldIsKept DEF SafeToCollect
<1>4. \A o \in Object : o \in Kept => Range(stack[o]) \subseteq Kept
  BY <1>1, FollowedIsKept
<1>5. \A p \in points : p[3] # Garbage
  BY HealthyFits DEF PointsFit, RawFit, SafeToCollect
<1>6. ASSUME NEW p \in points, p[1] \in Structs \cup Kept, p[3] \in Object PROVE p[3] \in Kept
  <2>1. WellPlaced(kind, points, p)
    BY DEF Healthy, WellPointed
  <2>2. CASE p[1] \in Object
    <3>1. Guarded(kind, points, p) /\ p[1] \in Kept
      BY <2>1, <2>2, <1>6, Names DEF WellPlaced
    <3>2. ASSUME NEW x \in FixedObjects, NEW l, l \in Blackened(Boot[x]), <<x, l, p[3]>> \in points
          PROVE  p[3] \in Kept
      <4> DEFINE q == <<x, l, p[3]>>
      <4>1. q \in points /\ q[1] = x /\ q[2] = l /\ q[3] = p[3]
        BY <3>2
      <4>2. kind[x] = Boot[x] /\ x \in Object /\ x \in Kept
        BY <1>2, Names DEF Healthy, WellTyped
      <4> HIDE DEF q
      <4> QED
        BY <1>1, <3>2, <4>1, <4>2, FollowedIsKept
    <3>3. p[2] \in Blackened(kind[p[1]]) => p[3] \in Kept
      BY <1>1, <2>2, <3>1, FollowedIsKept
    <3>4. "modules" \in FixedObjects /\ "core" \in FixedObjects
      BY DEF FixedObjects
    <3>5. <<"modules", "entries", p[3]>> \in points => p[3] \in Kept
      BY <3>2, <3>4, Names, Colors
    <3>6. <<"core", "variables", p[3]>> \in points => p[3] \in Kept
      BY <3>2, <3>4, Names, Colors
    <3> QED
      BY <3>1, <3>3, <3>5, <3>6 DEF Guarded
  <2>3. CASE p[1] = "vm"
    <3>1. p[2] \in VmLabels \/ p = <<"vm", "core", "Class">>
      BY <2>1, <2>3, <1>6 DEF WellPlaced
    <3>2. CASE p[2] \in VmLabels
      <4>1. <<p[1], p[2]>> \in Followed(points)
        BY <2>3, <3>2, FollowedOfVm
      <4> QED
        BY <4>1, <1>1, FollowedIsKept
    <3>3. CASE p = <<"vm", "core", "Class">>
      BY <3>3, <1>2 DEF FixedObjects
    <3> QED
      BY <3>1, <3>2, <3>3
  <2>4. CASE p[1] \in Structs \ {"vm"}
    <3>1. PICK m \in a.may : m[1] = p[1] /\ m[2] = p[2] /\ (m[3] = Unknown \/ val[m[3]] = p[3])
      BY <2>4, <1>6, HealthyFits DEF PointsFit, MayFit
    <3>2. CASE <<m[1], m[2]>> \in Followed(a.structs)
      <4>1. a.structs \subseteq points
        BY HealthyFits DEF PointsFit, StructsFit
      <4>2. <<p[1], p[2]>> \in Followed(points)
        BY <3>1, <3>2, <4>1, FollowedGrows
      <4> QED
        BY <4>2, <1>1, FollowedIsKept
    <3>3. CASE m[3] \in Held(a) \ {Unknown}
      <4>1. val[m[3]] = p[3] /\ val[m[3]] \in Kept \cup Structs
        BY <3>1, <3>3, HeldIsKept
      <4> QED
        BY <4>1, <1>6, Names
    <3> QED
      BY <3>1, <3>2, <3>3 DEF SafeToCollect
  <2> QED
    BY <2>1, <2>2, <2>3, <2>4, <1>6 DEF WellPlaced, LiveIn
<1> QED
  BY <1>2, <1>3, <1>4, <1>5, <1>6 DEF Keeps

\* A collection changes nothing of what it keeps.
LEMMA CollectionSweeps ==
  ASSUME NEW a, WellKnown(a), NEW val, Fits(val, a), Healthy, SafeToCollect(a), MSCGCCollect(Kept)
  PROVE  /\ kind' = SweptKinds(Kept, kind) /\ stack' = SweptStacks(Kept, stack) /\ points' = SweptPoints(Kept, points)
         /\ tempRoots' = tempRoots /\ DOMAIN reg' = DOMAIN reg /\ \A x \in DOMAIN a.env : reg'[x] = reg[x]
<1>1. /\ \A o \in Object : o \in Kept => Range(stack[o]) \subseteq Kept
      /\ \A p \in points : p[1] \in Structs \cup Kept /\ p[3] \in Object => p[3] \in Kept
      /\ \A p \in points : p[3] # Garbage
      /\ Range(tempRoots) \subseteq Kept
  BY KnownIsKept DEF Keeps
<1>2. kind' = SweptKinds(Kept, kind)
  BY DEF MSCGCCollect, SweptKinds
<1>3. stack' = SweptStacks(Kept, stack)
  <2>1. ASSUME NEW o \in Object, o \in Kept
        PROVE  [i \in DOMAIN stack[o] |-> IF stack[o][i] \in Object \ Kept THEN Freed ELSE stack[o][i]] = stack[o]
    <3> DEFINE seq == stack[o]
    <3>1. \A i \in DOMAIN seq : seq[i] \in Kept
      BY <1>1, <2>1 DEF Range
    <3>2. seq \in Seq(Object)
      BY DEF Healthy, WellTyped
    <3>3. seq = [i \in DOMAIN seq |-> seq[i]]
      BY <3>2
    <3> HIDE DEF seq
    <3>4. [i \in DOMAIN seq |-> IF seq[i] \in Object \ Kept THEN Freed ELSE seq[i]] = [i \in DOMAIN seq |-> seq[i]]
      BY <3>1
    <3> QED
      BY <3>3, <3>4 DEF seq
  <2> QED
    BY <2>1 DEF MSCGCCollect, SweptStacks
<1>4. points' = SweptPoints(Kept, points)
  <2>1. ASSUME NEW p \in points, p[1] \in Structs \cup Kept
        PROVE  <<p[1], p[2], IF p[3] \in Object \ Kept THEN Freed ELSE p[3]>> = p
    <3>1. p = <<p[1], p[2], p[3]>>
      BY DEF Healthy, WellPointed, WellPlaced
    <3>2. p[3] \notin Object \ Kept
      BY <1>1, <2>1
    <3> QED
      BY <3>1, <3>2
  <2>2. points' = {<<p[1], p[2], IF p[3] \in Object \ Kept THEN Freed ELSE p[3]>> : p \in SweptPoints(Kept, points)}
    BY DEF MSCGCCollect, SweptPoints
  <2>3. \A p \in SweptPoints(Kept, points) : p \in points /\ p[1] \in Structs \cup Kept
    BY DEF SweptPoints
  <2> QED
    BY <2>1, <2>2, <2>3
<1>5. tempRoots' = tempRoots
  <2>1. \A i \in DOMAIN tempRoots : tempRoots[i] \in Kept
    BY <1>1 DEF Range
  <2>2. tempRoots \in Seq(Object)
    BY HealthyFits DEF RootsFit
  <2>3. tempRoots = [i \in DOMAIN tempRoots |-> tempRoots[i]]
    BY <2>2
  <2>4. tempRoots' = [i \in DOMAIN tempRoots |-> IF tempRoots[i] \in Object \ Kept THEN Freed ELSE tempRoots[i]]
    BY DEF MSCGCCollect
  <2> QED
    BY <2>1, <2>3, <2>4
<1>6. reg' = [x \in DOMAIN reg |-> IF reg[x] \in Object \ Kept THEN Freed ELSE reg[x]]
  BY DEF MSCGCCollect
<1>7. ASSUME NEW x \in DOMAIN a.env PROVE reg'[x] = reg[x]
  <2>1. x \in DOMAIN reg /\ reg[x] = val[a.env[x]]
    BY HealthyFits DEF LocalsFit
  <2>2. a.env[x] \in Symbols(a)
    BY DEF WellKnown
  <2>3. val[a.env[x]] \in Kept \cup Structs
    BY <2>2, KnownIsKept DEF Keeps
  <2>4. reg[x] \notin Object \ Kept
    BY <2>1, <2>3, Names
  <2> QED
    BY <2>1, <2>4, <1>6
<1> QED
  BY <1>2, <1>3, <1>4, <1>5, <1>6, <1>7

LEMMA CollectFits ==
  ASSUME NEW a, WellKnown(a), NEW val, Fits(val, a), Healthy, SafeToCollect(a), MSCGCCollect(Kept)
  PROVE  Healthy' /\ Fits(val, a)'
<1>1. /\ ValuesFit(kind, val, a) /\ LocalsFit(reg, val, a) /\ PointsFit(points, val, a) /\ HereFits(points, val, a)
      /\ RootsFit(tempRoots, val, a) /\ StackFits(stack, val, a)
      /\ WellPointed(kind, points) /\ WellTyped(kind, stack)
  BY HealthyFits
<1>2. /\ kind' = SweptKinds(Kept, kind) /\ stack' = SweptStacks(Kept, stack) /\ points' = SweptPoints(Kept, points)
      /\ tempRoots' = tempRoots /\ DOMAIN reg' = DOMAIN reg /\ \A x \in DOMAIN a.env : reg'[x] = reg[x]
  BY CollectionSweeps
<1>3. Keeps(Kept, kind, stack, points, val, a)
  BY KnownIsKept
<1>4. WellTyped(kind', stack')
  BY <1>1, <1>2, <1>3, SweptTypes DEF Keeps
<1>5. WellPointed(kind', points')
  BY <1>1, <1>2, <1>3, SweptPlaces DEF Keeps, WellTyped
<1>6. ValuesFit(kind', val, a) /\ PointsFit(points', val, a) /\ Djurus(points') = Djurus(points) /\ StackFits(stack', val, a)
  BY <1>1, <1>2, <1>3, SweptFits
<1>7. HereFits(points', val, a)
  BY <1>1, <1>6 DEF HereFits
<1>8. LocalsFit(reg', val, a)
  BY <1>1, <1>2 DEF LocalsFit
<1>9. RootsFit(tempRoots', val, a)
  BY <1>1, <1>2
<1>10. Healthy'
  BY <1>4, <1>5 DEF Healthy
<1> QED
  BY <1>6, <1>7, <1>8, <1>9, <1>10 DEF Fits

(****************************************************************************)
(* Between two routines.                                                    *)
(****************************************************************************)
\* The C structs hold nothing, but vm, and no temporary root is left.
Quiet(k, ps, tr) ==
  /\ tr = <<>>
  /\ \A p \in ps : p[1] \notin Structs \ {"vm"} /\ p[3] \notin Structs \cup {Garbage}
  /\ \E d \in LiveIn(k) \ {"modules"} : Djurus(ps) = {d} /\ k[d] = "djuru"

\* A routine that is at rest leaves it so.
LEMMA RestIsQuiet ==
  ASSUME NEW a, WellKnown(a), AtRest(a), NEW val, NEW k, NEW ps, NEW tr,
         ValuesFit(k, val, a), PointsFit(ps, val, a), HereFits(ps, val, a), RootsFit(tr, val, a), WellPointed(k, ps)
  PROVE  Quiet(k, ps, tr)
<1>1. a.temp = <<>> /\ a.structs = {} /\ a.may = {} /\ a.raw = {}
  BY DEF AtRest
<1>2. tr = <<>>
  <2>1. tr \in Seq(Object) /\ Len(tr) = 0
    BY <1>1 DEF RootsFit
  <2> QED
    BY <2>1
<1>3. ASSUME NEW p \in ps PROVE p[1] \notin Structs \ {"vm"} /\ p[3] \notin Structs \cup {Garbage}
  <2>1. p[3] \notin Structs
    BY <1>1 DEF PointsFit, StructsFit
  <2>2. p[3] # Garbage
    BY <1>1 DEF PointsFit, RawFit
  <2>3. p[3] \in Object
    BY <2>1, <2>2 DEF WellPointed, WellPlaced, LiveIn
  <2>4. p[1] \notin Structs \ {"vm"}
    BY <2>3, <1>1 DEF PointsFit, MayFit
  <2> QED
    BY <2>1, <2>2, <2>4
<1>4. val[a.here] \in LiveIn(k) \ {"modules"} /\ Djurus(ps) = {val[a.here]} /\ k[val[a.here]] = "djuru"
  <2>1. a.here \in Symbols(a) /\ a.kind[a.here] = "djuru" /\ a.kind[a.here] # "struct" /\ a.kind[a.here] # "any"
    BY DEF WellKnown
  <2>2. val[a.here] \in LiveIn(k) /\ k[val[a.here]] = "djuru"
    BY <2>1 DEF ValuesFit
  <2>3. val[a.here] # "modules"
    <3>1. TheModules \in DOMAIN Fixed /\ Fixed[TheModules] # "djuru"
      BY FixedSymbols, Names DEF TheModules, FixedObjects
    <3>2. a.here # TheModules
      BY <2>1, <3>1 DEF WellKnown
    <3> QED
      BY <2>1, <3>2 DEF ValuesFit
  <2> QED
    BY <2>2, <2>3 DEF HereFits
<1> QED
  BY <1>2, <1>3, <1>4 DEF Quiet

\* What is known at the start of a routine is true of it.
LEMMA StartFits ==
  ASSUME Healthy, Quiet(kind, points, tempRoots), reg = <<>>, NEW code, Peeks(code) => Len(stack[TheDjuru]) > 1
  PROVE  \E val : Fits(val, Start(code))
<1> DEFINE a == Start(code)
           here == <<Here, 1>>
<1>1. /\ a.env = [x \in {} |-> here] /\ a.kind = [s \in DOMAIN Fixed \cup {here} |-> IF s = here THEN "djuru" ELSE Fixed[s]]
      /\ a.fresh = {} /\ a.apart = {} /\ a.links = {} /\ a.may = {} /\ a.structs = {} /\ a.temp = <<>> /\ a.stk = <<>>
      /\ a.under = (IF Peeks(code) THEN 1 ELSE 0) /\ a.here = here /\ a.raw = {}
  BY DEF Start
<1>2. PICK d \in LiveIn(kind) \ {"modules"} : Djurus(points) = {d} /\ kind[d] = "djuru"
  BY DEF Quiet
<1> DEFINE val == [s \in DOMAIN Fixed \cup {here} |-> IF s = here THEN d ELSE s[1]]
<1>3. here \notin DOMAIN Fixed
  <2>1. here[1] = Here
    OBVIOUS
  <2> QED
    BY <2>1, FixedSymbols, Names
<1>4. DOMAIN val = DOMAIN Fixed \cup {here} /\ val[here] = d /\ \A s \in DOMAIN Fixed : val[s] = s[1]
  BY <1>3
<1>5. Symbols(a) = DOMAIN Fixed \cup {here} /\ a.kind[here] = "djuru" /\ \A s \in DOMAIN Fixed : a.kind[s] = Fixed[s]
  BY <1>1, <1>3 DEF Symbols
<1> HIDE DEF a, val, here
<1>6. ValuesFit(kind, val, a)
  <2>1. ASSUME NEW s \in DOMAIN Fixed, a.kind[s] # "struct"
        PROVE  val[s] \in LiveIn(kind) /\ kind[val[s]] = a.kind[s] /\ (val[s] = "modules" => s = TheModules)
    <3>1. s = <<s[1], 0>> /\ s[1] \in FixedNames /\ val[s] = s[1] /\ a.kind[s] = Fixed[s]
      BY <1>4, <1>5, FixedSymbols
    <3>2. s[1] \in FixedObjects
      BY <2>1, <3>1, FixedSymbols, Names
    <3>3. Fixed[s] = Boot[s[1]] /\ kind[s[1]] = Boot[s[1]]
      BY <3>1, <3>2, FixedSymbols DEF Healthy, WellTyped
    <3>4. s[1] \in Object /\ Boot[s[1]] # "free"
      BY <3>2, Names DEF FixedObjects
    <3> QED
      BY <3>1, <3>3, <3>4 DEF LiveIn, TheModules
  <2>2. val[here] \in LiveIn(kind) /\ kind[val[here]] = a.kind[here] /\ val[here] # "modules"
    BY <1>2, <1>4, <1>5
  <2> QED
    BY <2>1, <2>2, <1>1, <1>4, <1>5 DEF ValuesFit
<1>7. LocalsFit(reg, val, a)
  <2>1. DOMAIN reg = {}
    OBVIOUS
  <2>2. DOMAIN a.env = {}
    BY <1>1
  <2> QED
    BY <2>1, <2>2 DEF LocalsFit
<1>8. PointsFit(points, val, a)
  <2>1. LinksFit(points, val, a) /\ MayFit(points, val, a) /\ StructsFit(points, a) /\ RawFit(points, val, a)
    BY <1>1 DEF LinksFit, MayFit, StructsFit, RawFit, Quiet
  <2> QED
    BY <2>1 DEF PointsFit
<1>9. HereFits(points, val, a)
  BY <1>1, <1>2, <1>4 DEF HereFits
<1>10. RootsFit(tempRoots, val, a)
  BY <1>1 DEF RootsFit, Quiet
<1>11. StackFits(stack, val, a)
  <2>1. TheDjuru = d
    <3>1. Targets("vm", "djuru") = {d}
      BY <1>2 DEF Djurus, Targets
    <3> QED
      BY <3>1 DEF TheDjuru
  <2>2. stack[d] \in Seq(Object)
    BY <1>2 DEF Healthy, WellTyped, LiveIn
  <2>3. Len(stack[d]) \in Nat /\ (Peeks(code) => Len(stack[d]) > 1)
    BY <2>1, <2>2
  <2>4. val[a.here] = d /\ Len(a.stk) = 0
    BY <1>1, <1>4
  <2>5. Len(stack[d]) - Len(a.stk) >= a.under
    BY <2>3, <2>4, <1>1
  <2> QED
    BY <2>4, <2>5 DEF StackFits
<1>12. Fits(val, a)
  BY <1>6, <1>7, <1>8, <1>9, <1>10, <1>11 DEF Fits
<1> QED
  BY <1>12 DEF a

(****************************************************************************)
(* The invariant: the heap is healthy, it is at rest between two routines,  *)
(* and before a step of one it is as RoutinesCheck finds it there.          *)
(****************************************************************************)
AsKnown(name, i) == \E val : Fits(val, KnownOf[name][i])
HeapInv ==
  /\ Healthy /\ running \in DOMAIN Code \cup {"none"} /\ calls \in 0..MaxCalls
  /\ running = "none" => Quiet(kind, points, tempRoots) /\ reg = <<>>
  /\ running # "none" =>
       /\ pc \in 1..Len(Code[running]) + 1
       /\ pc = Len(Code[running]) + 1 => Quiet(kind, points, tempRoots)
       /\ pc # Len(Code[running]) + 1 => AsKnown(running, pc)

\* What the check of a routine says of a step.
LEMMA StepIsVerified ==
  ASSUME NEW name \in DOMAIN Code, NEW i \in 1..Len(Code[name])
  PROVE  LET code == Code[name]  a == KnownOf[name][i]  b == KnownOf[name][i + 1] IN
         /\ WellKnown(a) /\ \A x \in Reads(code[i]) : x = Garbage \/ Sym(a, x) \in Symbols(a)
         /\ Allows(a, i, code[i])
         /\ MayCollect(code[i]) => SafeToCollect(a)
         /\ IsKnowledge(After(a, i, code[i])) /\ b = Settled(code, i + 1, After(a, i, code[i]))
         /\ WellKnown(b) /\ (i = Len(code) => AtRest(b))
<1> DEFINE code == Code[name]
           known == KnownOf[name]
<1>1. RoutineVerified(code, known)
  BY Verified
<1> HIDE DEF code, known
<1>2. Len(code) \in Nat /\ DOMAIN code = 1..Len(code) /\ \A j \in DOMAIN code : StepVerified(code, j, known[j], known[j + 1])
  BY <1>1 DEF RoutineVerified
<1>3. WellKnown(known[Len(code) + 1]) /\ AtRest(known[Len(code) + 1])
  BY <1>1 DEF RoutineVerified
<1>4. i \in 1..Len(code)
  BY DEF code
<1>5. StepVerified(code, i, known[i], known[i + 1])
  BY <1>2, <1>4
<1>6. WellKnown(known[i + 1]) /\ (i = Len(code) => AtRest(known[i + 1]))
  <2>1. CASE i = Len(code)
    BY <2>1, <1>3
  <2>2. CASE i # Len(code)
    <3>1. \A n \in Nat : \A j \in 1..n : j # n => j + 1 \in 1..n
      OBVIOUS
    <3>2. i + 1 \in 1..Len(code)
      BY <2>2, <3>1, <1>2, <1>4
    <3> QED
      <4>1. StepVerified(code, i + 1, known[i + 1], known[(i + 1) + 1])
        BY <3>2, <1>2
      <4> QED
        BY <4>1, <2>2 DEF StepVerified
  <2> QED
    BY <2>1, <2>2
<1> QED
  BY <1>5, <1>6 DEF StepVerified, code, known

LEMMA RoutinesEnd ==
  ASSUME NEW name \in DOMAIN Code
  PROVE  Len(Code[name]) \in Nat /\ name # "none" /\ KnownOf[name][1] = Settled(Code[name], 1, Start(Code[name]))
BY Verified DEF RoutineVerified

\* The step that a routine is at.
LEMMA AtAStep ==
  ASSUME HeapInv, running # "none", pc <= Len(Code[running])
  PROVE  \E name \in DOMAIN Code : \E i \in 1..Len(Code[name]) : \E val :
           running = name /\ pc = i /\ step = Code[name][i] /\ Fits(val, KnownOf[name][i])
<1>1. running \in DOMAIN Code /\ pc \in 1..Len(Code[running]) + 1
  BY DEF HeapInv
<1>2. Len(Code[running]) \in Nat
  BY <1>1, RoutinesEnd
<1>3. pc \in 1..Len(Code[running]) /\ pc # Len(Code[running]) + 1
  BY <1>1, <1>2
<1>4. AsKnown(running, pc)
  BY <1>3 DEF HeapInv
<1> QED
  BY <1>1, <1>3, <1>4 DEF AsKnown, step

\* A routine begins.
LEMMA CallKeepsInv == HeapInv /\ Call => HeapInv'
<1> SUFFICES ASSUME HeapInv, Call PROVE HeapInv'
  OBVIOUS
<1>1. /\ running = "none" /\ calls < MaxCalls /\ calls' = calls + 1 /\ pc' = 1 /\ UNCHANGED <<kind, points, stack, tempRoots, reg>>
      /\ Healthy /\ Quiet(kind, points, tempRoots) /\ reg = <<>> /\ calls \in 0..MaxCalls /\ MaxCalls \in Nat
  BY HeapAssumption DEF Call, HeapInv, heapVars
<1>2. PICK name \in DOMAIN Code : running' = name /\ (Peeks(Code[name]) => Len(stack[TheDjuru]) > 1)
  BY DEF Call
<1>3. Len(Code[name]) \in Nat /\ name # "none" /\ KnownOf[name][1] = Settled(Code[name], 1, Start(Code[name]))
  BY RoutinesEnd
<1>4. PICK val : Fits(val, Start(Code[name]))
  BY <1>1, <1>2, StartFits
<1>5. IsKnowledge(Start(Code[name]))
  BY DEF IsKnowledge, Start
<1>6. Fits(val, KnownOf[name][1])
  <2>1. Fits(val, OnlyHeld(Start(Code[name])))
    BY <1>4, <1>5, OnlyHeldFits DEF Fits
  <2>2. KnownOf[name][1] \in {Start(Code[name]), OnlyHeld(Start(Code[name]))}
    BY <1>3 DEF Settled
  <2> QED
    BY <1>4, <2>1, <2>2
<1>7. Fits(val, KnownOf[name][1])'
  BY <1>1, <1>6 DEF Fits
<1>8. Healthy' /\ Quiet(kind', points', tempRoots') /\ calls' \in 0..MaxCalls
  BY <1>1 DEF Healthy
<1>9. AsKnown(running, pc)'
  BY <1>1, <1>2, <1>7 DEF AsKnown
<1>10. pc' \in 1..Len(Code[running']) + 1
  BY <1>1, <1>2, <1>3
<1> QED
  BY <1>2, <1>3, <1>8, <1>9, <1>10 DEF HeapInv

LEMMA ReturnKeepsInv == HeapInv /\ Return => HeapInv'
<1> SUFFICES ASSUME HeapInv, Return PROVE HeapInv'
  OBVIOUS
<1>1. running \in DOMAIN Code /\ pc \in 1..Len(Code[running]) + 1 /\ pc > Len(Code[running])
  BY DEF HeapInv, Return
<1>2. pc = Len(Code[running]) + 1
  BY <1>1, RoutinesEnd
<1>3. Quiet(kind, points, tempRoots) /\ Healthy /\ calls \in 0..MaxCalls
  BY <1>2 DEF HeapInv, Return
<1>4. running' = "none" /\ reg' = <<>> /\ UNCHANGED <<kind, points, stack, tempRoots, calls>>
  BY DEF Return, heapVars
<1> QED
  BY <1>3, <1>4 DEF HeapInv, Healthy

\* A step finds the heap as the check does.
LEMMA RunStepKeepsInv == HeapInv /\ RunStep => HeapInv'
<1> SUFFICES ASSUME HeapInv, RunStep PROVE HeapInv'
  OBVIOUS
<1>1. running # "none" /\ pc <= Len(Code[running]) /\ UNCHANGED <<running, calls>>
  BY DEF RunStep, DoReallocate, DoNew, DoEnsure, DoPoint, DoLoad, FindsNone, DoRoot, DoUnroot, DoPush, DoDrop, DoSlot,
         DoPeek, Do
<1>2. PICK name \in DOMAIN Code : \E i \in 1..Len(Code[name]) : \E val :
        running = name /\ pc = i /\ step = Code[name][i] /\ Fits(val, KnownOf[name][i])
  BY <1>1, AtAStep
<1>3. PICK i \in 1..Len(Code[name]) : \E val :
        running = name /\ pc = i /\ step = Code[name][i] /\ Fits(val, KnownOf[name][i])
  BY <1>2
<1>4. PICK val : running = name /\ pc = i /\ step = Code[name][i] /\ Fits(val, KnownOf[name][i])
  BY <1>3
<1> DEFINE a == KnownOf[name][i]
           b == KnownOf[name][i + 1]
           act == Code[name][i]
           n == Len(Code[name])
<1>5. /\ WellKnown(a) /\ Allows(a, i, act)
      /\ IsKnowledge(After(a, i, act)) /\ b = Settled(Code[name], i + 1, After(a, i, act))
      /\ WellKnown(b) /\ (i = n => AtRest(b))
  BY StepIsVerified
<1>6. n \in Nat /\ name # "none"
  BY RoutinesEnd
<1>7. Healthy /\ calls \in 0..MaxCalls
  BY DEF HeapInv
<1>8. act = step /\ Fits(val, a)
  BY <1>4
<1> HIDE DEF a, b, act
<1>9. CASE ~FindsNone
  <2>1. Healthy' /\ \E v : Fits(v, After(a, i, act))'
    BY <1>5, <1>7, <1>8, <1>9, RunStepFits
  <2>2. PICK v : Fits(v, After(a, i, act))'
    BY <2>1
  <2>3. Fits(v, b)'
    <3>1. Fits(v, OnlyHeld(After(a, i, act)))'
      BY <2>2, <1>5, OnlyHeldFits DEF Fits
    <3>2. b \in {After(a, i, act), OnlyHeld(After(a, i, act))}
      BY <1>5 DEF Settled
    <3> QED
      BY <2>2, <3>1, <3>2
  <2>4. pc' = i + 1
    BY <1>9, <1>4 DEF RunStep, DoReallocate, DoNew, DoEnsure, DoPoint, DoLoad, DoRoot, DoUnroot, DoPush, DoDrop, DoSlot,
         DoPeek, Do
  <2>5. i = n => Quiet(kind', points', tempRoots')
    <3>1. WellPointed(kind', points')
      BY <2>1 DEF Healthy
    <3> QED
      BY <3>1, <2>3, <1>5, RestIsQuiet DEF Fits
  <2>6. AsKnown(running, pc)'
    BY <2>3, <2>4, <1>1, <1>4 DEF AsKnown, b
  <2>7. running' = name /\ calls' = calls /\ pc' \in 1..n + 1 /\ (pc' = n + 1 => i = n)
    BY <2>4, <1>1, <1>4, <1>6
  <2> QED
    BY <2>1, <2>5, <2>6, <2>7, <1>6, <1>7 DEF HeapInv
<1>10. CASE FindsNone
  <2>1. act.op = "find" /\ pc' = n + 1 /\ UNCHANGED <<kind, points, stack, tempRoots>>
    BY <1>10, <1>4, <1>8 DEF FindsNone, heapVars
  <2>2. AtRest(a)
    BY <2>1, <1>5 DEF Allows, AllowsLoad
  <2>3. Quiet(kind, points, tempRoots)
    BY <2>2, <1>5, <1>7, <1>8, RestIsQuiet DEF Fits, Healthy
  <2>4. Quiet(kind', points', tempRoots') /\ Healthy'
    BY <2>1, <2>3, <1>7 DEF Healthy
  <2>5. running' = name /\ calls' = calls /\ pc' \in 1..n + 1
    BY <2>1, <1>1, <1>4, <1>6
  <2> QED
    BY <2>1, <2>4, <2>5, <1>6, <1>7 DEF HeapInv
<1> QED
  BY <1>9, <1>10

\* A collection frees nothing that is known.
LEMMA CollectKeepsInv == HeapInv /\ Collect /\ ~CollectsFirst => HeapInv'
<1> SUFFICES ASSUME HeapInv, Collect, ~CollectsFirst PROVE HeapInv'
  OBVIOUS
<1>1. /\ running # "none" /\ pc <= Len(Code[running]) /\ step.op \in Allocating /\ ~step.exposed
      /\ MSCGCCollect(Kept) /\ UNCHANGED <<running, pc, calls>>
  BY DEF Collect, CollectsFirst, Allocates, Kept
<1>2. PICK name \in DOMAIN Code : \E i \in 1..Len(Code[name]) : \E val :
        running = name /\ pc = i /\ step = Code[name][i] /\ Fits(val, KnownOf[name][i])
  BY <1>1, AtAStep
<1>3. PICK i \in 1..Len(Code[name]) : \E val :
        running = name /\ pc = i /\ step = Code[name][i] /\ Fits(val, KnownOf[name][i])
  BY <1>2
<1>4. PICK val : running = name /\ pc = i /\ step = Code[name][i] /\ Fits(val, KnownOf[name][i])
  BY <1>3
<1>5. WellKnown(KnownOf[name][i]) /\ SafeToCollect(KnownOf[name][i])
  BY <1>1, <1>4, StepIsVerified DEF MayCollect
<1>6. Healthy /\ calls \in 0..MaxCalls
  BY DEF HeapInv
<1>7. Healthy' /\ Fits(val, KnownOf[name][i])'
  BY <1>1, <1>4, <1>5, <1>6, CollectFits
<1>8. running' = name /\ pc' = i /\ calls' = calls
  BY <1>1, <1>4
<1>9. AsKnown(running, pc)'
  BY <1>7, <1>8 DEF AsKnown
<1>10. name # "none" /\ Len(Code[name]) \in Nat
  BY RoutinesEnd
<1>11. i \in 1..Len(Code[name]) + 1 /\ i # Len(Code[name]) + 1
  BY <1>10
<1> QED
  BY <1>6, <1>7, <1>8, <1>9, <1>10, <1>11 DEF HeapInv

LEMMA BeginsHealthy == Init => HeapInv
<1> SUFFICES ASSUME Init PROVE HeapInv
  OBVIOUS
<1>1. /\ kind = [o \in Object |-> IF o \in Fresh THEN "free" ELSE Boot[o]] /\ points = BootPoints
      /\ stack = [o \in Object |-> IF o = "main" THEN <<"script">> ELSE <<>>] /\ tempRoots = <<>>
      /\ running = "none" /\ reg = <<>> /\ calls = 0
  BY DEF Init
<1>2. DOMAIN Boot \subseteq Object /\ DOMAIN Boot \cap Fresh = {} /\ MaxCalls \in Nat
  BY HeapAssumption DEF Object
<1>3. \A o \in DOMAIN Boot : kind[o] = Boot[o] /\ o \in Object
  BY <1>1, <1>2
<1>4. DOMAIN Boot = {"modules", "core", "Class", "main", "script", "code", "nested_code", "aClass", "aList", "aMap", "aString",
                     "literal_string", "aClosure"}
  BY DEF Boot
<1>5. \A o \in DOMAIN Boot : Boot[o] \in Kinds
  BY DEF Boot, Kinds
<1>6. DOMAIN Boot \subseteq LiveIn(kind)
  BY <1>3, <1>5, Colors DEF LiveIn
<1>7. WellTyped(kind, stack)
  <2>1. kind \in [Object -> Kinds \cup {"free"}]
    BY <1>1, <1>5 DEF Object
  <2>2. stack \in [Object -> Seq(Object)]
    <3>1. <<"script">> \in Seq(Object) /\ <<>> \in Seq(Object)
      BY <1>2, <1>4
    <3> QED
      BY <1>1, <3>1
  <2>3. kind["main"] = "djuru" /\ "script" \in LiveIn(kind) /\ "script" # "modules"
    <3>1. Boot["main"] = "djuru"
      BY DEF Boot
    <3> QED
      BY <3>1, <1>3, <1>4, <1>6
  <2>4. \A o \in Object : stack[o] # <<>> => kind[o] = "djuru"
    BY <1>1, <2>3
  <2>5. ASSUME NEW o \in Object, NEW j \in 1..Len(stack[o]) PROVE stack[o][j] \in LiveIn(kind) \ {"modules"}
    <3>1. CASE o = "main"
      <4>1. stack[o] = <<"script">>
        BY <1>1, <3>1
      <4>2. j = 1
        BY <4>1
      <4> QED
        BY <4>1, <4>2, <2>3
    <3>2. CASE o # "main"
      <4>1. stack[o] = <<>>
        BY <1>1, <3>2
      <4> QED
        BY <4>1
    <3> QED
      BY <3>1, <3>2
  <2>6. \A x \in FixedObjects : kind[x] = Boot[x]
    BY <1>3, <1>4 DEF FixedObjects
  <2> QED
    BY <2>1, <2>2, <2>4, <2>5, <2>6 DEF WellTyped
<1>8. \A p \in points : p = <<p[1], p[2], p[3]>> /\ p[1] \in LiveIn(kind) \cup {"vm"} /\ p[3] \in LiveIn(kind)
  BY <1>1, <1>4, <1>6 DEF BootPoints
<1>9. WellPointed(kind, points)
  <2>1. Permanent \subseteq points
    BY <1>1 DEF Permanent, BootPoints
  <2>2. ASSUME NEW p \in points PROVE WellPlaced(kind, points, p)
    <3>1. p[3] = "modules" => p = <<"vm", "modules", "modules">>
      BY <1>1 DEF BootPoints
    <3>2. ASSUME p[1] \in Object PROVE Guarded(kind, points, p)
      <4>1. p[1] # "vm"
        BY <3>2, Names
      <4>2. p[2] \in Blackened(Boot[p[1]]) \/ (p[2] = "module" /\ p[3] = "core")
        BY <1>1, <4>1 DEF BootPoints, Boot, Blackened
      <4>3. p[1] \in DOMAIN Boot
        BY <1>1, <1>4, <4>1 DEF BootPoints
      <4>4. <<"modules", "entries", "core">> \in points
        BY <1>1 DEF BootPoints
      <4> QED
        BY <4>2, <4>3, <4>4, <1>3 DEF Guarded
    <3>3. p[1] = "vm" => p[2] \in VmLabels \/ p = <<"vm", "core", "Class">>
      BY <1>1 DEF BootPoints, VmLabels
    <3> QED
      BY <1>8, <3>1, <3>2, <3>3, Names DEF WellPlaced
  <2> QED
    BY <2>1, <2>2 DEF WellPointed
<1>10. Quiet(kind, points, tempRoots)
  <2>1. \A p \in points : p[1] \notin Structs \ {"vm"} /\ p[3] \notin Structs \cup {Garbage}
    BY <1>8, Names DEF LiveIn
  <2>2. Djurus(points) = {"main"}
    <3>1. <<"vm", "djuru", "main">> \in points
      BY <1>1 DEF BootPoints
    <3>2. \A p \in points : p[1] = "vm" /\ p[2] = "djuru" => p[3] = "main"
      BY <1>1 DEF BootPoints
    <3> DEFINE p == <<"vm", "djuru", "main">>
    <3>3. p \in points /\ p[1] = "vm" /\ p[2] = "djuru" /\ p[3] = "main"
      BY <3>1
    <3> HIDE DEF p
    <3> QED
      BY <3>2, <3>3 DEF Djurus
  <2>3. "main" \in LiveIn(kind) \ {"modules"} /\ kind["main"] = "djuru"
    <3>1. Boot["main"] = "djuru"
      BY DEF Boot
    <3> QED
      BY <3>1, <1>3, <1>4, <1>6
  <2> QED
    BY <1>1, <2>1, <2>2, <2>3 DEF Quiet
<1> QED
  BY <1>1, <1>2, <1>7, <1>9, <1>10 DEF HeapInv, Healthy

LEMMA HeapCorrect == SafeSpec => []HeapInv
<1>1. HeapInv /\ [SafeNext]_vars => HeapInv'
  <2> SUFFICES ASSUME HeapInv, [SafeNext]_vars PROVE HeapInv'
    OBVIOUS
  <2>1. CASE UNCHANGED vars
    <3>1. UNCHANGED <<kind, points, stack, tempRoots, running, pc, reg, calls>>
      BY <2>1 DEF vars, heapVars, programVars
    <3> QED
      BY <3>1 DEF HeapInv, Healthy, AsKnown, Fits
  <2>2. CASE Call
    BY <2>2, CallKeepsInv
  <2>3. CASE Return
    BY <2>3, ReturnKeepsInv
  <2>4. CASE RunStep
    BY <2>4, RunStepKeepsInv
  <2>5. CASE Collect /\ ~CollectsFirst
    BY <2>5, CollectKeepsInv
  <2> QED
    BY <2>1, <2>2, <2>3, <2>4, <2>5 DEF SafeNext, Finished
<1> QED
  BY <1>1, BeginsHealthy, PTL DEF SafeSpec

\* The temporary roots, between routines and in any routine.
LEMMA TempRootsFit ==
  ASSUME HeapInv
  PROVE  tempRoots \in Seq(Object) /\ Len(tempRoots) <= MSC_MAX_TEMP_ROOTS
<1>1. CASE Quiet(kind, points, tempRoots)
  BY <1>1 DEF Quiet, MSC_MAX_TEMP_ROOTS
<1>2. CASE ~Quiet(kind, points, tempRoots)
  <2>1. running # "none" /\ pc <= Len(Code[running])
    BY <1>2, RoutinesEnd DEF HeapInv
  <2>2. PICK name \in DOMAIN Code : \E i \in 1..Len(Code[name]) : \E val : Fits(val, KnownOf[name][i])
    BY <2>1, AtAStep
  <2>3. PICK i \in 1..Len(Code[name]) : \E val : Fits(val, KnownOf[name][i])
    BY <2>2
  <2>4. WellKnown(KnownOf[name][i])
    BY StepIsVerified
  <2> QED
    BY <2>3, <2>4 DEF Fits, RootsFit, WellKnown
<1> QED
  BY <1>1, <1>2

\* Objects have types, and pointers start at what is allocated: whatever
\* routine runs and whenever the collector does.
THEOREM HeapTypeCorrect == SafeSpec => []TypeOK
<1>1. HeapInv => TypeOK
  <2> SUFFICES ASSUME HeapInv PROVE TypeOK
    OBVIOUS
  <2>1. WellTyped(kind, stack) /\ WellPointed(kind, points)
    BY DEF HeapInv, Healthy
  <2>2. {p[1] : p \in points} \subseteq live \cup Structs
    BY <2>1 DEF WellPointed, WellPlaced, LiveIn, live
  <2>3. tempRoots \in Seq(Object)
    BY TempRootsFit
  <2> QED
    BY <2>1, <2>2, <2>3 DEF TypeOK, WellTyped, HeapInv
<1> QED
  BY <1>1, HeapCorrect, PTL

\* Eight temporary roots are enough for every routine, the compiler's nested
\* functions included, and none is left over from the routines before.
THEOREM RootsAlwaysFit == SafeSpec => []RootsHaveRoom
<1>1. HeapInv => RootsHaveRoom
  BY TempRootsFit DEF RootsHaveRoom
<1> QED
  BY <1>1, HeapCorrect, PTL

\* No pointer to a freed object is left, nor is one used: each allocation of
\* each C function finds what the function still uses within the collector's
\* reach, save at the allocations that Routines names as exposed.
THEOREM NothingEverDangles == SafeSpec => []NothingDangles
<1>1. HeapInv => NothingDangles
  <2> SUFFICES ASSUME HeapInv PROVE NothingDangles
    OBVIOUS
  <2>1. WellTyped(kind, stack) /\ WellPointed(kind, points)
    BY DEF HeapInv, Healthy
  <2>2. \A p \in points : p[3] # Freed
    BY <2>1, Names DEF WellPointed, WellPlaced, LiveIn
  <2>3. \A o \in Object : Freed \notin Range(stack[o])
    <3> SUFFICES ASSUME NEW o \in Object, NEW j \in DOMAIN stack[o] PROVE stack[o][j] # Freed
      BY DEF Range
    <3>1. stack[o] \in Seq(Object)
      BY <2>1 DEF WellTyped
    <3> QED
      BY <3>1, Names
  <2>4. CASE Quiet(kind, points, tempRoots) /\ Read = {}
    <3>1. Range(tempRoots) = {}
      BY <2>4 DEF Quiet, Range
    <3> QED
      BY <2>2, <2>3, <2>4, <3>1 DEF NothingDangles
  <2>5. CASE running # "none" /\ pc <= Len(Code[running])
    <3>1. PICK name \in DOMAIN Code : \E i \in 1..Len(Code[name]) : \E val :
            running = name /\ pc = i /\ step = Code[name][i] /\ Fits(val, KnownOf[name][i])
      BY <2>5, AtAStep
    <3>2. PICK i \in 1..Len(Code[name]) : \E val :
            running = name /\ pc = i /\ step = Code[name][i] /\ Fits(val, KnownOf[name][i])
      BY <3>1
    <3>3. PICK val : step = Code[name][i] /\ Fits(val, KnownOf[name][i])
      BY <3>2
    <3> DEFINE a == KnownOf[name][i]
    <3>4. WellKnown(a) /\ \A x \in Reads(step) : x = Garbage \/ Sym(a, x) \in Symbols(a)
      BY <3>3, StepIsVerified
    <3>5. Read = Reads(step)
      <4>1. Len(Code[running]) \in Nat /\ pc \in Nat
        BY <2>5, RoutinesEnd DEF HeapInv
      <4> QED
        BY <2>5, <4>1 DEF Read
    <3> HIDE DEF a
    <3>6. Fits(val, a)
      BY <3>3 DEF a
    <3>7. Freed \notin Range(tempRoots)
      <4>1. tempRoots \in Seq(Object)
        BY <3>6 DEF Fits, RootsFit
      <4> QED
        BY <4>1, Names DEF Range
    <3>8. ASSUME NEW x \in Read PROVE Node(x) # Freed
      <4>1. CASE x = Garbage
        <5>1. Garbage \notin DOMAIN reg /\ Garbage # Here /\ Garbage # Freed
          BY <3>6, Names DEF Fits, LocalsFit
        <5> QED
          BY <4>1, <5>1 DEF Node
      <4>2. CASE Sym(a, x) \in Symbols(a)
        <5>1. Node(x) = val[Sym(a, x)]
          BY <4>2, <3>4, <3>6, NodeOf
        <5>2. val[Sym(a, x)] \in Structs \cup Object
          BY <4>2, <3>4, <3>6, StructNode DEF Fits
        <5> QED
          BY <5>1, <5>2, Names
      <4> QED
        BY <3>4, <3>5, <4>1, <4>2
    <3> QED
      BY <2>2, <2>3, <3>7, <3>8 DEF NothingDangles
  <2>6. running = "none" \/ pc > Len(Code[running]) => Quiet(kind, points, tempRoots) /\ Read = {}
    <3>1. running # "none" => Len(Code[running]) \in Nat
      BY RoutinesEnd DEF HeapInv
    <3> QED
      BY <3>1 DEF HeapInv, Read
  <2>7. running # "none" => pc <= Len(Code[running]) \/ pc > Len(Code[running])
    BY RoutinesEnd DEF HeapInv
  <2> QED
    BY <2>4, <2>5, <2>6, <2>7
<1> QED
  BY <1>1, HeapCorrect, PTL

\* A C function pops the temporary roots it pushed, on each of its ways out.
THEOREM RootsAlwaysBalanced == SafeSpec => []RootsBalanced
<1>1. HeapInv => RootsBalanced
  BY DEF HeapInv, Quiet, RootsBalanced
<1> QED
  BY <1>1, HeapCorrect, PTL

\* Nor does a collection ever meet memory that is not initialised: the frames
\* of a djuru are garbage only at the one exposed allocation.
THEOREM MarksAlwaysInitialised == SafeSpec => []MarksInitialised
<1>1. HeapInv => MarksInitialised
  <2> SUFFICES ASSUME HeapInv, Allocates, ~step.exposed PROVE \A p \in points : p[3] # Garbage
    BY DEF MarksInitialised
  <2>1. running # "none" /\ pc <= Len(Code[running]) /\ MayCollect(step)
    BY DEF Allocates, MayCollect
  <2>2. PICK name \in DOMAIN Code : \E i \in 1..Len(Code[name]) : \E val :
          step = Code[name][i] /\ Fits(val, KnownOf[name][i])
    BY <2>1, AtAStep
  <2>3. PICK i \in 1..Len(Code[name]) : \E val : step = Code[name][i] /\ Fits(val, KnownOf[name][i])
    BY <2>2
  <2>4. PICK val : step = Code[name][i] /\ Fits(val, KnownOf[name][i])
    BY <2>3
  <2>5. WellKnown(KnownOf[name][i]) /\ SafeToCollect(KnownOf[name][i]) /\ Healthy
    BY <2>1, <2>4, StepIsVerified DEF HeapInv
  <2> QED
    BY <2>4, <2>5, KnownIsKept
<1> QED
  BY <1>1, HeapCorrect, PTL
===============================================================================
