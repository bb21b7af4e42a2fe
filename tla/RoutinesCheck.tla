---------------------------- MODULE RoutinesCheck ----------------------------
(****************************************************************************)
(* A check of the routines that runs none of them. It goes through each     *)
(* routine once, from its first step to its last, and keeps what is known   *)
(* of the heap there: which values the C locals and the stack hold, which   *)
(* pointers there are for certain, which pointers C structs may hold, and   *)
(* what is held as far as the collector can see. A value is a symbol: the   *)
(* step that made it, so that what is known of it holds of any object.      *)
(****************************************************************************)
EXTENDS Routines

\* The nodes that are always there.
FixedNames == Structs \cup {"modules", "core", "aClass", "Class"}

\* A symbol is a name and the step that gave it its value, 0 for what is
\* always there. Each has a kind, "any" if it is not known.
Fixed == [s \in FixedNames \X {0} |-> IF s[1] \in Structs THEN "struct" ELSE Boot[s[1]]]
Unknown    == <<"any", 0>>
TheModules == <<"modules", 0>>
TheCore    == <<"core", 0>>

StructLabels == {"compiler", "parent", "enclosingClass"}      \* of pointers to structs
VmLabels     == {"modules", "djuru", "handles", "methodNames"}

(****************************************************************************)
(* What is known before a step:                                             *)
(*   env, kind     the symbols of the C locals, the kinds of the symbols    *)
(*   fresh, apart  symbols of new objects, and of others than vm->djuru     *)
(*   links         pointers there are, from and to symbols                  *)
(*   may           all pointers from structs but vm to objects              *)
(*   structs       the pointers to structs                                  *)
(*   temp, stk     gc->tempRoots, the top of the stack of vm->djuru         *)
(*   under         how many values there are at least below stk             *)
(*   here, raw     vm->djuru, djurus with frames that are not initialised   *)
(****************************************************************************)
Start(code) ==
  LET here == <<Here, 1>> IN
  [env |-> [x \in {} |-> here], kind |-> [s \in DOMAIN Fixed \cup {here} |-> IF s = here THEN "djuru" ELSE Fixed[s]],
   fresh |-> {}, apart |-> {}, links |-> {}, may |-> {}, structs |-> {}, temp |-> <<>>, stk |-> <<>>,
   under |-> IF Peeks(code) THEN 1 ELSE 0, here |-> here, raw |-> {}]

Sym(a, x)      == IF x = Here THEN a.here ELSE IF x \in DOMAIN a.env THEN a.env[x] ELSE <<x, 0>>
Symbols(a)     == DOMAIN a.kind
IsObject(a, s) == s \in Symbols(a) /\ a.kind[s] # "struct" /\ s # TheModules
Differ(s, t)   == s # t /\ (s = TheModules \/ t = TheModules \/ {s, t} \subseteq DOMAIN Fixed)
Put(f, x, v)   == [y \in DOMAIN f \cup {x} |-> IF y = x THEN v ELSE f[y]]
Assigned(a, x, s, k) == [a EXCEPT !.env = Put(@, x, s), !.kind = Put(@, s, k)]
CanAssign(a, x, s)   == x \notin FixedNames \cup {Here, Garbage} /\ s \notin Symbols(a)

\* The pointers of one label and one source, taken out.
Cut(links, s, l)    == {k \in links : k[2] # l \/ Differ(k[1], s)}
CutOf(pointers, x, l) == {p \in pointers : ~(p[1] = x /\ p[2] = l)}

\* What a collection keeps: from the roots, a few pointers deep.
Outward(a, held) == held \cup {k[3] : k \in {k \in a.links : k[1] \in held /\ k[2] \in Blackened(a.kind[k[1]])}}
Held(a) ==
  LET first == DOMAIN Fixed \cup Range(a.temp) \cup Range(a.stk) \cup {a.here}
                 \cup {k[3] : k \in {k \in a.links : k[1] \in DOMAIN Fixed /\ <<k[1][1], k[2]>> \in Followed(a.structs)}}
  IN Outward(a, Outward(a, Outward(a, Outward(a, first))))

\* The end of a routine leaves nothing in a struct, and no temporary root.
AtRest(a) == a.temp = <<>> /\ a.structs = {} /\ a.may = {} /\ a.raw = {}

(****************************************************************************)
(* What must be known before a step.                                        *)
(****************************************************************************)
\* An object of kind k may be given a pointer to t.
MayHold(a, k, l, t) ==
  /\ IsObject(a, t)
  /\ \/ l \in Blackened(k)
     \/ /\ l = "module" /\ <<TheModules, "entries", t>> \in a.links
     \/ /\ k = "extern" /\ l = "classObj" /\ a.kind[t] = "class"
        /\ <<TheCore, "variables", t>> \in a.links
AllowsNew(a, i, st) ==
  /\ st.label \in Kinds /\ CanAssign(a, st.x, <<st.x, i>>)
  /\ \A h \in st.holds : (h = <<"frames", Garbage>> /\ st.label = "djuru") \/ MayHold(a, st.label, h[1], Sym(a, h[2]))
AllowsEnsure(a, st) == st.x \in Structs \ {"vm"} /\ st.label \notin StructLabels /\ st.y \in Kinds

\* A pointer from x to y is added.
AllowsPointer(a, x, l, y) ==
  LET s == Sym(a, x)  t == Sym(a, y) IN
  /\ s \in Symbols(a) /\ t \in Symbols(a)
  /\ IF l \in StructLabels THEN {x, y} \subseteq Structs
     ELSE /\ IsObject(a, t)
          /\ x = "vm" => l \in VmLabels
          /\ x \in Structs \/ l \in Blackened(a.kind[s])
AllowsLink(a, st) == \A h \in st.holds : AllowsPointer(a, st.x, h[1], h[2]) /\ h[1] # "djuru"
AllowsSet(a, st) ==
  LET s == Sym(a, st.x)  t == Sym(a, st.y) IN
  /\ AllowsPointer(a, st.x, st.label, st.y)
  /\ st.x = "vm" => st.label = "compiler" \/ (st.label = "djuru" /\ a.kind[t] = "djuru")
  /\ st.x \notin Structs => s \in a.fresh
AllowsUnlink(a, st) ==
  LET s == Sym(a, st.x)  t == Sym(a, st.y) IN
  /\ s \in Symbols(a) /\ IsObject(a, t)
  /\ \/ st.label \in {"elements", "openUpvalues", "handles"}
     \/ /\ st.label = "entries" /\ s # TheModules
     \/ /\ st.label = "variables" /\ a.kind[t] \in Kinds \ {"class"}
AllowsCopy(a, st) ==
  LET s == Sym(a, st.x)  t == Sym(a, st.y) IN
  /\ IsObject(a, s) /\ IsObject(a, t) /\ st.label # "frames"
  /\ st.label \in Blackened(a.kind[s]) \/ (a.kind[t] = "class" /\ st.label = "fields")
AllowsClear(a, st) ==
  LET s == Sym(a, st.x) IN
  /\ s \in Symbols(a)
  /\ IF st.x \in Structs THEN st.x = "vm" => st.label = "compiler"
     ELSE st.label \in {"frames", "caller", "error"} \/ (st.label = "entries" /\ s # TheModules)
AllowsLoad(a, i, st) ==
  /\ CanAssign(a, st.y, <<st.y, i>>) /\ Sym(a, st.x) \in Symbols(a)
  /\ a.raw = {} /\ st.label \notin StructLabels \cup {"modules"}
  /\ \A k \in st.holds : st.holds = {k}
  /\ st.op = "find" => AtRest(a)
AllowsPeek(a, i, st) ==
  IF a.stk # <<>> THEN st.x \notin FixedNames \cup {Here, Garbage}
  ELSE a.under > 0 /\ CanAssign(a, st.x, <<st.x, i>>)
AllowsSlot(a, st) ==
  LET s == Sym(a, st.x) IN s \in a.apart /\ a.kind[s] = "djuru" /\ IsObject(a, Sym(a, st.y))

Allows(a, i, st) ==
  CASE st.op = "reallocate" -> TRUE
    [] st.op = "new"    -> AllowsNew(a, i, st)
    [] st.op = "ensure" -> AllowsEnsure(a, st)
    [] st.op = "link"   -> AllowsLink(a, st)
    [] st.op = "set"    -> AllowsSet(a, st)
    [] st.op = "unlink" -> AllowsUnlink(a, st)
    [] st.op = "copy"   -> AllowsCopy(a, st)
    [] st.op = "clear"  -> AllowsClear(a, st)
    [] st.op = "forget" -> st.x \in Structs \ {"vm"}
    [] st.op = "shift"  -> \A p \in a.structs : p[1] # "parser"
    [] st.op \in {"load", "find"} -> AllowsLoad(a, i, st)
    [] st.op \in {"root", "push"} -> IsObject(a, Sym(a, st.x))
    [] st.op = "unroot" -> a.temp # <<>>
    [] st.op = "drop"   -> a.stk # <<>>
    [] st.op = "slot"   -> AllowsSlot(a, st)
    [] st.op = "peek"   -> AllowsPeek(a, i, st)
    [] OTHER -> FALSE

(****************************************************************************)
(* What is known after it.                                                  *)
(****************************************************************************)
AfterNew(a, i, st) ==
  LET n == <<st.x, i>> IN
  [Assigned(a, st.x, n, st.label) EXCEPT
     !.fresh = @ \cup {n}, !.apart = @ \cup {n},
     !.links = @ \cup {<<n, h[1], Sym(a, h[2])>> : h \in {h \in st.holds : h[2] # Garbage}},
     !.raw   = IF <<"frames", Garbage>> \in st.holds THEN @ \cup {n} ELSE @]

\* Pointers from x are added to what `a` knows.
Added(a, x, holds) ==
  LET s == Sym(a, x)
      others == {h \in holds : h[1] \notin StructLabels} IN
  [a EXCEPT
     !.links   = @ \cup {<<s, h[1], Sym(a, h[2])>> : h \in others},
     !.may     = @ \cup (IF x \in Structs \ {"vm"} THEN {<<x, h[1], Sym(a, h[2])>> : h \in others} ELSE {}),
     !.structs = @ \cup {<<x, h[1], h[2]>> : h \in {h \in holds : h[1] \in StructLabels}}]
\* The pointers from x with label l are taken from it.
Removed(a, x, l) ==
  [a EXCEPT !.links = Cut(@, Sym(a, x), l), !.may = CutOf(@, x, l), !.structs = CutOf(@, x, l),
            !.raw = IF l = "frames" THEN @ \ {Sym(a, x)} ELSE @]
AfterSet(a, st) ==
  LET b == Added(Removed(a, st.x, st.label), st.x, {<<st.label, st.y>>})
  IN IF st.x = "vm" /\ st.label = "djuru"
     THEN [b EXCEPT !.here = Sym(a, st.y), !.stk = <<>>, !.under = 0, !.apart = {}] ELSE b

\* The pointers from a struct are gone.
Forgotten(a, x) ==
  [a EXCEPT !.links = {k \in @ : k[1] # <<x, 0>>}, !.may = {p \in @ : p[1] # x}, !.structs = {p \in @ : p[1] # x}]

\* The parser's tokens move: previous takes what current held.
Moved(pointers, parser) ==
  {p \in pointers : p[1] # parser \/ p[2] = "next"}
    \cup {<<parser, "previous", p[3]>> : p \in {p \in pointers : p[1] = parser /\ p[2] = "current"}}
    \cup {<<parser, "current", p[3]>> : p \in {p \in pointers : p[1] = parser /\ p[2] = "next"}}

Shifted(a) == [a EXCEPT !.links = Moved(@, <<"parser", 0>>), !.may = Moved(@, "parser")]

AfterLoad(a, i, st) ==
  LET n == <<st.y, i>>
      k == IF "any" \in st.holds THEN "any" ELSE CHOOSE k \in st.holds : TRUE
  IN [Assigned(a, st.y, n, k) EXCEPT !.links = @ \cup {<<Sym(a, st.x), st.label, n>>}]
AfterPeek(a, i, st) ==
  IF a.stk # <<>> THEN [a EXCEPT !.env = Put(@, st.x, Last(a.stk))]
  ELSE [Assigned(a, st.x, <<st.x, i>>, "any") EXCEPT !.stk = <<<<st.x, i>>>>, !.under = @ - 1]

After(a, i, st) ==
  CASE st.op = "new"    -> AfterNew(a, i, st)
    [] st.op = "ensure" -> [a EXCEPT !.may = @ \cup {<<st.x, st.label, Unknown>>}]
    [] st.op = "link"   -> Added(a, st.x, st.holds)
    [] st.op = "set"    -> AfterSet(a, st)
    [] st.op = "unlink" -> [a EXCEPT !.links = Cut(@, Sym(a, st.x), st.label)]
    [] st.op = "clear"  -> Removed(a, st.x, st.label)
    [] st.op = "forget" -> Forgotten(a, st.x)
    [] st.op = "shift"  -> Shifted(a)
    [] st.op \in {"load", "find"} -> AfterLoad(a, i, st)
    [] st.op = "root"   -> [a EXCEPT !.temp = Append(@, Sym(a, st.x))]
    [] st.op = "unroot" -> [a EXCEPT !.temp = Front(@)]
    [] st.op = "push"   -> [a EXCEPT !.stk = Append(@, Sym(a, st.x))]
    [] st.op = "drop"   -> [a EXCEPT !.stk = Front(@)]
    [] st.op = "peek"   -> AfterPeek(a, i, st)
    [] OTHER -> a

\* A step that may collect frees what is not held.
MayCollect(st) == st.op \in Allocating /\ ~st.exposed
OnlyHeld(a) ==
  LET held == Held(a) IN
  [a EXCEPT !.env = Restrict(@, {x \in DOMAIN @ : @[x] \in held}), !.kind = Restrict(@, DOMAIN @ \cap held),
            !.fresh = @ \cap held, !.apart = @ \cap held, !.links = {k \in @ : {k[1], k[3]} \subseteq held},
            !.may = {<<p[1], p[2], IF p[3] \in held THEN p[3] ELSE Unknown>> : p \in @}]
Settled(code, i, a) == IF i <= Len(code) /\ MayCollect(code[i]) THEN OnlyHeld(a) ELSE a

Known(code) ==
  FoldLeft(LAMBDA known, i : Append(known, Settled(code, i + 1, After(Last(known), i, code[i]))),
           <<Settled(code, 1, Start(code))>>, [i \in DOMAIN code |-> i])
KnownOf == [name \in DOMAIN Code |-> Known(Code[name])]

(****************************************************************************)
(* The check.                                                               *)
(****************************************************************************)
IsKnowledge(a) ==
  DOMAIN a = {"env", "kind", "fresh", "apart", "links", "may", "structs", "temp", "stk", "under", "here", "raw"}
WellKnown(a) ==
  /\ IsKnowledge(a)
  /\ \A s \in DOMAIN Fixed : s \in Symbols(a) /\ a.kind[s] = Fixed[s]
  /\ \A s \in Symbols(a) \ DOMAIN Fixed : s[2] # 0 /\ a.kind[s] \in Kinds \cup {"any"}
  /\ DOMAIN a.env \cap (FixedNames \cup {Here, Garbage}) = {}
  /\ \A x \in DOMAIN a.env : a.env[x] \in Symbols(a) /\ a.kind[a.env[x]] # "struct"
  /\ a.fresh \cup a.apart \cup a.raw \subseteq Symbols(a)
  /\ \A k \in a.links : {k[1], k[3]} \subseteq Symbols(a)
  /\ \A p \in a.may : p[1] \in Structs \ {"vm"} /\ p[3] \in Symbols(a) \cup {Unknown}
  /\ \A p \in a.structs : p[1] \in Structs /\ p[2] \in StructLabels /\ p[3] \in Structs
  /\ a.temp \in Seq(Symbols(a)) /\ Len(a.temp) <= MSC_MAX_TEMP_ROOTS
  /\ a.stk \in Seq(Symbols(a)) /\ a.under \in Nat
  /\ a.here \in Symbols(a) /\ a.kind[a.here] = "djuru"

\* What a collection keeps is all that is known, and what structs may hold.
SafeToCollect(a) ==
  /\ Symbols(a) \subseteq Held(a) /\ a.raw = {}
  /\ \A p \in a.may : <<p[1], p[2]>> \in Followed(a.structs) \/ p[3] \in Held(a) \ {Unknown}

StepVerified(code, i, a, b) ==
  /\ WellKnown(a)
  /\ \A x \in Reads(code[i]) : x = Garbage \/ Sym(a, x) \in Symbols(a)
  /\ Allows(a, i, code[i])
  /\ MayCollect(code[i]) => SafeToCollect(a)
  /\ IsKnowledge(After(a, i, code[i])) /\ b = Settled(code, i + 1, After(a, i, code[i]))
RoutineVerified(code, known) ==
  /\ Len(code) \in Nat /\ DOMAIN code = 1..Len(code)
  /\ known[1] = Settled(code, 1, Start(code))
  /\ \A i \in DOMAIN code : StepVerified(code, i, known[i], known[i + 1])
  /\ WellKnown(known[Len(code) + 1]) /\ AtRest(known[Len(code) + 1])

\* A field's default is a number, a boolean or null: another would not pass.
ASSUME DefaultsAreNoObjects == ~DefaultsAreObjects

\* The routines pass. Neither the objects there are nor how often they are
\* run plays a part.
ASSUME Verified == "none" \notin DOMAIN Code /\ \A name \in DOMAIN Code : RoutineVerified(Code[name], KnownOf[name])
===============================================================================
