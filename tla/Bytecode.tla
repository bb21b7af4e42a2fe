------------------------------- MODULE Bytecode -------------------------------
(****************************************************************************)
(* The instructions of the Mosc virtual machine: how many bytes of          *)
(* arguments each has, what the compiler believes it does to the height of  *)
(* the stack (codes.h), and what runInterpreter does to it.                 *)
(*                                                                          *)
(* Code is a sequence of cells, one for each byte. A cell is                *)
(*   b   the opcode, or "arg" for a byte of an argument                     *)
(*   n   the number in the opcode's name (CALL_2), or the argument's value; *)
(*       the first byte of a 16-bit argument has the value, the second 0    *)
(*   id  a history variable: the variable of the script that the            *)
(*       instruction reads or writes, 0 when it is about none               *)
(* Walk follows the instructions of a finished function the way the         *)
(* interpreter does, along every path, with a stack that says for each slot *)
(* which variable it holds.                                                 *)
(****************************************************************************)
EXTENDS Integers, Sequences, FiniteSets

\* What a slot holds besides a variable, whose number is positive.
Temporary == 0
Free      == -1   \* an argument, or a null, that a pattern's variable will take
This      == -2   \* a temporary loaded from `ale`
Global    == -3   \* not in a slot: a variable of the module

\* Variables called `ale` are numbered below this.
FirstThis == -10
IsThis(id) == id <= FirstThis

Cell(b, n, id) == [b |-> b, n |-> n, id |-> id]

ByteArgument == {"LOAD_LOCAL", "STORE_LOCAL", "LOAD_UPVALUE", "STORE_UPVALUE", "LOAD_FIELD_THIS",
                 "STORE_FIELD_THIS", "LOAD_FIELD", "STORE_FIELD", "FIELD", "CLASS"}
ShortArgument == {"CONSTANT", "LOAD_MODULE_VAR", "STORE_MODULE_VAR", "CALL", "CALL_", "JUMP", "LOOP",
                  "JUMP_IF", "AND", "OR", "METHOD_INSTANCE", "METHOD_STATIC", "IMPORT_MODULE",
                  "IMPORT_VARIABLE"}

\* The bytes of arguments of the instruction at code[p]. The constant of a
\* CLOSURE stands for a function; its cell has the number of its upvalues.
getByteCountForArguments(code, p) ==
  CASE code[p].b \in ByteArgument -> 1
    [] code[p].b \in ShortArgument -> 2
    [] code[p].b = "SUPER_" -> 4
    [] code[p].b = "CLOSURE" -> 2 + 2 * code[p + 1].n
    [] OTHER -> 0

\* Fault: a null is not counted.
stackEffects_null(b, n) ==
  CASE b \in {"STORE_FIELD", "POP", "JUMP_IF", "AND", "OR", "CLOSE_UPVALUE", "CLASS", "EXTERN_CLASS"} -> -1
    [] b \in {"METHOD_INSTANCE", "METHOD_STATIC", "END_CLASS"} -> -2
    [] b \in {"CALL_", "SUPER_"} -> -n
    [] b \in {"STORE_LOCAL", "STORE_UPVALUE", "STORE_MODULE_VAR", "STORE_FIELD_THIS", "JUMP", "LOOP", "NULL",
              "RETURN", "CONSTRUCT", "EXTERN_CONSTRUCT", "CALL", "FIELD", "END"} -> 0
    [] OTHER -> 1

\* stackEffects: what emitOp adds to the number of slots in use.
stackEffects(b, n) ==
  CASE b \in {"STORE_FIELD", "POP", "JUMP_IF", "AND", "OR", "CLOSE_UPVALUE", "CLASS", "EXTERN_CLASS"} -> -1
    [] b \in {"METHOD_INSTANCE", "METHOD_STATIC", "END_CLASS"} -> -2
    [] b \in {"CALL_", "SUPER_"} -> -n
    [] b \in {"STORE_LOCAL", "STORE_UPVALUE", "STORE_MODULE_VAR", "STORE_FIELD_THIS", "JUMP", "LOOP",
              "RETURN", "CONSTRUCT", "EXTERN_CONSTRUCT", "CALL", "FIELD", "END"} -> 0
    [] OTHER -> 1

\* What the interpreter takes from the stack, and whether it pushes a result.
Pops(code, p) ==
  CASE code[p].b \in {"POP", "CLOSE_UPVALUE", "JUMP_IF", "RETURN", "LOAD_FIELD"} -> 1
    [] code[p].b \in {"STORE_FIELD", "FIELD", "CLASS", "EXTERN_CLASS", "END_CLASS", "METHOD_INSTANCE",
                      "METHOD_STATIC"} -> 2
    [] code[p].b \in {"CALL_", "SUPER_"} -> code[p].n + 1
    [] code[p].b = "CALL" -> code[p + 1].n + 1
    [] OTHER -> 0
Pushes(code, p) ==
  code[p].b \notin {"STORE_LOCAL", "STORE_UPVALUE", "STORE_MODULE_VAR", "STORE_FIELD_THIS", "POP", "JUMP",
                    "LOOP", "JUMP_IF", "CLOSE_UPVALUE", "RETURN", "CONSTRUCT", "EXTERN_CONSTRUCT",
                    "END_CLASS", "METHOD_INSTANCE", "METHOD_STATIC", "FIELD", "END"}

\* The slot an instruction names, counted from 0 as in the bytecode.
SlotOf(code, p) == IF code[p].b = "LOAD_LOCAL_" THEN code[p].n ELSE code[p + 1].n
IsLoad(b)  == b \in {"LOAD_LOCAL_", "LOAD_LOCAL"}

\* The stack after the instruction at p; the temporary it pushes is This when
\* it was loaded from `ale`.
After(code, p, stack) ==
  LET kept == SubSeq(stack, 1, Len(stack) - Pops(code, p))
      slot == SlotOf(code, p) + 1
      id   == code[p].id
  IN CASE code[p].b = "STORE_LOCAL" -> [stack EXCEPT ![slot] = id]
       [] code[p].b = "LOAD_ON" -> Append(stack, stack[Len(stack)])
       [] OTHER -> IF Pushes(code, p)
                   THEN Append(kept, IF (IsLoad(code[p].b) \/ code[p].b = "LOAD_UPVALUE") /\ IsThis(id)
                                     THEN This ELSE Temporary)
                   ELSE kept

(****************************************************************************)
(* What can be wrong with an instruction, given the stack it finds.         *)
(****************************************************************************)
\* A store that gives a pattern's variable its value may take a Free slot
\* (its opcode's n is 1); any other access must find the variable.
HoldsWhatIsMeant(code, p, stack) ==
  LET slot == SlotOf(code, p) + 1
  IN /\ slot \in DOMAIN stack
     /\ \/ stack[slot] = code[p].id
        \/ code[p].b = "STORE_LOCAL" /\ code[p].n = 1 /\ stack[slot] = Free

\* The i-th capture of the CLOSURE at p, with the stack after its push.
CaptureHolds(f, p, i, stack) ==
  LET isLocal == f.code[p + 1 + 2 * i]
      index   == f.code[p + 2 + 2 * i].n + 1
  IN IF isLocal.n = 1 THEN index \in DOMAIN stack /\ stack[index] = isLocal.id
     ELSE index \in DOMAIN f.upvalues /\ f.upvalues[index].id = isLocal.id

SlotFlaw(f, p, stack) ==
  \/ Len(stack) < Pops(f.code, p)
  \/ (IsLoad(f.code[p].b) \/ f.code[p].b = "STORE_LOCAL") /\ ~HoldsWhatIsMeant(f.code, p, stack)
\* A variable of an enclosing function is missed: another is reached, or a
\* variable of the module.
UpvalueFlaw(f, p, after) ==
  \/ /\ f.code[p].b \in {"LOAD_UPVALUE", "STORE_UPVALUE"}
     /\ \/ f.code[p + 1].n + 1 \notin DOMAIN f.upvalues
        \/ f.upvalues[f.code[p + 1].n + 1].id # f.code[p].id
  \/ /\ f.code[p].b = "CLOSURE"
     /\ \E i \in 1 .. f.code[p + 1].n : ~CaptureHolds(f, p, i, after)
  \/ f.code[p].b \in {"LOAD_MODULE_VAR", "STORE_MODULE_VAR"} /\ f.code[p].id # Global
FieldFlaw(f, p, stack) ==
  \/ f.code[p].b = "LOAD_FIELD"  /\ stack[Len(stack)] # This
  \/ f.code[p].b = "STORE_FIELD" /\ stack[Len(stack) - 1] # This
\* A captured variable is popped, or its slot (the last one after p) is given
\* to another.
CloseFlaw(f, p, stack, after, bound, captured) ==
  \/ f.code[p].b = "POP" /\ stack[Len(stack)] \in captured
  \/ after # bound /\ after[Len(after)] \in captured

\* The variables captured by the CLOSURE at p.
Captured(code, p) == {code[p + 1 + 2 * i].id : i \in {j \in 1 .. code[p + 1].n : code[p + 1 + 2 * j].n = 1}}

\* The stack when the variables of f.marks that begin at p have their slots.
RECURSIVE Bind(_, _, _)
Bind(marks, p, stack) ==
  IF marks = <<>> THEN stack
  ELSE Bind(Tail(marks), p, IF Head(marks)[1] = p /\ stack # <<>>
                            THEN [stack EXCEPT ![Len(stack)] = Head(marks)[2]] ELSE stack)

\* Where paths meet a temporary is nobody's.
Plain(stack) == [i \in DOMAIN stack |-> IF stack[i] = This THEN Temporary ELSE stack[i]]

(****************************************************************************)
(* Walk goes through the code from the first instruction to the last.       *)
(*   stack, live  the stack before the instruction, if the one before it    *)
(*                goes on to it                                             *)
(*   joins        <<place, stack>> for each jump forward to a place         *)
(*   seen         <<place, stack>> for each instruction reached             *)
(*   captured     the variables closed over so far                          *)
(*   flaws, high  what is wrong, and the greatest height of the stack       *)
(****************************************************************************)
RECURSIVE Walk(_, _, _)
Walk(f, p, a) ==
  LET code     == f.code
      incoming == {j[2] : j \in {j \in a.joins : j[1] = p}} \cup (IF a.live THEN {a.stack} ELSE {})
      joined   == \E j \in a.joins : j[1] = p
      here     == {Bind(f.marks, p, IF joined THEN Plain(s) ELSE s) : s \in incoming}
      next     == p + 1 + getByteCountForArguments(code, p)
  IN IF p > Len(code)
     THEN [a EXCEPT !.flaws = @ \cup (IF \E j \in a.joins : j[1] \notin {s[1] : s \in a.seen}
                                      THEN {"jump"} ELSE {})]
     ELSE IF here = {} THEN Walk(f, next, a)
     ELSE LET stack  == CHOOSE s \in here : TRUE
              slot   == SlotFlaw(f, p, stack)
              after  == IF slot THEN stack ELSE After(code, p, stack)
              bound  == Bind(f.marks, next, after)
              target == next + (IF code[p].b = "LOOP" THEN -code[p + 1].n ELSE code[p + 1].n)
              jumps  == CASE code[p].b \in {"JUMP", "AND", "OR"} -> {<<target, stack>>}
                          [] code[p].b = "JUMP_IF" -> {<<target, after>>}
                          [] OTHER -> {}
              popped == IF code[p].b \in {"AND", "OR"} THEN SubSeq(stack, 1, Len(stack) - 1) ELSE after
              flaws  == (IF Cardinality(here) > 1 THEN {"join"} ELSE {})
                        \cup (IF slot THEN {"slot"} ELSE {})
                        \cup (IF UpvalueFlaw(f, p, bound) THEN {"upvalue"} ELSE {})
                        \cup (IF ~slot /\ FieldFlaw(f, p, stack) THEN {"field"} ELSE {})
                        \cup (IF ~slot /\ CloseFlaw(f, p, stack, after, bound, a.captured) THEN {"close"} ELSE {})
                        \cup (IF code[p].b = "LOOP" /\ <<target, stack>> \notin a.seen
                              THEN {IF \E s \in a.seen : s[1] = target THEN "join" ELSE "jump"} ELSE {})
                        \cup (IF code[p].b = "END" THEN {"jump"} ELSE {})
          IN Walk(f, next,
                  [stack    |-> popped,
                   live     |-> code[p].b \notin {"JUMP", "LOOP", "RETURN", "END"},
                   joins    |-> a.joins \cup jumps,
                   seen     |-> a.seen \cup {<<p, stack>>},
                   captured |-> a.captured \cup (IF code[p].b = "CLOSURE" THEN Captured(code, p) ELSE {}),
                   flaws    |-> a.flaws \cup flaws,
                   high     |-> IF Len(after) > a.high THEN Len(after) ELSE a.high])

\* The walk of a function, called with its receiver and its arguments.
WalkOf(f) ==
  LET entry == <<f.receiver>> \o f.params
  IN Walk(f, 1, [stack |-> entry, live |-> TRUE, joins |-> {}, seen |-> {}, captured |-> {}, flaws |-> {},
                 high |-> Len(entry)])
===============================================================================
