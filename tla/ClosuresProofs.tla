---------------------------- MODULE ClosuresProofs ----------------------------
(****************************************************************************)
(* That closures see their variables: the inductive invariant ClosureInv    *)
(* of SafeSpec, for any djurus, values and bounds. The list of open         *)
(* upvalues is walked by closeUpvalues and captureUpvalue; the first lemmas *)
(* are about where these walks stop.                                        *)
(****************************************************************************)
EXTENDS Closures, Induction, SequenceTheorems

\* A walk stops before the first upvalue that is not to be passed.
LEMMA WalkStops ==
  ASSUME NEW d \in Djuru, NEW n \in Nat, Len(open[d]) = n, NEW passed
  PROVE  /\ Walk(d, passed) \in 0 .. n
         /\ \A i \in 1 .. Walk(d, passed) : open[d][i] \in passed
         /\ Walk(d, passed) < n => open[d][Walk(d, passed) + 1] \notin passed
<1> DEFINE Ends == {m \in 0 .. n : m < n => open[d][m + 1] \notin passed}
           IsEnd(m) == /\ \A i \in 1 .. m : open[d][i] \in passed
                       /\ m < n => open[d][m + 1] \notin passed
<1>1. n \in Ends /\ Ends \in SUBSET Nat
  OBVIOUS
<1>2. PICK m \in Ends : \A k \in Ends : m <= k
  BY <1>1, LeastMember
<1>3. ASSUME NEW i \in 1 .. m PROVE open[d][i] \in passed
  <2>1. i - 1 \in 0 .. n /\ i - 1 < n /\ ~(m <= i - 1) /\ (i - 1) + 1 = i
    OBVIOUS
  <2>2. i - 1 \notin Ends
    BY <1>2, <2>1
  <2> QED
    BY <2>1, <2>2
<1>4. \E k \in 0 .. n : IsEnd(k)
  BY <1>3
<1>5. Walk(d, passed) = CHOOSE k \in 0 .. n : IsEnd(k)
  BY DEF Walk
<1> HIDE DEF IsEnd
<1>6. Walk(d, passed) \in 0 .. n /\ IsEnd(Walk(d, passed))
  BY <1>4, <1>5
<1> QED
  BY <1>6 DEF IsEnd

\* The list of open upvalues of d goes down the stack.
Descending(d) ==
  /\ \A i \in DOMAIN open[d] : upvalue[open[d][i]].slot \in Nat
  /\ \A i, j \in DOMAIN open[d] :
       i < j => upvalue[open[d][j]].slot < upvalue[open[d][i]].slot

\* On a list that goes down the stack, the walk of closeUpvalues passes exactly
\* the upvalues of `last` and of the slots above it.
LEMMA ClosingAll ==
  ASSUME NEW d \in Djuru, NEW n \in Nat, Len(open[d]) = n, DOMAIN open[d] = 1 .. n,
         Descending(d), NEW last \in Nat
  PROVE  /\ Closing(d, last) \in 0 .. n
         /\ \A i \in 1 .. n : i <= Closing(d, last) <=> upvalue[open[d][i]].slot >= last
<1> DEFINE passed == {u \in OpenOf(d) : upvalue[u].slot >= last}
           m == Walk(d, passed)
<1>1. /\ m \in 0 .. n
      /\ \A i \in 1 .. m : open[d][i] \in passed
      /\ m < n => open[d][m + 1] \notin passed
  BY WalkStops
<1>2. \A i \in 1 .. n : open[d][i] \in passed <=> upvalue[open[d][i]].slot >= last
  BY DEF OpenOf
<1>3. Closing(d, last) = m
  BY DEF Closing
<1> HIDE DEF passed, m
<1>4. ASSUME NEW i \in 1 .. n, m < i PROVE ~(upvalue[open[d][i]].slot >= last)
  <2>1. m + 1 \in 1 .. n /\ ~(upvalue[open[d][m + 1]].slot >= last)
    BY <1>1, <1>2, <1>4
  <2>2. upvalue[open[d][i]].slot <= upvalue[open[d][m + 1]].slot
    BY <1>1, <1>4, <2>1 DEF Descending
  <2> QED
    BY <2>1, <2>2 DEF Descending
<1> QED
  BY <1>1, <1>2, <1>3, <1>4

\* On such a list captureUpvalue stops behind the upvalues of higher slots, and
\* finds the one of the slot if the list has one.
LEMMA CaptureFinds ==
  ASSUME NEW d \in Djuru, NEW n \in Nat, Len(open[d]) = n, DOMAIN open[d] = 1 .. n,
         \A i \in 1 .. n : open[d][i] \in DOMAIN upvalue,
         Descending(d), NEW slot \in Nat
  PROVE  /\ InsertAt(d, slot) \in 0 .. n
         /\ \A i \in 1 .. n : i <= InsertAt(d, slot) <=> upvalue[open[d][i]].slot > slot
         /\ \A i \in 1 .. n : upvalue[open[d][i]].slot = slot => open[d][i] \in Existing(d, slot)
         /\ \A u \in Existing(d, slot) :
              u \in DOMAIN upvalue /\ upvalue[u].slot = slot /\ \E i \in 1 .. n : open[d][i] = u
<1> DEFINE passed == {u \in OpenOf(d) : upvalue[u].slot > slot}
           m == Walk(d, passed)
<1>1. /\ m \in 0 .. n
      /\ \A i \in 1 .. m : open[d][i] \in passed
      /\ m < n => open[d][m + 1] \notin passed
  BY WalkStops
<1>2. \A i \in 1 .. n : open[d][i] \in passed <=> upvalue[open[d][i]].slot > slot
  BY DEF OpenOf
<1>3. InsertAt(d, slot) = m
  BY DEF InsertAt
<1> HIDE DEF passed, m
<1>4. ASSUME NEW i \in 1 .. n, m < i PROVE ~(upvalue[open[d][i]].slot > slot)
  <2>1. m + 1 \in 1 .. n /\ ~(upvalue[open[d][m + 1]].slot > slot)
    BY <1>1, <1>2, <1>4
  <2>2. upvalue[open[d][i]].slot <= upvalue[open[d][m + 1]].slot
    BY <1>1, <1>4, <2>1 DEF Descending
  <2> QED
    BY <2>1, <2>2 DEF Descending
<1>5. \A i \in 1 .. n : i <= m <=> upvalue[open[d][i]].slot > slot
  BY <1>1, <1>2, <1>4
<1>6. ASSUME NEW i \in 1 .. n, upvalue[open[d][i]].slot = slot
      PROVE  open[d][i] \in Existing(d, slot)
  <2>1. m < i /\ m + 1 \in 1 .. n
    BY <1>1, <1>5, <1>6
  <2>2. ~(upvalue[open[d][m + 1]].slot > slot)
    BY <1>1, <1>5, <2>1
  <2>3. m + 1 = i
    BY <1>1, <1>6, <2>1, <2>2 DEF Descending
  <2> QED
    BY <1>1, <1>3, <1>6, <2>1, <2>3 DEF Existing
<1>7. ASSUME NEW u \in Existing(d, slot)
      PROVE  u \in DOMAIN upvalue /\ upvalue[u].slot = slot /\ \E i \in 1 .. n : open[d][i] = u
  BY <1>1, <1>3 DEF Existing
<1> QED
  BY <1>1, <1>3, <1>5, <1>6, <1>7

------------------------------------------------------------------------------
(* Types.                                                                   *)

Upvalue == [djuru : Djuru, slot : Pointer, closed : Value]
CallFrame == [start : Nat \ {0}, fn : Functions]
Closure == [upvalues : Seq(DOMAIN upvalue), bound : Seq(DOMAIN content)]

LEMMA SeqShape ==
  ASSUME NEW S, NEW s \in Seq(S)
  PROVE  /\ Len(s) \in Nat /\ DOMAIN s = 1 .. Len(s)
         /\ \A i \in 1 .. Len(s) : s[i] \in S
         /\ s # <<>> <=> Len(s) > 0
<1>1. Len(s) \in Nat /\ DOMAIN s = 1 .. Len(s) /\ \A i \in 1 .. Len(s) : s[i] \in S
  OBVIOUS
<1>2. s # <<>> => Len(s) > 0
  BY EmptySeq
<1>3. Len(s) > 0 => s # <<>>
  OBVIOUS
<1> QED
  BY <1>1, <1>2, <1>3

\* What TypeOK says of the sequences, index by index.
LEMMA Shapes ==
  ASSUME TypeOK
  PROVE  /\ \A d \in Djuru :
              /\ stack[d] \in Seq(Value) /\ Len(stack[d]) \in Nat
              /\ DOMAIN stack[d] = 1 .. Len(stack[d])
              /\ \A i \in 1 .. Len(stack[d]) : stack[d][i] \in Value
              /\ name[d] \in Seq(Nat) /\ Len(name[d]) = Len(stack[d])
              /\ DOMAIN name[d] = 1 .. Len(stack[d])
              /\ \A i \in 1 .. Len(stack[d]) : name[d][i] \in Nat
              /\ frames[d] \in Seq(CallFrame)
              /\ Len(frames[d]) \in Nat /\ DOMAIN frames[d] = 1 .. Len(frames[d])
              /\ \A i \in 1 .. Len(frames[d]) :
                   frames[d][i].start \in Nat \ {0} /\ frames[d][i].fn \in Functions
              /\ frames[d] # <<>> <=> Len(frames[d]) > 0
              /\ stack[d] # <<>> <=> Len(stack[d]) > 0
              /\ open[d] \in Seq(DOMAIN upvalue) /\ Len(open[d]) \in Nat
              /\ DOMAIN open[d] = 1 .. Len(open[d])
              /\ \A i \in 1 .. Len(open[d]) : open[d][i] \in DOMAIN upvalue
         /\ Len(upvalue) \in Nat /\ DOMAIN upvalue = 1 .. Len(upvalue)
         /\ \A u \in DOMAIN upvalue : upvalue[u] \in Upvalue
         /\ Len(closure) \in Nat /\ DOMAIN closure = 1 .. Len(closure)
         /\ \A c \in DOMAIN closure : closure[c] \in Closure
         /\ Len(content) \in Nat /\ DOMAIN content = 1 .. Len(content)
         /\ \A x \in DOMAIN content : content[x] \in Value
<1> USE DEF TypeOK
<1>1. ASSUME NEW d \in Djuru
      PROVE  /\ stack[d] \in Seq(Value) /\ name[d] \in Seq(Nat)
             /\ frames[d] \in Seq(CallFrame)
             /\ open[d] \in Seq(DOMAIN upvalue) /\ Len(name[d]) = Len(stack[d])
  BY DEF CallFrame
<1>2. upvalue \in Seq(Upvalue) /\ closure \in Seq(Closure) /\ content \in Seq(Value)
  BY DEF Upvalue, Closure
<1> HIDE DEF TypeOK
<1>3. ASSUME NEW d \in Djuru
      PROVE  /\ Len(frames[d]) \in Nat /\ DOMAIN frames[d] = 1 .. Len(frames[d])
             /\ \A i \in 1 .. Len(frames[d]) :
                  frames[d][i].start \in Nat \ {0} /\ frames[d][i].fn \in Functions
             /\ frames[d] # <<>> <=> Len(frames[d]) > 0
  <2>1. /\ Len(frames[d]) \in Nat /\ DOMAIN frames[d] = 1 .. Len(frames[d])
        /\ \A i \in 1 .. Len(frames[d]) : frames[d][i] \in CallFrame
        /\ frames[d] # <<>> <=> Len(frames[d]) > 0
    BY <1>1, SeqShape, Zenon
  <2> QED
    BY <2>1 DEF CallFrame
<1>4. ASSUME NEW d \in Djuru
      PROVE  /\ Len(open[d]) \in Nat /\ DOMAIN open[d] = 1 .. Len(open[d])
             /\ \A i \in 1 .. Len(open[d]) : open[d][i] \in DOMAIN upvalue
  BY <1>1, SeqShape, Zenon
<1>5. ASSUME NEW d \in Djuru
      PROVE  /\ Len(stack[d]) \in Nat /\ DOMAIN stack[d] = 1 .. Len(stack[d])
             /\ \A i \in 1 .. Len(stack[d]) : stack[d][i] \in Value
             /\ DOMAIN name[d] = 1 .. Len(stack[d])
             /\ \A i \in 1 .. Len(stack[d]) : name[d][i] \in Nat
             /\ stack[d] # <<>> <=> Len(stack[d]) > 0
  <2>1. /\ Len(stack[d]) \in Nat /\ DOMAIN stack[d] = 1 .. Len(stack[d])
        /\ \A i \in 1 .. Len(stack[d]) : stack[d][i] \in Value
        /\ stack[d] # <<>> <=> Len(stack[d]) > 0
    BY <1>1, SeqShape, Zenon
  <2>2. DOMAIN name[d] = 1 .. Len(name[d]) /\ \A i \in 1 .. Len(name[d]) : name[d][i] \in Nat
    BY <1>1, SeqShape, Zenon
  <2> QED
    BY <1>1, <2>1, <2>2, Zenon
<1>6. /\ Len(upvalue) \in Nat /\ DOMAIN upvalue = 1 .. Len(upvalue)
      /\ \A u \in DOMAIN upvalue : upvalue[u] \in Upvalue
  BY <1>2, SeqShape
<1>7. /\ Len(closure) \in Nat /\ DOMAIN closure = 1 .. Len(closure)
      /\ \A c \in DOMAIN closure : closure[c] \in Closure
  BY <1>2, SeqShape
<1>8. /\ Len(content) \in Nat /\ DOMAIN content = 1 .. Len(content)
      /\ \A x \in DOMAIN content : content[x] \in Value
  BY <1>2, SeqShape
<1> QED
  BY <1>1, <1>3, <1>4, <1>5, <1>6, <1>7, <1>8, Zenon
------------------------------------------------------------------------------
(* What the kinds of steps do to variables: the part of ClosureInv that     *)
(* says which slot and which upvalue belong to which variable.              *)

VariablesInv ==
  NameInv /\ OpenInv /\ BindInv /\ LocalsKept /\ TemporariesNull /\ OneUpvaluePerVariable

\* A step that leaves slots and upvalues alone.
LEMMA NoVariableTouched ==
  ASSUME ClosureInv, UNCHANGED <<stack, name, open, upvalue, closure, content>>
  PROVE  VariablesInv'
BY DEF VariablesInv, ClosureInv, NameInv, OpenInv, BindInv, Serves, LocalsKept, TemporariesNull, OneUpvaluePerVariable

EmptyClosure == [upvalues |-> <<>>, bound |-> <<>>]

\* Some closure has u for the variable x it captured.
Binds(u, x) ==
  \E c \in DOMAIN closure : \E j \in DOMAIN closure[c].upvalues :
    closure[c].upvalues[j] = u /\ closure[c].bound[j] = x

\* Closures stay bound when no upvalue stops to serve its variable.
LEMMA BindKept ==
  ASSUME TypeOK, BindInv,
         closure' = closure \/ closure' = Append(closure, EmptyClosure),
         \A u \in DOMAIN upvalue, x \in DOMAIN content :
           Binds(u, x) /\ Serves(u, x) => Serves(u, x)'
  PROVE  BindInv'
<1> SUFFICES ASSUME NEW c \in DOMAIN closure'
             PROVE  /\ DOMAIN closure'[c].bound = DOMAIN closure'[c].upvalues
                    /\ \A j \in DOMAIN closure'[c].upvalues :
                         Serves(closure[c].upvalues[j], closure[c].bound[j])'
  BY DEF BindInv
<1>1. CASE c \in DOMAIN closure /\ closure'[c] = closure[c]
  <2>1. /\ DOMAIN closure[c].bound = DOMAIN closure[c].upvalues
        /\ \A j \in DOMAIN closure[c].upvalues : Serves(closure[c].upvalues[j], closure[c].bound[j])
    BY <1>1 DEF BindInv
  <2>2. closure[c].upvalues \in Seq(DOMAIN upvalue) /\ closure[c].bound \in Seq(DOMAIN content)
    BY <1>1, Shapes DEF Closure
  <2>3. ASSUME NEW j \in DOMAIN closure[c].upvalues
        PROVE  closure[c].upvalues[j] \in DOMAIN upvalue /\ closure[c].bound[j] \in DOMAIN content
    BY <2>1, <2>2
  <2>4. ASSUME NEW j \in DOMAIN closure'[c].upvalues
        PROVE  Serves(closure[c].upvalues[j], closure[c].bound[j])'
    <3> DEFINE u == closure[c].upvalues[j]
               x == closure[c].bound[j]
    <3>1. Serves(u, x) /\ u \in DOMAIN upvalue /\ x \in DOMAIN content /\ Binds(u, x)
      BY <1>1, <2>1, <2>3, <2>4 DEF Binds
    <3>2. closure'[c].upvalues[j] = u /\ closure'[c].bound[j] = x
      BY <1>1
    <3> QED
      BY <3>1, <3>2 DEF Serves
  <2> QED
    BY <1>1, <2>1, <2>4
<1>2. CASE DOMAIN closure'[c].upvalues = {} /\ DOMAIN closure'[c].bound = {}
  BY <1>2, Zenon
<1>3. (c \in DOMAIN closure /\ closure'[c] = closure[c])
      \/ (DOMAIN closure'[c].upvalues = {} /\ DOMAIN closure'[c].bound = {})
  BY Shapes DEF EmptyClosure
<1> QED
  BY <1>1, <1>2, <1>3

\* A value is pushed, as a temporary or as a new variable.
LEMMA PushKeepsVariables ==
  ASSUME ClosureInv, NEW d \in Djuru, NEW v \in Value, NEW x \in Nat,
         stack' = [stack EXCEPT ![d] = Append(@, v)],
         name' = [name EXCEPT ![d] = Append(@, x)],
         \/ x = 0 /\ v = NULL_VAL /\ content' = content
         \/ x = NewVariable /\ content' = Append(content, v),
         UNCHANGED <<open, upvalue>>,
         closure' = closure \/ closure' = Append(closure, EmptyClosure)
  PROVE  VariablesInv'
<1> DEFINE top == Len(stack[d]) + 1
<1>0. TypeOK
  BY DEF ClosureInv
<1>1. /\ DOMAIN stack'[d] = 1 .. top /\ DOMAIN name'[d] = 1 .. top
      /\ stack'[d][top] = v /\ name'[d][top] = x
      /\ \A i \in 1 .. Len(stack[d]) : stack'[d][i] = stack[d][i] /\ name'[d][i] = name[d][i]
      /\ \A e \in Djuru : e # d => stack'[e] = stack[e] /\ name'[e] = name[e]
  <2>1. stack[d] \in Seq(Value) /\ name[d] \in Seq(Nat) /\ Len(name[d]) = Len(stack[d])
    BY <1>0, Shapes
  <2>2. stack \in [Djuru -> Seq(Value)] /\ name \in [Djuru -> Seq(Nat)]
    BY <1>0 DEF TypeOK
  <2> QED
    BY <2>1, <2>2
<1>2. ASSUME NEW e \in Djuru
      PROVE  /\ DOMAIN name[e] = DOMAIN stack[e] /\ DOMAIN name'[e] = DOMAIN stack'[e]
             /\ \A i \in DOMAIN stack[e] :
                  /\ i \in DOMAIN stack'[e]
                  /\ stack'[e][i] = stack[e][i] /\ name'[e][i] = name[e][i]
             /\ \A i \in DOMAIN stack'[e] :
                  \/ i \in DOMAIN stack[e]
                  \/ e = d /\ i = top /\ stack'[e][i] = v /\ name'[e][i] = x
  <2>1. DOMAIN stack[e] = 1 .. Len(stack[e]) /\ DOMAIN name[e] = 1 .. Len(stack[e]) /\ Len(stack[e]) \in Nat
    BY <1>0, Shapes
  <2>2. CASE e = d
    BY <1>1, <2>1, <2>2
  <2>3. CASE e # d
    BY <1>1, <2>1, <2>3
  <2> QED
    BY <2>2, <2>3
<1> HIDE DEF top
<1>3. /\ Len(content') \in Nat /\ Len(content) <= Len(content') /\ x <= Len(content')
      /\ \A y \in DOMAIN content : y \in DOMAIN content' /\ content'[y] = content[y] /\ y # x
      /\ x # 0 => content'[x] = v /\ x > Len(content)
      /\ x = 0 => v = NULL_VAL
      /\ DOMAIN content = 1 .. Len(content)
  BY <1>0, Shapes DEF NewVariable
<1>4. /\ \A c \in DOMAIN closure' :
           \/ c \in DOMAIN closure /\ closure'[c] = closure[c]
           \/ DOMAIN closure'[c].upvalues = {} /\ DOMAIN closure'[c].bound = {}
  BY <1>0, Shapes DEF EmptyClosure
<1>5. NameInv'
  <2>0. ASSUME NEW e \in Djuru, NEW i \in DOMAIN name[e]
        PROVE  name'[e][i] = name[e][i] /\ name[e][i] <= Len(content) /\ name[e][i] \in Nat
    <3>1. i \in DOMAIN stack[e]
      BY <1>2
    <3>2. name'[e][i] = name[e][i]
      BY <1>2, <3>1
    <3>3. name[e][i] <= Len(content)
      BY DEF ClosureInv, NameInv
    <3>4. name[e] \in Seq(Nat)
      BY <1>0, Shapes
    <3> QED
      BY <3>2, <3>3, <3>4
  <2>1. ASSUME NEW e \in Djuru, NEW i \in DOMAIN name'[e] PROVE name'[e][i] <= Len(content')
    <3>1. i \in DOMAIN name[e] => name'[e][i] = name[e][i] /\ name[e][i] <= Len(content) /\ name[e][i] \in Nat
      BY <2>0
    <3>2. Len(content) \in Nat
      BY <1>0, Shapes
    <3> QED
      BY <1>2, <1>3, <3>1, <3>2
  <2>2. ASSUME NEW e \in Djuru, NEW f \in Djuru, NEW i \in DOMAIN name'[e], NEW j \in DOMAIN name'[f],
               name'[e][i] # 0, name'[e][i] = name'[f][j]
        PROVE  e = f /\ i = j
    <3>1. /\ i \in DOMAIN name[e] \/ (e = d /\ i = top /\ name'[e][i] = x)
          /\ j \in DOMAIN name[f] \/ (f = d /\ j = top /\ name'[f][j] = x)
      BY <1>2
    <3>2. /\ i \in DOMAIN name[e] => name'[e][i] = name[e][i] /\ name[e][i] <= Len(content) /\ name[e][i] \in Nat
          /\ j \in DOMAIN name[f] => name'[f][j] = name[f][j] /\ name[f][j] <= Len(content) /\ name[f][j] \in Nat
      BY <2>0
    <3>3. Len(content) \in Nat
      BY <1>0, Shapes
    <3>4. CASE i \in DOMAIN name[e] /\ j \in DOMAIN name[f]
      BY <2>2, <3>2, <3>4 DEF ClosureInv, NameInv
    <3>5. CASE (e = d /\ i = top /\ name'[e][i] = x) /\ (f = d /\ j = top)
      BY <3>5
    <3>6. x # 0 => x > Len(content)
      BY <1>3
    <3> QED
      BY <2>2, <3>1, <3>2, <3>3, <3>4, <3>5, <3>6
  <2> QED
    BY <2>1, <2>2 DEF NameInv
<1>6. OpenInv'
  BY <1>2 DEF ClosureInv, OpenInv
<1>7. LocalsKept' /\ TemporariesNull'
  <2>1. ASSUME NEW e \in Djuru, NEW i \in DOMAIN stack'[e]
        PROVE  /\ name'[e][i] # 0 => stack'[e][i] = content'[name'[e][i]]
               /\ name'[e][i] = 0 => stack'[e][i] = NULL_VAL
    <3>1. CASE i \in DOMAIN stack[e]
      <4>1. name'[e][i] = name[e][i] /\ stack'[e][i] = stack[e][i] /\ i \in DOMAIN name[e]
        BY <1>2, <3>1
      <4>2. name[e][i] \in Nat /\ name[e][i] <= Len(content) /\ Len(content) \in Nat
        BY <1>0, <4>1, Shapes DEF ClosureInv, NameInv
      <4>3. name[e][i] # 0 => content'[name[e][i]] = content[name[e][i]]
        BY <1>3, <4>2
      <4> QED
        BY <3>1, <4>1, <4>3 DEF ClosureInv, LocalsKept, TemporariesNull
    <3>2. CASE i \notin DOMAIN stack[e]
      BY <1>2, <1>3, <3>2
    <3> QED
      BY <3>1, <3>2
  <2> QED
    BY <1>2, <2>1 DEF LocalsKept, TemporariesNull
<1>8. OneUpvaluePerVariable'
  BY <1>4 DEF ClosureInv, OneUpvaluePerVariable
<1>9. BindInv'
  <2>1. ASSUME NEW u \in DOMAIN upvalue, NEW y \in DOMAIN content, Serves(u, y) PROVE Serves(u, y)'
    <3>1. upvalue[u].djuru \in Djuru
      BY <1>0, Shapes DEF Upvalue
    <3>2. upvalue[u].slot # Closed => upvalue[u].slot \in DOMAIN stack[upvalue[u].djuru]
      BY <3>1 DEF ClosureInv, OpenInv
    <3>3. content'[y] = content[y] /\ y # x
      BY <1>3
    <3>4. upvalue[u].slot # Closed => name'[upvalue[u].djuru][upvalue[u].slot] = y
      BY <1>2, <2>1, <3>1, <3>2 DEF Serves
    <3>5. upvalue[u].slot = Closed => \A e \in Djuru : \A i \in DOMAIN name'[e] : name'[e][i] # y
      BY <1>2, <2>1, <3>3 DEF Serves
    <3>6. upvalue[u].slot = Closed => upvalue[u].closed = content'[y]
      BY <2>1, <3>3 DEF Serves
    <3> QED
      BY <3>4, <3>5, <3>6 DEF Serves
  <2> QED
    BY <1>0, <2>1, BindKept DEF ClosureInv
<1> QED
  BY <1>5, <1>6, <1>7, <1>8, <1>9 DEF VariablesInv

\* What is left of a sequence when its first n members are taken off.
LEMMA TailShape ==
  ASSUME NEW S, NEW s \in Seq(S), NEW n \in 0 .. Len(s), NEW t, t = SubSeq(s, n + 1, Len(s))
  PROVE  /\ t \in Seq(S) /\ Len(t) = Len(s) - n /\ DOMAIN t = 1 .. Len(s) - n
         /\ \A i \in 1 .. Len(s) - n : t[i] = s[n + i]
<1>1. n + 1 \in 1 .. Len(s) + 1 /\ Len(s) \in (n + 1) - 1 .. Len(s) /\ Len(s) \in Nat
  OBVIOUS
<1>2. /\ t \in Seq(S) /\ Len(t) = Len(s) - (n + 1) + 1
      /\ \A i \in 1 .. Len(s) - (n + 1) + 1 : t[i] = s[(n + 1) + i - 1]
  BY <1>1, SubSeqProperties
<1>3. /\ Len(t) = Len(s) - n
      /\ \A i \in 1 .. Len(s) - n : t[i] = s[(n + 1) + i - 1] /\ (n + 1) + i - 1 = n + i
  BY <1>1, <1>2
<1>4. DOMAIN t = 1 .. Len(t)
  BY <1>2
<1> QED
  BY <1>2, <1>3, <1>4

\* An open upvalue is in the list of its djuru and points into its stack.
LEMMA OpenUpvalue ==
  ASSUME ClosureInv, NEW u \in DOMAIN upvalue
  PROVE  /\ upvalue[u].djuru \in Djuru
         /\ upvalue[u].slot # Closed =>
              /\ upvalue[u].slot \in 1 .. Len(stack[upvalue[u].djuru])
              /\ \E i \in 1 .. Len(open[upvalue[u].djuru]) : open[upvalue[u].djuru][i] = u
<1>1. upvalue[u].djuru \in Djuru /\ TypeOK
  BY Shapes DEF ClosureInv, Upvalue
<1> QED
  BY <1>1, Shapes DEF ClosureInv, OpenInv

\* The list of d, as ClosingAll and CaptureFinds want it.
LEMMA ListShape ==
  ASSUME ClosureInv, NEW d \in Djuru
  PROVE  /\ Descending(d) /\ Len(open[d]) \in Nat /\ DOMAIN open[d] = 1 .. Len(open[d])
         /\ \A i \in 1 .. Len(open[d]) :
              /\ open[d][i] \in DOMAIN upvalue
              /\ upvalue[open[d][i]].djuru = d
              /\ upvalue[open[d][i]].slot \in 1 .. Len(stack[d])
              /\ upvalue[open[d][i]].slot # Closed
         /\ Closed \notin Nat /\ DOMAIN stack[d] = 1 .. Len(stack[d]) /\ Len(stack[d]) \in Nat
<1>1. TypeOK
  BY DEF ClosureInv
<1>2. /\ Len(open[d]) \in Nat /\ DOMAIN open[d] = 1 .. Len(open[d])
      /\ DOMAIN stack[d] = 1 .. Len(stack[d]) /\ Len(stack[d]) \in Nat
      /\ \A i \in 1 .. Len(open[d]) : open[d][i] \in DOMAIN upvalue
  BY <1>1, Shapes
<1>3. Closed \notin Nat
  BY ClosuresAssumption
<1>4. ASSUME NEW i \in 1 .. Len(open[d])
      PROVE  upvalue[open[d][i]].djuru = d /\ upvalue[open[d][i]].slot \in 1 .. Len(stack[d])
  BY <1>2 DEF ClosureInv, OpenInv
<1>5. Descending(d)
  BY <1>2, <1>4 DEF Descending, ClosureInv, OpenInv
<1> QED
  BY <1>2, <1>3, <1>4, <1>5

\* closeUpvalues closes the upvalues of the slots from `last` on and no other.
LEMMA ClosesFromLast ==
  ASSUME ClosureInv, NEW d \in Djuru, NEW last \in Nat, closeUpvalues(d, last)
  PROVE  /\ DOMAIN upvalue' = DOMAIN upvalue
         /\ \A u \in DOMAIN upvalue :
              IF upvalue[u].slot # Closed /\ upvalue[u].djuru = d /\ upvalue[u].slot >= last
              THEN upvalue'[u] = [upvalue[u] EXCEPT !.slot = Closed,
                                                    !.closed = stack[d][upvalue[u].slot]]
              ELSE upvalue'[u] = upvalue[u]
         /\ Closing(d, last) \in 0 .. Len(open[d])
         /\ open' = [open EXCEPT ![d] = SubSeq(@, Closing(d, last) + 1, Len(@))]
         /\ \A i \in 1 .. Len(open[d]) : i <= Closing(d, last) <=> upvalue[open[d][i]].slot >= last
<1> DEFINE n == Closing(d, last)
<1>1. /\ n \in 0 .. Len(open[d])
      /\ \A i \in 1 .. Len(open[d]) : i <= n <=> upvalue[open[d][i]].slot >= last
  BY ListShape, ClosingAll
<1>2. /\ open' = [open EXCEPT ![d] = SubSeq(@, n + 1, Len(@))]
      /\ upvalue' = [u \in DOMAIN upvalue |->
                       IF \E i \in 1 .. n : open[d][i] = u
                       THEN [upvalue[u] EXCEPT !.slot = Closed,
                                               !.closed = stack[d][upvalue[u].slot]]
                       ELSE upvalue[u]]
  BY DEF closeUpvalues
<1> HIDE DEF n
<1>3. ASSUME NEW u \in DOMAIN upvalue
      PROVE  (\E i \in 1 .. n : open[d][i] = u) <=>
               upvalue[u].slot # Closed /\ upvalue[u].djuru = d /\ upvalue[u].slot >= last
  <2>1. ASSUME NEW i \in 1 .. n, open[d][i] = u
        PROVE  upvalue[u].slot # Closed /\ upvalue[u].djuru = d /\ upvalue[u].slot >= last
    BY <1>1, <2>1, ListShape
  <2>2. ASSUME upvalue[u].slot # Closed, upvalue[u].djuru = d, upvalue[u].slot >= last
        PROVE  \E i \in 1 .. n : open[d][i] = u
    <3>1. PICK i \in 1 .. Len(open[d]) : open[d][i] = u
      BY <2>2, OpenUpvalue
    <3>2. i <= n
      BY <1>1, <2>2, <3>1
    <3> QED
      BY <1>1, <3>1, <3>2, ListShape
  <2> QED
    BY <2>1, <2>2
<1>4. DOMAIN upvalue' = DOMAIN upvalue
  BY <1>2
<1>5. ASSUME NEW u \in DOMAIN upvalue
      PROVE  IF upvalue[u].slot # Closed /\ upvalue[u].djuru = d /\ upvalue[u].slot >= last
             THEN upvalue'[u] = [upvalue[u] EXCEPT !.slot = Closed,
                                                   !.closed = stack[d][upvalue[u].slot]]
             ELSE upvalue'[u] = upvalue[u]
  <2>1. upvalue'[u] = IF \E i \in 1 .. n : open[d][i] = u
                      THEN [upvalue[u] EXCEPT !.slot = Closed,
                                              !.closed = stack[d][upvalue[u].slot]]
                      ELSE upvalue[u]
    BY <1>2
  <2>2. CASE \E i \in 1 .. n : open[d][i] = u
    BY <1>3, <2>1, <2>2, Zenon
  <2>3. CASE ~(\E i \in 1 .. n : open[d][i] = u)
    BY <1>3, <2>1, <2>3, Zenon
  <2> QED
    BY <2>2, <2>3
<1> QED
  BY <1>1, <1>2, <1>4, <1>5 DEF n

\* A stack is cut off at `last`, whose slot may stay as that of a result, and the
\* upvalues from there on are closed.
LEMMA CutKeepsVariables ==
  ASSUME ClosureInv, NEW d \in Djuru, NEW last \in Nat \ {0}, NEW m \in Nat,
         m = last - 1 \/ m = last, m <= Len(stack[d]),
         closeUpvalues(d, last),
         DOMAIN stack'[d] = 1 .. m, DOMAIN name'[d] = 1 .. m,
         \A i \in 1 .. m :
           IF i < last THEN stack'[d][i] = stack[d][i] /\ name'[d][i] = name[d][i]
           ELSE stack'[d][i] = NULL_VAL /\ name'[d][i] = 0,
         \A e \in Djuru \ {d} : stack'[e] = stack[e] /\ name'[e] = name[e],
         UNCHANGED <<closure, content>>
  PROVE  VariablesInv'
<1> DEFINE n == Closing(d, last)
<1>0. TypeOK /\ last # 0 /\ DOMAIN stack[d] = 1 .. Len(stack[d]) /\ Len(stack[d]) \in Nat
  BY Shapes DEF ClosureInv
<1>1. ASSUME NEW e \in Djuru
      PROVE  /\ DOMAIN name[e] = DOMAIN stack[e] /\ DOMAIN name'[e] = DOMAIN stack'[e]
             /\ \A i \in DOMAIN stack'[e] :
                  /\ i \in DOMAIN stack[e]
                  /\ \/ name'[e][i] = name[e][i] /\ stack'[e][i] = stack[e][i] /\ (e = d => i < last)
                     \/ name'[e][i] = 0 /\ stack'[e][i] = NULL_VAL /\ e = d /\ i = last
             /\ \A i \in DOMAIN stack[e] :
                  e # d \/ i < last => i \in DOMAIN stack'[e] /\ name'[e][i] = name[e][i]
  <2>1. DOMAIN name[e] = 1 .. Len(stack[e]) /\ DOMAIN stack[e] = 1 .. Len(stack[e]) /\ Len(stack[e]) \in Nat
    BY <1>0, Shapes
  <2>2. CASE e = d
    BY <1>0, <2>1, <2>2
  <2>3. CASE e # d
    BY <2>1, <2>3
  <2> QED
    BY <2>2, <2>3
<1>2. /\ DOMAIN upvalue' = DOMAIN upvalue
      /\ \A u \in DOMAIN upvalue :
           IF upvalue[u].slot # Closed /\ upvalue[u].djuru = d /\ upvalue[u].slot >= last
           THEN upvalue'[u] = [upvalue[u] EXCEPT !.slot = Closed,
                                                 !.closed = stack[d][upvalue[u].slot]]
           ELSE upvalue'[u] = upvalue[u]
      /\ n \in 0 .. Len(open[d])
      /\ open' = [open EXCEPT ![d] = SubSeq(@, n + 1, Len(@))]
      /\ \A i \in 1 .. Len(open[d]) : i <= n <=> upvalue[open[d][i]].slot >= last
  BY ClosesFromLast
<1> HIDE DEF n
<1>3. NameInv'
  <2>1. ASSUME NEW e \in Djuru, NEW i \in DOMAIN name'[e]
        PROVE  (i \in DOMAIN name[e] /\ name'[e][i] = name[e][i]) \/ name'[e][i] = 0
    BY <1>1
  <2>2. Len(content) \in Nat
    BY <1>0, Shapes
  <2>3. ASSUME NEW e \in Djuru, NEW i \in DOMAIN name'[e] PROVE name'[e][i] <= Len(content')
    BY <2>1, <2>2 DEF ClosureInv, NameInv
  <2>4. ASSUME NEW e \in Djuru, NEW f \in Djuru, NEW i \in DOMAIN name'[e], NEW j \in DOMAIN name'[f],
               name'[e][i] # 0, name'[e][i] = name'[f][j]
        PROVE  e = f /\ i = j
    <3>1. i \in DOMAIN name[e] /\ name'[e][i] = name[e][i] /\ j \in DOMAIN name[f] /\ name'[f][j] = name[f][j]
      BY <2>1, <2>4
    <3>2. name[e][i] # 0 /\ name[e][i] = name[f][j]
      BY <2>4, <3>1
    <3>3. NameInv
      BY DEF ClosureInv
    <3> QED
      BY <3>1, <3>2, <3>3 DEF NameInv
  <2> QED
    BY <2>3, <2>4 DEF NameInv
<1>4. LocalsKept' /\ TemporariesNull'
  BY <1>1 DEF ClosureInv, LocalsKept, TemporariesNull
<1>5. OneUpvaluePerVariable'
  BY DEF ClosureInv, OneUpvaluePerVariable
<1>6. BindInv'
  <2>1. ASSUME NEW u \in DOMAIN upvalue, NEW x \in DOMAIN content, Serves(u, x) PROVE Serves(u, x)'
    <3>1. /\ upvalue[u].djuru \in Djuru /\ x \in Nat /\ x # 0 /\ upvalue[u] \in Upvalue
          /\ upvalue[u].slot # Closed => upvalue[u].slot \in DOMAIN stack[upvalue[u].djuru]
      BY <1>0, OpenUpvalue, Shapes
    <3>2. CASE upvalue[u].slot = Closed
      <4>1. upvalue'[u] = upvalue[u]
        BY <1>2, <3>2
      <4>2. \A e \in Djuru : \A i \in DOMAIN name'[e] : name'[e][i] # x
        BY <1>1, <2>1, <3>1, <3>2 DEF Serves
      <4> QED
        BY <2>1, <3>2, <4>1, <4>2 DEF Serves
    <3>3. CASE upvalue[u].slot # Closed /\ upvalue[u].djuru = d /\ upvalue[u].slot >= last
      <4> DEFINE i == upvalue[u].slot
      <4>1. upvalue'[u].slot = Closed /\ upvalue'[u].closed = stack[d][i]
        <5>1. upvalue'[u] = [upvalue[u] EXCEPT !.slot = Closed, !.closed = stack[d][i]]
          BY <1>2, <3>3
        <5> QED
          BY <3>1, <5>1 DEF Upvalue
      <4>2. i \in DOMAIN stack[d] /\ name[d][i] = x /\ stack[d][i] = content[x]
        BY <2>1, <3>1, <3>3 DEF Serves, ClosureInv, LocalsKept
      <4>3. ASSUME NEW e \in Djuru, NEW j \in DOMAIN name'[e], name'[e][j] = x PROVE FALSE
        <5>1. j \in DOMAIN name[e] /\ name[e][j] = x /\ (e = d => j < last)
          BY <1>1, <3>1, <4>3
        <5>2. e = d /\ j = i
          BY <1>1, <3>1, <4>2, <5>1 DEF ClosureInv, NameInv
        <5> QED
          BY <1>0, <3>3, <4>2, <5>1, <5>2
      <4> QED
        BY <4>1, <4>2, <4>3 DEF Serves
    <3>4. CASE upvalue[u].slot # Closed /\ ~(upvalue[u].djuru = d /\ upvalue[u].slot >= last)
      <4>1. upvalue'[u] = upvalue[u]
        BY <1>2, <3>4
      <4>2. upvalue[u].slot \in DOMAIN stack[upvalue[u].djuru] /\ (upvalue[u].djuru = d => upvalue[u].slot < last)
        BY <1>0, <3>1, <3>4
      <4>3. name'[upvalue[u].djuru][upvalue[u].slot] = x
        BY <1>1, <2>1, <3>1, <3>4, <4>2 DEF Serves
      <4> QED
        BY <3>4, <4>1, <4>3 DEF Serves
    <3> QED
      BY <3>2, <3>3, <3>4
  <2> QED
    BY <1>0, <2>1, BindKept DEF ClosureInv
<1>7. OpenInv'
  <2>0. /\ open' = [open EXCEPT ![d] = SubSeq(@, n + 1, Len(@))]
        /\ n \in 0 .. Len(open[d]) /\ open \in [Djuru -> Seq(DOMAIN upvalue)]
    BY <1>0, <1>2 DEF TypeOK
  <2>1. ASSUME NEW e \in Djuru, e # d PROVE open'[e] = open[e]
    BY <2>0, <2>1
  <2>2. /\ Len(open[d]) \in Nat /\ open[d] \in Seq(DOMAIN upvalue)
        /\ open'[d] = SubSeq(open[d], n + 1, Len(open[d])) /\ n \in Nat /\ n <= Len(open[d])
    BY <1>0, <2>0, Shapes
  <2>3. /\ DOMAIN open'[d] = 1 .. (Len(open[d]) - n)
        /\ \A i \in DOMAIN open'[d] : open'[d][i] = open[d][n + i]
    BY <2>0, <2>2, TailShape
  <2>4. ASSUME NEW i \in DOMAIN open'[d]
        PROVE  /\ n + i \in DOMAIN open[d]
               /\ upvalue'[open'[d][i]] = upvalue[open[d][n + i]]
               /\ upvalue[open[d][n + i]].slot < last
    <3>1. n + i \in 1 .. Len(open[d]) /\ ~(n + i <= n) /\ open'[d][i] = open[d][n + i]
      BY <2>2, <2>3, <2>4
    <3>2. ~(upvalue[open[d][n + i]].slot >= last)
      BY <1>2, <3>1
    <3>3. upvalue'[open[d][n + i]] = upvalue[open[d][n + i]]
      BY <1>2, <3>1, <3>2, ListShape
    <3>4. upvalue[open[d][n + i]].slot \in Nat /\ n + i \in DOMAIN open[d]
      BY <3>1, ListShape
    <3> QED
      BY <3>1, <3>2, <3>3, <3>4
  <2>5. ASSUME NEW e \in Djuru, e # d, NEW i \in DOMAIN open[e]
        PROVE  upvalue'[open[e][i]] = upvalue[open[e][i]]
    <3>1. open[e][i] \in DOMAIN upvalue /\ upvalue[open[e][i]].djuru # d
      BY <2>5, ListShape
    <3> QED
      BY <1>2, <3>1
  <2>6. ASSUME NEW e \in Djuru, NEW i \in DOMAIN open'[e]
        PROVE  upvalue'[open'[e][i]].djuru = e /\ upvalue'[open'[e][i]].slot \in DOMAIN stack'[e]
    <3>1. CASE e = d
      BY <1>1, <2>4, <3>1, ListShape
    <3>2. CASE e # d
      <4>1. open'[e] = open[e] /\ upvalue'[open'[e][i]] = upvalue[open[e][i]]
        BY <2>1, <2>5, <3>2
      <4>2. i \in 1 .. Len(open[e])
        BY <4>1, ListShape
      <4> QED
        BY <1>1, <3>2, <4>1, <4>2, ListShape
    <3> QED
      BY <3>1, <3>2
  <2>7. ASSUME NEW e \in Djuru, NEW i \in DOMAIN open'[e], NEW j \in DOMAIN open'[e], i < j
        PROVE  upvalue'[open'[e][j]].slot < upvalue'[open'[e][i]].slot
    <3>1. CASE e = d
      <4>1. i \in DOMAIN open'[d] /\ j \in DOMAIN open'[d]
        BY <3>1
      <4>2. /\ n + i \in DOMAIN open[d] /\ upvalue'[open'[d][i]] = upvalue[open[d][n + i]]
            /\ n + j \in DOMAIN open[d] /\ upvalue'[open'[d][j]] = upvalue[open[d][n + j]]
        BY <2>4, <4>1
      <4>3. n + i < n + j
        BY <2>2, <2>3, <2>7, <4>1
      <4> QED
        BY <3>1, <4>2, <4>3 DEF ClosureInv, OpenInv
    <3>2. CASE e # d
      <4>1. upvalue'[open'[e][i]] = upvalue[open[e][i]] /\ upvalue'[open'[e][j]] = upvalue[open[e][j]]
        BY <2>1, <2>5, <3>2
      <4> QED
        BY <2>1, <2>7, <3>2, <4>1 DEF ClosureInv, OpenInv
    <3> QED
      BY <3>1, <3>2
  <2>8. ASSUME NEW u \in DOMAIN upvalue', upvalue'[u].slot # Closed
        PROVE  \E i \in DOMAIN open'[upvalue'[u].djuru] : open'[upvalue'[u].djuru][i] = u
    <3>1. u \in DOMAIN upvalue /\ upvalue'[u] = upvalue[u] /\ ~(upvalue[u].djuru = d /\ upvalue[u].slot >= last)
      <4>1. u \in DOMAIN upvalue /\ upvalue[u] \in Upvalue
        BY <1>0, <1>2, Shapes
      <4>2. CASE upvalue[u].djuru = d /\ upvalue[u].slot >= last
        <5>1. upvalue'[u] = [upvalue[u] EXCEPT !.slot = Closed, !.closed = stack[d][upvalue[u].slot]]
          <6>1. upvalue[u].slot # Closed
            BY <1>2, <2>8, <4>1
          <6> QED
            BY <1>2, <4>1, <4>2, <6>1
        <5>2. upvalue'[u].slot = Closed
          BY <4>1, <5>1 DEF Upvalue
        <5> QED
          BY <2>8, <5>2
      <4>3. CASE ~(upvalue[u].djuru = d /\ upvalue[u].slot >= last)
        BY <1>2, <4>1, <4>3
      <4> QED
        BY <4>1, <4>2, <4>3
    <3>2. PICK i \in 1 .. Len(open[upvalue[u].djuru]) : open[upvalue[u].djuru][i] = u
      BY <2>8, <3>1, OpenUpvalue
    <3>3. CASE upvalue[u].djuru = d
      <4>1. ~(i <= n) /\ i - n \in DOMAIN open'[d]
        <5>1. ~(i <= n)
          BY <1>2, <3>1, <3>2, <3>3
        <5> QED
          BY <2>2, <2>3, <3>2, <3>3, <5>1
      <4>2. open'[d][i - n] = u
        BY <2>2, <2>3, <3>2, <3>3, <4>1
      <4> QED
        BY <3>1, <3>3, <4>1, <4>2
    <3>4. CASE upvalue[u].djuru # d
      <4>1. upvalue[u].djuru \in Djuru /\ upvalue'[u].djuru = upvalue[u].djuru
        BY <3>1, OpenUpvalue
      <4>2. open'[upvalue[u].djuru] = open[upvalue[u].djuru] /\ i \in DOMAIN open[upvalue[u].djuru]
        BY <2>1, <3>2, <3>4, <4>1, ListShape
      <4> QED
        BY <3>2, <4>1, <4>2
    <3> QED
      BY <3>3, <3>4
  <2> QED
    BY <2>6, <2>7, <2>8 DEF OpenInv
<1> QED
  BY <1>3, <1>4, <1>5, <1>6, <1>7 DEF VariablesInv

\* The slot of a variable is written.
LEMMA WriteSlotKeepsVariables ==
  ASSUME ClosureInv, NEW d \in Djuru, NEW i \in DOMAIN stack[d], NEW v \in Value,
         name[d][i] # 0,
         stack' = [stack EXCEPT ![d][i] = v],
         content' = [content EXCEPT ![name[d][i]] = v],
         UNCHANGED <<name, open, upvalue, closure>>
  PROVE  VariablesInv'
<1> DEFINE x == name[d][i]
<1>0. TypeOK /\ NameInv
  BY DEF ClosureInv
<1>1. x \in DOMAIN content /\ i \in DOMAIN name[d]
  <2>1. i \in DOMAIN name[d] /\ x \in Nat /\ x # 0
    BY <1>0, Shapes
  <2> QED
    BY <1>0, <2>1, Shapes DEF NameInv
<1>2. ASSUME NEW e \in Djuru
      PROVE  /\ DOMAIN stack'[e] = DOMAIN stack[e] /\ DOMAIN name[e] = DOMAIN stack[e]
             /\ \A j \in DOMAIN stack[e] : stack'[e][j] = IF e = d /\ j = i THEN v ELSE stack[e][j]
  BY <1>0, Shapes DEF TypeOK
<1>3. /\ Len(content') = Len(content) /\ DOMAIN content' = DOMAIN content
      /\ content'[x] = v /\ \A y \in DOMAIN content : y # x => content'[y] = content[y]
  BY <1>0, <1>1, Shapes DEF TypeOK
<1> HIDE DEF x
<1>4. ASSUME NEW e \in Djuru, NEW j \in DOMAIN name[e], name[e][j] = x PROVE e = d /\ j = i
  BY <1>0, <1>1, <1>4 DEF NameInv, x
<1>5. NameInv'
  BY <1>0, <1>3 DEF NameInv
<1>6. OpenInv'
  BY <1>2 DEF ClosureInv, OpenInv
<1>7. LocalsKept'
  <2>1. ASSUME NEW e \in Djuru, NEW j \in DOMAIN stack[e], name[e][j] # 0
        PROVE  stack'[e][j] = content'[name[e][j]]
    <3>1. CASE e = d /\ j = i
      BY <1>2, <1>3, <3>1 DEF x
    <3>2. CASE ~(e = d /\ j = i)
      <4>1. stack'[e][j] = content[name[e][j]] /\ name[e][j] # x /\ j \in DOMAIN name[e]
        BY <1>2, <1>4, <2>1, <3>2 DEF ClosureInv, LocalsKept
      <4>2. name[e][j] \in DOMAIN content
        <5>1. name[e][j] \in Nat /\ name[e][j] <= Len(content) /\ DOMAIN content = 1 .. Len(content)
          BY <1>0, <4>1, Shapes DEF NameInv
        <5> QED
          BY <2>1, <5>1
      <4> QED
        BY <1>3, <4>1, <4>2
    <3> QED
      BY <3>1, <3>2
  <2> QED
    BY <1>2, <2>1 DEF LocalsKept
<1>8. TemporariesNull'
  BY <1>2 DEF ClosureInv, TemporariesNull
<1>9. OneUpvaluePerVariable'
  BY DEF ClosureInv, OneUpvaluePerVariable
<1>10. BindInv'
  <2>1. ASSUME NEW u \in DOMAIN upvalue, NEW y \in DOMAIN content, Serves(u, y) PROVE Serves(u, y)'
    <3>1. CASE upvalue[u].slot = Closed
      <4>1. y # x
        BY <1>1, <2>1, <3>1 DEF Serves, x
      <4> QED
        BY <1>3, <2>1, <3>1, <4>1 DEF Serves
    <3>2. CASE upvalue[u].slot # Closed
      BY <2>1, <3>2 DEF Serves
    <3> QED
      BY <3>1, <3>2
  <2> QED
    BY <1>0, <2>1, BindKept DEF ClosureInv
<1> QED
  BY <1>5, <1>6, <1>7, <1>8, <1>9, <1>10 DEF VariablesInv

\* A variable that has left its stack is written through its upvalue.
LEMMA WriteClosedKeepsVariables ==
  ASSUME ClosureInv, NEW u \in DOMAIN upvalue, NEW x \in DOMAIN content, NEW v \in Value,
         Binds(u, x), Serves(u, x), upvalue[u].slot = Closed,
         upvalue' = [upvalue EXCEPT ![u].closed = v],
         content' = [content EXCEPT ![x] = v],
         UNCHANGED <<stack, name, open, closure>>
  PROVE  VariablesInv'
<1>0. TypeOK /\ NameInv
  BY DEF ClosureInv
<1>1. /\ Len(content') = Len(content) /\ DOMAIN content' = DOMAIN content
      /\ content'[x] = v /\ \A y \in DOMAIN content : y # x => content'[y] = content[y]
  BY <1>0, Shapes DEF TypeOK
<1>2. /\ DOMAIN upvalue' = DOMAIN upvalue
      /\ \A w \in DOMAIN upvalue : w # u => upvalue'[w] = upvalue[w]
      /\ \A w \in DOMAIN upvalue :
           upvalue'[w].djuru = upvalue[w].djuru /\ upvalue'[w].slot = upvalue[w].slot
      /\ upvalue'[u].closed = v
  BY <1>0, Shapes DEF Upvalue
<1>3. NameInv' /\ TemporariesNull' /\ OneUpvaluePerVariable'
  BY <1>0, <1>1 DEF ClosureInv, NameInv, TemporariesNull, OneUpvaluePerVariable
<1>4. OpenInv'
  <2>1. ASSUME NEW d \in Djuru, NEW i \in DOMAIN open[d]
        PROVE  /\ upvalue'[open[d][i]].djuru = upvalue[open[d][i]].djuru
               /\ upvalue'[open[d][i]].slot = upvalue[open[d][i]].slot
    BY <1>2, ListShape
  <2>2. OpenInv
    BY DEF ClosureInv
  <2>3. ASSUME NEW d \in Djuru
        PROVE  /\ \A i \in DOMAIN open[d] :
                     upvalue'[open[d][i]].djuru = d /\ upvalue'[open[d][i]].slot \in DOMAIN stack[d]
               /\ \A i, j \in DOMAIN open[d] :
                     i < j => upvalue'[open[d][j]].slot < upvalue'[open[d][i]].slot
    BY <2>1, <2>2 DEF OpenInv
  <2>4. ASSUME NEW w \in DOMAIN upvalue', upvalue'[w].slot # Closed
        PROVE  \E i \in DOMAIN open[upvalue'[w].djuru] : open[upvalue'[w].djuru][i] = w
    <3>1. w \in DOMAIN upvalue /\ upvalue'[w].djuru = upvalue[w].djuru /\ upvalue[w].slot # Closed
      BY <1>2, <2>4
    <3> QED
      BY <2>2, <3>1 DEF OpenInv
  <2> QED
    BY <2>3, <2>4 DEF OpenInv
<1>5. LocalsKept'
  <2>1. ASSUME NEW e \in Djuru, NEW j \in DOMAIN stack[e], name[e][j] # 0
        PROVE  stack[e][j] = content'[name[e][j]]
    <3>1. stack[e][j] = content[name[e][j]] /\ j \in DOMAIN name[e]
      BY <1>0, <2>1, Shapes DEF ClosureInv, LocalsKept
    <3>2. name[e][j] # x
      BY <3>1 DEF Serves
    <3>3. name[e][j] \in DOMAIN content
      <4>1. name[e][j] \in Nat /\ name[e][j] <= Len(content) /\ DOMAIN content = 1 .. Len(content)
        BY <1>0, <3>1, Shapes DEF NameInv
      <4> QED
        BY <2>1, <4>1
    <3> QED
      BY <1>1, <3>1, <3>2, <3>3
  <2> QED
    BY <2>1 DEF LocalsKept
<1>6. BindInv'
  <2>1. ASSUME NEW w \in DOMAIN upvalue, NEW y \in DOMAIN content, Binds(w, y), Serves(w, y)
        PROVE  Serves(w, y)'
    <3>1. y = x <=> w = u
      BY <2>1 DEF Binds, ClosureInv, OneUpvaluePerVariable
    <3>2. CASE w = u
      <4>1. upvalue'[w].slot = Closed /\ upvalue'[w].closed = content'[y]
        BY <1>1, <1>2, <3>1, <3>2
      <4>2. \A d \in Djuru : \A i \in DOMAIN name[d] : name[d][i] # y
        BY <3>1, <3>2 DEF Serves
      <4> QED
        BY <4>1, <4>2 DEF Serves
    <3>3. CASE w # u
      BY <1>1, <1>2, <2>1, <3>1, <3>3 DEF Serves
    <3> QED
      BY <3>2, <3>3
  <2> QED
    BY <1>0, <2>1, BindKept DEF ClosureInv
<1> QED
  BY <1>3, <1>4, <1>5, <1>6 DEF VariablesInv

\* The temporary on top of a stack becomes a parameter.
LEMMA ParameterKeepsVariables ==
  ASSUME ClosureInv, NEW d \in Djuru, stack[d] # <<>>, name[d][Len(stack[d])] = 0,
         name' = [name EXCEPT ![d][Len(stack[d])] = NewVariable],
         content' = Append(content, NULL_VAL),
         UNCHANGED <<stack, open, upvalue, closure>>
  PROVE  VariablesInv'
<1> DEFINE top == Len(stack[d])
           x == Len(content) + 1
<1>0. TypeOK /\ NameInv /\ top \in DOMAIN name[d] /\ Len(content) \in Nat /\ name[d][top] = 0
  BY Shapes DEF ClosureInv
<1>1. ASSUME NEW e \in Djuru
      PROVE  /\ DOMAIN name'[e] = DOMAIN name[e] /\ DOMAIN name[e] = DOMAIN stack[e]
             /\ \A j \in DOMAIN name[e] : name'[e][j] = IF e = d /\ j = top THEN x ELSE name[e][j]
  <2>1. DOMAIN name[e] = DOMAIN stack[e]
    BY <1>0, Shapes
  <2>2. name' = [name EXCEPT ![d] = [name[d] EXCEPT ![top] = x]] /\ name \in [Djuru -> Seq(Nat)]
    BY <1>0 DEF TypeOK, NewVariable
  <2>3. CASE e = d
    <3>1. name'[e] = [name[e] EXCEPT ![top] = x]
      BY <2>2, <2>3
    <3> QED
      BY <2>1, <2>3, <3>1
  <2>4. CASE e # d
    <3>1. name'[e] = name[e]
      BY <2>2, <2>4
    <3> QED
      BY <2>1, <2>4, <3>1
  <2> QED
    BY <2>3, <2>4
<1>2. /\ Len(content') = x /\ content'[x] = NULL_VAL
      /\ \A y \in DOMAIN content : y \in DOMAIN content' /\ content'[y] = content[y] /\ y # x
  <2>1. content \in Seq(Value) /\ NULL_VAL \in Value
    BY <1>0, ClosuresAssumption DEF TypeOK
  <2> QED
    BY <2>1
<1>3. ASSUME NEW e \in Djuru, NEW j \in DOMAIN name[e]
      PROVE  name[e][j] \in Nat /\ name[e][j] <= Len(content) /\ (name[e][j] # 0 => name[e][j] \in DOMAIN content)
  <2>1. name[e][j] \in Nat /\ name[e][j] <= Len(content) /\ DOMAIN content = 1 .. Len(content)
    BY <1>0, Shapes DEF NameInv
  <2> QED
    BY <2>1
<1>4. x \in Nat /\ x > Len(content)
  BY <1>0
<1> HIDE DEF x, top
<1>5. NameInv'
  <2>1. ASSUME NEW e \in Djuru, NEW i \in DOMAIN name[e] PROVE name'[e][i] <= Len(content')
    BY <1>0, <1>1, <1>2, <1>3, <1>4
  <2>2. ASSUME NEW e \in Djuru, NEW f \in Djuru, NEW i \in DOMAIN name[e], NEW j \in DOMAIN name[f],
               name'[e][i] # 0, name'[e][i] = name'[f][j]
        PROVE  e = f /\ i = j
    <3>1. /\ name'[e][i] = IF e = d /\ i = top THEN x ELSE name[e][i]
          /\ name'[f][j] = IF f = d /\ j = top THEN x ELSE name[f][j]
          /\ name[e][i] # x /\ name[f][j] # x
      BY <1>0, <1>1, <1>3, <1>4
    <3>2. CASE name'[e][i] = x
      BY <2>2, <3>1, <3>2
    <3>3. CASE name'[e][i] # x
      <4>1. name[e][i] # 0 /\ name[e][i] = name[f][j]
        BY <2>2, <3>1, <3>3
      <4> QED
        BY <1>0, <4>1 DEF NameInv
    <3> QED
      BY <3>2, <3>3
  <2> QED
    BY <1>1, <2>1, <2>2 DEF NameInv
<1>6. OpenInv' /\ OneUpvaluePerVariable'
  BY DEF ClosureInv, OpenInv, OneUpvaluePerVariable
<1>7. LocalsKept' /\ TemporariesNull'
  <2>1. ASSUME NEW e \in Djuru, NEW j \in DOMAIN stack[e]
        PROVE  /\ name'[e][j] # 0 => stack[e][j] = content'[name'[e][j]]
               /\ name'[e][j] = 0 => stack[e][j] = NULL_VAL
    <3>1. j \in DOMAIN name[e] /\ name'[e][j] = IF e = d /\ j = top THEN x ELSE name[e][j]
      BY <1>1
    <3>2. /\ name[e][j] # 0 => stack[e][j] = content[name[e][j]]
          /\ name[e][j] = 0 => stack[e][j] = NULL_VAL
      BY <3>1 DEF ClosureInv, LocalsKept, TemporariesNull
    <3>3. CASE e = d /\ j = top
      BY <1>0, <1>2, <1>4, <3>1, <3>2, <3>3
    <3>4. CASE ~(e = d /\ j = top)
      BY <1>2, <1>3, <3>1, <3>2, <3>4
    <3> QED
      BY <3>3, <3>4
  <2> QED
    BY <1>1, <2>1 DEF LocalsKept, TemporariesNull
<1>8. BindInv'
  <2>1. ASSUME NEW u \in DOMAIN upvalue, NEW y \in DOMAIN content, Serves(u, y) PROVE Serves(u, y)'
    <3>1. CASE upvalue[u].slot = Closed
      BY <1>1, <1>2, <2>1, <3>1 DEF Serves
    <3>2. CASE upvalue[u].slot # Closed
      <4>1. /\ upvalue[u].djuru \in Djuru /\ upvalue[u].slot \in DOMAIN name[upvalue[u].djuru]
            /\ y # 0
        <5>1. upvalue[u].djuru \in Djuru /\ upvalue[u].slot \in 1 .. Len(stack[upvalue[u].djuru])
          BY <3>2, OpenUpvalue
        <5>2. DOMAIN name[upvalue[u].djuru] = 1 .. Len(stack[upvalue[u].djuru]) /\ DOMAIN content = 1 .. Len(content)
          BY <1>0, <5>1, Shapes
        <5> QED
          BY <5>1, <5>2
      <4>2. name[upvalue[u].djuru][upvalue[u].slot] = y
        BY <2>1, <3>2 DEF Serves
      <4>3. name'[upvalue[u].djuru][upvalue[u].slot] = y
        BY <1>0, <1>1, <4>1, <4>2
      <4> QED
        BY <3>2, <4>3 DEF Serves
    <3> QED
      BY <3>1, <3>2
  <2> QED
    BY <1>0, <2>1, BindKept DEF ClosureInv
<1> QED
  BY <1>5, <1>6, <1>7, <1>8 DEF VariablesInv

\* One turn of OP_CLOSURE's loop appends to the last closure only.
LEMMA BindShape ==
  ASSUME TypeOK, NEW u, NEW x, Bind(u, x), closure # <<>>
  PROVE  /\ DOMAIN closure' = DOMAIN closure /\ Len(closure') = Len(closure)
         /\ Len(closure) \in DOMAIN closure
         /\ \A c \in DOMAIN closure : c # Len(closure) => closure'[c] = closure[c]
         /\ closure'[Len(closure)].upvalues = Append(closure[Len(closure)].upvalues, u)
         /\ closure'[Len(closure)].bound = Append(closure[Len(closure)].bound, x)
         /\ DOMAIN closure'[Len(closure)] = {"upvalues", "bound"}
<1>1. closure \in Seq(Closure)
  BY DEF TypeOK, Closure
<1>2. Len(closure) \in DOMAIN closure
  BY <1>1, SeqShape
<1>3. closure' = [closure EXCEPT ![Len(closure)] =
                    [upvalues |-> Append(closure[Len(closure)].upvalues, u),
                     bound |-> Append(closure[Len(closure)].bound, x)]]
  BY DEF Bind
<1> QED
  BY <1>1, <1>2, <1>3

\* A closure gets one more upvalue, u for variable x, and nothing else changes
\* what is bound.
LEMMA BindsGrow ==
  ASSUME TypeOK, BindInv, NEW u, NEW x, Bind(u, x), closure # <<>>, NEW w, NEW y, Binds(w, y)'
  PROVE  Binds(w, y) \/ (w = u /\ y = x)
<1> DEFINE n == Len(closure)
<1>1. /\ DOMAIN closure' = DOMAIN closure
      /\ \A c \in DOMAIN closure : c # n => closure'[c] = closure[c]
      /\ closure'[n].upvalues = Append(closure[n].upvalues, u)
      /\ closure'[n].bound = Append(closure[n].bound, x)
  BY BindShape
<1>2. PICK c \in DOMAIN closure : \E j \in DOMAIN closure'[c].upvalues :
        closure'[c].upvalues[j] = w /\ closure'[c].bound[j] = y
  BY <1>1 DEF Binds
<1>3. CASE c # n
  BY <1>1, <1>2, <1>3 DEF Binds
<1>4. CASE c = n
  <2>1. /\ closure[n].upvalues \in Seq(DOMAIN upvalue) /\ closure[n].bound \in Seq(DOMAIN content)
        /\ DOMAIN closure[n].bound = DOMAIN closure[n].upvalues
    BY <1>4, Shapes DEF Closure, BindInv
  <2>2. PICK j \in DOMAIN closure'[n].upvalues :
          closure'[n].upvalues[j] = w /\ closure'[n].bound[j] = y
    BY <1>2, <1>4
  <2>3. Len(closure[n].bound) = Len(closure[n].upvalues)
    BY <2>1
  <2>4. CASE j \in DOMAIN closure[n].upvalues
    <3>1. closure[n].upvalues[j] = w /\ closure[n].bound[j] = y
      BY <1>1, <2>1, <2>2, <2>4
    <3> QED
      BY <1>4, <2>4, <3>1 DEF Binds
  <2>5. CASE j \notin DOMAIN closure[n].upvalues
    <3>1. j = Len(closure[n].upvalues) + 1
      BY <1>1, <2>1, <2>2, <2>5
    <3> QED
      BY <1>1, <2>1, <2>2, <2>3, <3>1
  <2> QED
    BY <2>4, <2>5
<1> QED
  BY <1>3, <1>4

\* The closure that OP_CLOSURE made captures a variable.
LEMMA BindKeepsBindings ==
  ASSUME TypeOK, BindInv, OneUpvaluePerVariable, NEW u, NEW x, Bind(u, x), closure # <<>>,
         \A w \in DOMAIN upvalue, y \in DOMAIN content :
           Binds(w, y) /\ Serves(w, y) => Serves(w, y)' /\ (w = u <=> y = x),
         Serves(u, x)'
  PROVE  BindInv' /\ OneUpvaluePerVariable'
<1>1. ASSUME NEW w, NEW y, Binds(w, y) PROVE w \in DOMAIN upvalue /\ y \in DOMAIN content /\ Serves(w, y)
  <2>1. PICK c \in DOMAIN closure : \E j \in DOMAIN closure[c].upvalues :
          closure[c].upvalues[j] = w /\ closure[c].bound[j] = y
    BY <1>1 DEF Binds
  <2>2. closure[c].upvalues \in Seq(DOMAIN upvalue) /\ closure[c].bound \in Seq(DOMAIN content)
    BY Shapes DEF Closure
  <2>3. /\ DOMAIN closure[c].bound = DOMAIN closure[c].upvalues
        /\ \A j \in DOMAIN closure[c].upvalues : Serves(closure[c].upvalues[j], closure[c].bound[j])
    BY DEF BindInv
  <2> QED
    BY <2>1, <2>2, <2>3
<1>2. ASSUME NEW w, NEW y, Binds(w, y)' PROVE Serves(w, y)'
  <2>1. CASE Binds(w, y)
    BY <1>1, <2>1
  <2>2. CASE w = u /\ y = x
    BY <2>2
  <2> QED
    BY <1>2, <2>1, <2>2, BindsGrow
<1>3. ASSUME NEW w, NEW y, NEW v, NEW z, Binds(w, y)', Binds(v, z)'
      PROVE  y = z <=> w = v
  <2>1. Binds(w, y) => (w = u <=> y = x)
    BY <1>1
  <2>2. Binds(v, z) => (v = u <=> z = x)
    BY <1>1
  <2>3. Binds(w, y) /\ Binds(v, z) => (y = z <=> w = v)
    BY DEF Binds, OneUpvaluePerVariable
  <2>4. Binds(w, y) \/ (w = u /\ y = x)
    BY <1>3, BindsGrow
  <2>5. Binds(v, z) \/ (v = u /\ z = x)
    BY <1>3, BindsGrow
  <2> QED
    BY <2>1, <2>2, <2>3, <2>4, <2>5
<1>4. ASSUME NEW c \in DOMAIN closure', NEW j \in DOMAIN closure'[c].upvalues, NEW w, NEW y,
             w = closure'[c].upvalues[j], y = closure'[c].bound[j]
      PROVE  Binds(w, y)'
  BY <1>4 DEF Binds
<1>5. BindInv'
  <2>1. ASSUME NEW c \in DOMAIN closure' PROVE DOMAIN closure'[c].bound = DOMAIN closure'[c].upvalues
    <3> DEFINE n == Len(closure)
    <3>1. /\ DOMAIN closure' = DOMAIN closure
          /\ c # n => closure'[c] = closure[c]
          /\ closure'[n].upvalues = Append(closure[n].upvalues, u)
          /\ closure'[n].bound = Append(closure[n].bound, x)
      BY BindShape
    <3>2. /\ closure[c].upvalues \in Seq(DOMAIN upvalue) /\ closure[c].bound \in Seq(DOMAIN content)
          /\ DOMAIN closure[c].bound = DOMAIN closure[c].upvalues
      BY <3>1, Shapes DEF Closure, BindInv
    <3>3. CASE c # n
      BY <3>1, <3>2, <3>3
    <3>4. CASE c = n
      <4>1. Len(closure[n].bound) = Len(closure[n].upvalues)
        BY <3>2, <3>4
      <4> QED
        BY <3>1, <3>2, <3>4, <4>1
    <3> QED
      BY <3>3, <3>4
  <2>2. ASSUME NEW c \in DOMAIN closure', NEW j \in DOMAIN closure'[c].upvalues
        PROVE  Serves(closure[c].upvalues[j], closure[c].bound[j])'
    <3>1. PICK w, y : w = closure'[c].upvalues[j] /\ y = closure'[c].bound[j]
      OBVIOUS
    <3>2. Serves(w, y)'
      BY <1>2, <1>4, <3>1
    <3> QED
      BY <3>1, <3>2 DEF Serves
  <2> QED
    BY <2>1, <2>2 DEF BindInv
<1>6. OneUpvaluePerVariable'
  <2> SUFFICES ASSUME NEW c \in DOMAIN closure', NEW e \in DOMAIN closure',
                      NEW i \in DOMAIN closure'[c].upvalues, NEW j \in DOMAIN closure'[e].upvalues
               PROVE  closure'[c].bound[i] = closure'[e].bound[j] <=>
                        closure'[c].upvalues[i] = closure'[e].upvalues[j]
    BY DEF OneUpvaluePerVariable
  <2>1. PICK w, y : w = closure'[c].upvalues[i] /\ y = closure'[c].bound[i]
    OBVIOUS
  <2>2. PICK v, z : v = closure'[e].upvalues[j] /\ z = closure'[e].bound[j]
    OBVIOUS
  <2>3. Binds(w, y)' /\ Binds(v, z)'
    BY <1>4, <2>1, <2>2
  <2> QED
    BY <1>3, <2>1, <2>2, <2>3
<1> QED
  BY <1>5, <1>6

\* Two open upvalues never point to the same slot.
LEMMA OneOpenUpvaluePerSlot ==
  ASSUME ClosureInv, NEW u \in DOMAIN upvalue, NEW w \in DOMAIN upvalue,
         upvalue[u].slot # Closed, upvalue[w].slot = upvalue[u].slot,
         upvalue[w].djuru = upvalue[u].djuru
  PROVE  w = u
<1> DEFINE d == upvalue[u].djuru
<1>1. d \in Djuru
  BY OpenUpvalue
<1>2. PICK i \in 1 .. Len(open[d]) : open[d][i] = u
  BY OpenUpvalue
<1>3. PICK j \in 1 .. Len(open[d]) : open[d][j] = w
  BY OpenUpvalue
<1>4. /\ DOMAIN open[d] = 1 .. Len(open[d]) /\ Descending(d)
      /\ upvalue[u].slot \in Nat
  BY <1>1, <1>2, ListShape
<1>5. i = j
  BY <1>2, <1>3, <1>4 DEF Descending
<1> QED
  BY <1>2, <1>3, <1>5

\* An open upvalue of the slot of variable x, and no other, is bound to x.
LEMMA BoundToSlot ==
  ASSUME ClosureInv, NEW d \in Djuru, NEW slot \in DOMAIN stack[d], name[d][slot] # 0,
         NEW w \in DOMAIN upvalue, NEW y, Serves(w, y)
  PROVE  y = name[d][slot] <=>
           upvalue[w].slot # Closed /\ upvalue[w].djuru = d /\ upvalue[w].slot = slot
<1>0. /\ TypeOK /\ NameInv /\ upvalue[w].djuru \in Djuru /\ slot \in DOMAIN name[d]
  BY Shapes DEF ClosureInv, Upvalue
<1>1. CASE upvalue[w].slot = Closed
  BY <1>0, <1>1 DEF Serves
<1>2. CASE upvalue[w].slot # Closed
  <2>1. upvalue[w].slot \in 1 .. Len(stack[upvalue[w].djuru])
    BY <1>2, OpenUpvalue
  <2>2. upvalue[w].slot \in DOMAIN name[upvalue[w].djuru]
    BY <1>0, <2>1, Shapes
  <2>3. name[upvalue[w].djuru][upvalue[w].slot] = y
    BY <1>2 DEF Serves
  <2> QED
    BY <1>0, <1>2, <2>2, <2>3 DEF NameInv
<1> QED
  BY <1>1, <1>2

\* A sequence after a member has been put behind the first n.
Inserted(s, n, a) == SubSeq(s, 1, n) \o <<a>> \o SubSeq(s, n + 1, Len(s))

LEMMA InsertShape ==
  ASSUME NEW S, NEW s \in Seq(S), NEW a \in S, NEW n \in 0 .. Len(s)
  PROVE  /\ Inserted(s, n, a) \in Seq(S)
         /\ Len(Inserted(s, n, a)) = Len(s) + 1
         /\ DOMAIN Inserted(s, n, a) = 1 .. Len(s) + 1
         /\ \A i \in 1 .. n : Inserted(s, n, a)[i] = s[i]
         /\ Inserted(s, n, a)[n + 1] = a
         /\ \A i \in n + 2 .. Len(s) + 1 : Inserted(s, n, a)[i] = s[i - 1]
<1> PICK t : t = Inserted(s, n, a)
  OBVIOUS
<1> DEFINE p == SubSeq(s, 1, n)
           q == SubSeq(s, n + 1, Len(s))
<1>0. Len(s) \in Nat /\ n \in Nat /\ n <= Len(s)
  OBVIOUS
<1>1. p \in Seq(S) /\ Len(p) = n /\ \A i \in 1 .. n : p[i] = s[i]
  <2>1. 1 \in 1 .. Len(s) + 1 /\ n \in 1 - 1 .. Len(s)
    BY <1>0
  <2>2. /\ p \in Seq(S) /\ Len(p) = n - 1 + 1
        /\ \A i \in 1 .. n - 1 + 1 : p[i] = s[1 + i - 1]
    BY <2>1, SubSeqProperties
  <2>3. n - 1 + 1 = n /\ \A i \in 1 .. n : 1 + i - 1 = i
    BY <1>0
  <2> QED
    BY <2>2, <2>3
<1>2. /\ q \in Seq(S) /\ Len(q) = Len(s) - n
      /\ \A i \in 1 .. Len(s) - n : q[i] = s[n + i]
  BY <1>0, TailShape
<1> HIDE DEF p, q
<1>3. t = (p \o <<a>>) \o q /\ <<a>> \in Seq(S) /\ p \in Seq(S) /\ q \in Seq(S)
  BY <1>1, <1>2 DEF p, q, Inserted
<1>4. /\ p \o <<a>> \in Seq(S) /\ Len(p \o <<a>>) = n + 1
      /\ \A i \in 1 .. n : (p \o <<a>>)[i] = p[i]
      /\ (p \o <<a>>)[n + 1] = a
  BY <1>0, <1>1, <1>3
<1>5. /\ t \in Seq(S) /\ Len(t) = n + 1 + (Len(s) - n)
      /\ \A i \in 1 .. n + 1 : t[i] = (p \o <<a>>)[i]
      /\ \A i \in n + 2 .. Len(s) + 1 : t[i] = q[i - (n + 1)]
  <2> DEFINE r == p \o <<a>>
  <2>1. r \in Seq(S) /\ Len(r) = n + 1 /\ t = r \o q
    BY <1>3, <1>4
  <2> HIDE DEF r
  <2>2. /\ r \o q \in Seq(S) /\ Len(r \o q) = Len(r) + Len(q)
        /\ \A i \in 1 .. Len(r) + Len(q) :
             (r \o q)[i] = IF i <= Len(r) THEN r[i] ELSE q[i - Len(r)]
    BY <1>3, <2>1, ConcatProperties
  <2>3. ASSUME NEW i \in 1 .. n + 1 PROVE t[i] = r[i]
    <3>1. i \in 1 .. Len(r) + Len(q) /\ i <= Len(r)
      BY <1>0, <1>2, <2>1
    <3> QED
      BY <2>1, <2>2, <3>1
  <2>4. ASSUME NEW i \in n + 2 .. Len(s) + 1 PROVE t[i] = q[i - (n + 1)]
    <3>1. i \in 1 .. Len(r) + Len(q) /\ ~(i <= Len(r)) /\ Len(r) = n + 1
      BY <1>0, <1>2, <2>1
    <3> QED
      BY <2>1, <2>2, <3>1
  <2> QED
    BY <1>2, <2>1, <2>2, <2>3, <2>4 DEF r
<1>6. Len(t) = Len(s) + 1 /\ DOMAIN t = 1 .. Len(s) + 1
  <2>1. n + 1 + (Len(s) - n) = Len(s) + 1
    BY <1>0
  <2> QED
    BY <1>5, <2>1, SeqShape
<1>7. ASSUME NEW i \in 1 .. n PROVE t[i] = s[i]
  <2>1. i \in 1 .. n + 1
    BY <1>0
  <2> QED
    BY <1>1, <1>4, <1>5, <2>1
<1>8. t[n + 1] = a
  BY <1>0, <1>4, <1>5
<1>9. ASSUME NEW i \in n + 2 .. Len(s) + 1 PROVE t[i] = s[i - 1]
  <2>1. i - (n + 1) \in 1 .. Len(s) - n /\ n + (i - (n + 1)) = i - 1
    BY <1>0
  <2> QED
    BY <1>2, <1>5, <2>1
<1> QED
  BY <1>5, <1>6, <1>7, <1>8, <1>9

\* A new upvalue is put where captureUpvalue's search stopped, if the search
\* found none of the slot: the list still goes down the stack.
LEMMA NewUpvalueKeepsOpen ==
  ASSUME ClosureInv, NEW d \in Djuru, NEW slot \in DOMAIN stack[d],
         NewUpvalue(d, slot), Existing(d, slot) = {}, UNCHANGED stack
  PROVE  /\ OpenInv'
         /\ upvalue' = Append(upvalue, [djuru |-> d, slot |-> slot, closed |-> NULL_VAL])
         /\ DOMAIN upvalue' = 1 .. Len(upvalue) + 1 /\ Len(upvalue') = Len(upvalue) + 1
         /\ upvalue'[Len(upvalue) + 1] = [djuru |-> d, slot |-> slot, closed |-> NULL_VAL]
         /\ \A u \in DOMAIN upvalue : u # Len(upvalue) + 1 /\ upvalue'[u] = upvalue[u]
         /\ open' = [open EXCEPT ![d] = open'[d]]
         /\ open'[d] \in Seq(DOMAIN upvalue')
<1> DEFINE n == InsertAt(d, slot)
           u == Len(upvalue) + 1
           s == open[d]
           t == open'[d]
<1>0. /\ TypeOK /\ OpenInv /\ Len(upvalue) \in Nat /\ DOMAIN upvalue = 1 .. Len(upvalue)
      /\ upvalue \in Seq(Upvalue) /\ open \in [Djuru -> Seq(DOMAIN upvalue)]
  BY Shapes DEF ClosureInv, TypeOK, Upvalue
<1>1. /\ slot \in Nat /\ slot # 0 /\ slot \in 1 .. Len(stack[d])
      /\ s \in Seq(DOMAIN upvalue) /\ Len(s) \in Nat /\ DOMAIN s = 1 .. Len(s)
      /\ \A i \in 1 .. Len(s) : s[i] \in DOMAIN upvalue
  BY <1>0, Shapes
<1>2. /\ n \in 0 .. Len(s)
      /\ \A i \in 1 .. Len(s) : i <= n <=> upvalue[s[i]].slot > slot
      /\ \A i \in 1 .. Len(s) : upvalue[s[i]].slot # slot
  BY <1>1, ListShape, CaptureFinds
<1>3. /\ upvalue' = Append(upvalue, [djuru |-> d, slot |-> slot, closed |-> NULL_VAL])
      /\ open' = [open EXCEPT ![d] = SubSeq(s, 1, n) \o <<u>> \o SubSeq(s, n + 1, Len(s))]
  BY DEF NewUpvalue
<1>4. /\ DOMAIN upvalue' = 1 .. u /\ Len(upvalue') = u
      /\ upvalue'[u] = [djuru |-> d, slot |-> slot, closed |-> NULL_VAL]
      /\ \A w \in DOMAIN upvalue : w # u /\ upvalue'[w] = upvalue[w]
  BY <1>0, <1>3
<1>5. \A e \in Djuru : e # d => open'[e] = open[e]
  BY <1>0, <1>3
<1>6. t = SubSeq(s, 1, n) \o <<u>> \o SubSeq(s, n + 1, Len(s))
  BY <1>0, <1>3
<1> HIDE DEF n, s, t
<1>7. /\ t \in Seq(DOMAIN upvalue \union {u}) /\ Len(t) = Len(s) + 1 /\ DOMAIN t = 1 .. Len(s) + 1
      /\ \A i \in 1 .. n : t[i] = s[i]
      /\ t[n + 1] = u
      /\ \A i \in n + 2 .. Len(s) + 1 : t[i] = s[i - 1]
  <2> DEFINE members == DOMAIN upvalue \union {u}
  <2>1. s \in Seq(members) /\ u \in members /\ n \in 0 .. Len(s)
    BY <1>1, <1>2
  <2>2. t = Inserted(s, n, u)
    BY <1>6 DEF Inserted
  <2> HIDE DEF u, members
  <2>3. /\ t \in Seq(members) /\ Len(t) = Len(s) + 1 /\ DOMAIN t = 1 .. Len(s) + 1
        /\ \A i \in 1 .. n : t[i] = s[i]
        /\ t[n + 1] = u
        /\ \A i \in n + 2 .. Len(s) + 1 : t[i] = s[i - 1]
    <3>1. t \in Seq(members) /\ Len(t) = Len(s) + 1 /\ DOMAIN t = 1 .. Len(s) + 1
      BY <2>1, <2>2, InsertShape
    <3>2. t[n + 1] = u
      BY <2>1, <2>2, InsertShape
    <3>3. \A i \in 1 .. n : t[i] = s[i]
      BY <2>1, <2>2, InsertShape
    <3>4. \A i \in n + 2 .. Len(s) + 1 : t[i] = s[i - 1]
      BY <2>1, <2>2, InsertShape
    <3> QED
      BY <3>1, <3>2, <3>3, <3>4
  <2> QED
    BY <2>3 DEF members
<1>8. DOMAIN upvalue \union {u} = DOMAIN upvalue'
  BY <1>0, <1>4
<1> HIDE DEF u
\* Each member of the new list is one of the old ones or the new upvalue.
<1>9. ASSUME NEW i \in 1 .. Len(s) + 1
      PROVE  \/ i \in 1 .. n /\ t[i] = s[i] /\ i \in 1 .. Len(s)
             \/ i = n + 1 /\ t[i] = u
             \/ i \in n + 2 .. Len(s) + 1 /\ t[i] = s[i - 1] /\ i - 1 \in 1 .. Len(s)
  <2>1. n \in Nat /\ n <= Len(s) /\ Len(s) \in Nat /\ i \in Nat
    BY <1>1, <1>2
  <2>2. CASE i <= n
    BY <1>1, <1>7, <2>1, <2>2
  <2>3. CASE i = n + 1
    BY <1>7, <2>3
  <2>4. CASE i > n + 1
    <3>1. i \in n + 2 .. Len(s) + 1 /\ i - 1 \in 1 .. Len(s)
      BY <1>1, <2>1, <2>4
    <3> QED
      BY <1>7, <3>1
  <2> QED
    BY <2>1, <2>2, <2>3, <2>4
<1>10. ASSUME NEW i \in 1 .. Len(s)
      PROVE  /\ upvalue'[s[i]] = upvalue[s[i]] /\ upvalue[s[i]].djuru = d
             /\ upvalue[s[i]].slot \in 1 .. Len(stack[d])
             /\ \A j \in 1 .. Len(s) : i < j => upvalue[s[j]].slot < upvalue[s[i]].slot
  <2>1. upvalue[s[i]].djuru = d /\ upvalue[s[i]].slot \in 1 .. Len(stack[d]) /\ Descending(d)
    BY ListShape DEF s
  <2>2. \A j \in 1 .. Len(s) : i < j => upvalue[s[j]].slot < upvalue[s[i]].slot
    BY <1>1, <2>1 DEF Descending, s
  <2> QED
    BY <1>1, <1>4, <2>1, <2>2
<1>11. ASSUME NEW i \in DOMAIN t
       PROVE  upvalue'[t[i]].djuru = d /\ upvalue'[t[i]].slot \in 1 .. Len(stack[d])
  <2>1. i \in 1 .. Len(s) + 1
    BY <1>7
  <2>2. CASE t[i] = u
    BY <1>1, <1>4, <2>2
  <2>3. CASE \E k \in 1 .. Len(s) : t[i] = s[k]
    BY <1>10, <2>3
  <2> QED
    BY <1>9, <2>1, <2>2, <2>3
<1>12. ASSUME NEW i \in DOMAIN t, NEW j \in DOMAIN t, i < j
       PROVE  upvalue'[t[j]].slot < upvalue'[t[i]].slot
  <2>1. i \in 1 .. Len(s) + 1 /\ j \in 1 .. Len(s) + 1 /\ n \in Nat /\ Len(s) \in Nat
    BY <1>1, <1>2, <1>7
  <2>2. \A k \in 1 .. Len(s) : upvalue'[s[k]].slot \in Nat /\ (k <= n <=> upvalue'[s[k]].slot > slot)
                               /\ upvalue'[s[k]].slot # slot
    BY <1>1, <1>2, <1>10
  <2>3. \A k, l \in 1 .. Len(s) : k < l => upvalue'[s[l]].slot < upvalue'[s[k]].slot
    BY <1>10
  <2>4. upvalue'[u].slot = slot
    BY <1>4
  <2>5. CASE i <= n
    <3>1. t[i] = s[i] /\ i \in 1 .. Len(s)
      BY <1>9, <2>1, <2>5
    <3>2. CASE j <= n
      <4>1. t[j] = s[j] /\ j \in 1 .. Len(s)
        BY <1>9, <2>1, <3>2
      <4> QED
        BY <1>12, <2>3, <3>1, <4>1
    <3>3. CASE j = n + 1
      BY <1>1, <1>7, <2>2, <2>4, <2>5, <3>1, <3>3
    <3>4. CASE j > n + 1
      <4>1. t[j] = s[j - 1] /\ j - 1 \in 1 .. Len(s) /\ i < j - 1
        BY <1>9, <2>1, <2>5, <3>4
      <4> QED
        BY <2>3, <3>1, <4>1
    <3> QED
      BY <2>1, <3>2, <3>3, <3>4
  <2>6. CASE i = n + 1
    <3>1. t[j] = s[j - 1] /\ j - 1 \in 1 .. Len(s) /\ ~(j - 1 <= n) /\ t[i] = u
      BY <1>7, <1>9, <1>12, <2>1, <2>6
    <3> QED
      BY <1>1, <2>2, <2>4, <3>1
  <2>7. CASE i > n + 1
    <3>1. /\ t[j] = s[j - 1] /\ j - 1 \in 1 .. Len(s)
          /\ t[i] = s[i - 1] /\ i - 1 \in 1 .. Len(s) /\ i - 1 < j - 1
      BY <1>9, <1>12, <2>1, <2>7
    <3> QED
      BY <2>3, <3>1
  <2> QED
    BY <2>1, <2>5, <2>6, <2>7
<1>13. ASSUME NEW e \in Djuru, e # d, NEW i \in DOMAIN open[e]
       PROVE  open[e][i] \in DOMAIN upvalue /\ upvalue'[open[e][i]] = upvalue[open[e][i]]
  BY <1>4, ListShape
<1>14. ASSUME NEW e \in Djuru
       PROVE  /\ \A i \in DOMAIN open'[e] :
                    /\ upvalue'[open'[e][i]].djuru = e
                    /\ upvalue'[open'[e][i]].slot \in DOMAIN stack'[e]
              /\ \A i, j \in DOMAIN open'[e] :
                    i < j => upvalue'[open'[e][j]].slot < upvalue'[open'[e][i]].slot
  <2>1. CASE e = d
    <3>1. DOMAIN stack'[d] = 1 .. Len(stack[d])
      BY ListShape
    <3> QED
      BY <1>11, <1>12, <2>1, <3>1 DEF t
  <2>2. CASE e # d
    BY <1>0, <1>5, <1>13, <2>2 DEF OpenInv
  <2> QED
    BY <2>1, <2>2
<1>15. ASSUME NEW w \in DOMAIN upvalue', upvalue'[w].slot # Closed
       PROVE  \E i \in DOMAIN open'[upvalue'[w].djuru] : open'[upvalue'[w].djuru][i] = w
  <2>1. CASE w = u
    <3>1. upvalue'[w].djuru = d /\ n + 1 \in DOMAIN t /\ t[n + 1] = u
      BY <1>1, <1>2, <1>4, <1>7, <2>1
    <3> QED
      BY <2>1, <3>1 DEF t
  <2>2. CASE w \in DOMAIN upvalue /\ upvalue[w].djuru = d
    <3>1. upvalue'[w].djuru = d /\ upvalue[w].slot # Closed
      BY <1>4, <1>15, <2>2
    <3>2. PICK k \in 1 .. Len(s) : s[k] = w
      BY <2>2, <3>1, OpenUpvalue DEF s
    <3>3. \E i \in DOMAIN t : t[i] = w
      <4>1. n \in Nat /\ n <= Len(s) /\ Len(s) \in Nat
        BY <1>1, <1>2
      <4>2. CASE k <= n
        BY <1>7, <3>2, <4>1, <4>2
      <4>3. CASE k > n
        <5>1. k + 1 \in n + 2 .. Len(s) + 1 /\ (k + 1) - 1 = k /\ k + 1 \in DOMAIN t
          BY <1>7, <4>1, <4>3
        <5> QED
          BY <1>7, <3>2, <5>1
      <4> QED
        BY <4>1, <4>2, <4>3
    <3> QED
      BY <3>1, <3>3 DEF t
  <2>3. CASE w \in DOMAIN upvalue /\ upvalue[w].djuru # d
    <3>1. upvalue'[w].djuru = upvalue[w].djuru /\ upvalue[w].slot # Closed /\ upvalue[w].djuru \in Djuru
      BY <1>4, <1>15, <2>3, OpenUpvalue
    <3>2. open'[upvalue[w].djuru] = open[upvalue[w].djuru]
      BY <1>5, <2>3, <3>1
    <3>3. \E i \in DOMAIN open[upvalue[w].djuru] : open[upvalue[w].djuru][i] = w
      BY <1>0, <2>3, <3>1 DEF OpenInv
    <3> QED
      BY <3>1, <3>2, <3>3
  <2> QED
    BY <1>8, <2>1, <2>2, <2>3
<1>16. OpenInv'
  BY <1>14, <1>15 DEF OpenInv
<1>17. open' = [open EXCEPT ![d] = t]
  BY <1>3, <1>6
<1> QED
  BY <1>3, <1>4, <1>7, <1>8, <1>16, <1>17 DEF t, u

\* A capture: the slot's own upvalue serves the variable of the slot.
LEMMA CaptureKeepsVariables ==
  ASSUME ClosureInv, NEW slot, captureUpvalue(slot)
  PROVE  VariablesInv'
<1> PICK x : x = name[cur][slot]
  OBVIOUS
<1>0. TypeOK /\ BindInv /\ OneUpvaluePerVariable /\ NameInv
  BY DEF ClosureInv
<1>1. /\ cur \in Djuru /\ closure # <<>>
      /\ slot \in DOMAIN stack[cur] /\ x # 0 /\ slot \in DOMAIN name[cur]
  <2>1. cur \in Djuru /\ closure # <<>>
    BY DEF ClosureInv, CaptureInv, captureUpvalue, TypeOK
  <2>2. frames[cur] # <<>> /\ Frame(cur).start \in Nat \ {0}
    <3>1. frames[cur] # <<>>
      BY <2>1, ClosuresAssumption DEF ClosureInv, RegisterFresh
    <3> QED
      BY <1>0, <2>1, <3>1, Shapes DEF Frame
  <2>3. slot \in Frame(cur).start .. Len(stack[cur]) /\ x # 0
    BY DEF captureUpvalue, TopSlot
  <2> QED
    BY <1>0, <2>1, <2>2, <2>3, Shapes
<1>2. UNCHANGED <<stack, name, content>>
  BY DEF captureUpvalue, stackVars
<1>3. NameInv' /\ LocalsKept' /\ TemporariesNull'
  BY <1>2 DEF ClosureInv, NameInv, LocalsKept, TemporariesNull
<1>4. ASSUME NEW w \in DOMAIN upvalue, NEW y \in DOMAIN content, Serves(w, y)
      PROVE  y = x <=> upvalue[w].slot # Closed /\ upvalue[w].djuru = cur /\ upvalue[w].slot = slot
  BY <1>1, <1>4, BoundToSlot
<1>5. CASE \E u \in Existing(cur, slot) : Bind(u, x) /\ UNCHANGED <<open, upvalue>>
  <2>1. PICK u \in Existing(cur, slot) : Bind(u, x) /\ UNCHANGED <<open, upvalue>>
    BY <1>5
  <2>2. u \in DOMAIN upvalue /\ upvalue[u].slot = slot /\ upvalue[u].djuru = cur /\ slot # Closed
    <3>1. u \in DOMAIN upvalue /\ upvalue[u].slot = slot /\ \E i \in 1 .. Len(open[cur]) : open[cur][i] = u
      <4>1. slot \in Nat
        BY <1>0, <1>1, Shapes
      <4> QED
        BY <1>1, <4>1, CaptureFinds, ListShape
    <3> QED
      BY <1>1, <3>1, ListShape
  <2>3. Serves(u, x)'
    BY <1>2, <2>1, <2>2 DEF Serves
  <2>4. ASSUME NEW w \in DOMAIN upvalue, NEW y \in DOMAIN content, Serves(w, y)
        PROVE  Serves(w, y)' /\ (w = u <=> y = x)
    <3>1. Serves(w, y)'
      BY <1>2, <2>1, <2>4 DEF Serves
    <3>2. w = u <=> upvalue[w].slot # Closed /\ upvalue[w].djuru = cur /\ upvalue[w].slot = slot
      BY <2>2, OneOpenUpvaluePerSlot
    <3> QED
      BY <1>4, <2>4, <3>1, <3>2
  <2>5. BindInv' /\ OneUpvaluePerVariable'
    BY <1>0, <1>1, <2>1, <2>3, <2>4, BindKeepsBindings
  <2>6. OpenInv'
    BY <1>2, <2>1 DEF ClosureInv, OpenInv
  <2> QED
    BY <1>3, <2>5, <2>6 DEF VariablesInv
<1>6. CASE Existing(cur, slot) = {} /\ NewUpvalue(cur, slot) /\ Bind(Len(upvalue) + 1, x)
  <2> PICK u : u = Len(upvalue) + 1
    OBVIOUS
  <2>1. /\ OpenInv'
        /\ upvalue'[u] = [djuru |-> cur, slot |-> slot, closed |-> NULL_VAL]
        /\ \A w \in DOMAIN upvalue : w # u /\ upvalue'[w] = upvalue[w]
    BY <1>1, <1>2, <1>6, NewUpvalueKeepsOpen
  <2>2. slot \in Nat /\ slot # Closed
    <3>1. DOMAIN stack[cur] = 1 .. Len(stack[cur]) /\ Len(stack[cur]) \in Nat
      BY <1>0, <1>1, Shapes
    <3>2. slot \in Nat
      BY <1>1, <3>1
    <3> QED
      BY <3>2, ClosuresAssumption
  <2>3. Serves(u, x)'
    BY <1>2, <2>1, <2>2 DEF Serves
  <2>4. ASSUME NEW w \in DOMAIN upvalue, NEW y \in DOMAIN content, Serves(w, y)
        PROVE  Serves(w, y)' /\ (w = u <=> y = x)
    <3>1. Serves(w, y)' /\ w # u
      BY <1>2, <2>1, <2>4 DEF Serves
    <3>2. ~(upvalue[w].slot # Closed /\ upvalue[w].djuru = cur /\ upvalue[w].slot = slot)
      <4>1. SUFFICES ASSUME upvalue[w].slot # Closed, upvalue[w].djuru = cur, upvalue[w].slot = slot
                     PROVE  FALSE
        OBVIOUS
      <4>2. PICK i \in 1 .. Len(open[cur]) : open[cur][i] = w
        BY <4>1, OpenUpvalue
      <4>3. \A k \in 1 .. Len(open[cur]) :
              upvalue[open[cur][k]].slot = slot => open[cur][k] \in Existing(cur, slot)
        BY <1>1, <2>2, CaptureFinds, ListShape
      <4> QED
        BY <1>6, <4>1, <4>2, <4>3
    <3> QED
      BY <1>4, <2>4, <3>1, <3>2
  <2>5. BindInv' /\ OneUpvaluePerVariable'
    BY <1>0, <1>1, <1>6, <2>3, <2>4, BindKeepsBindings
  <2> QED
    BY <1>3, <2>1, <2>5 DEF VariablesInv
<1> QED
  BY <1>5, <1>6 DEF captureUpvalue

\* The upvalues of the function that runs.
LEMMA RunningFunction ==
  ASSUME ClosureInv, cur \in Djuru, frames[cur] # <<>>, NEW f, f = Frame(cur).fn, f # 0,
         NEW j \in DOMAIN closure[f].upvalues, NEW u, NEW x,
         u = closure[f].upvalues[j], x = closure[f].bound[j]
  PROVE  /\ u \in DOMAIN upvalue /\ x \in DOMAIN content
         /\ Binds(u, x) /\ Serves(u, x)
<1>0. TypeOK /\ BindInv
  BY DEF ClosureInv
<1>1. f \in DOMAIN closure
  <2>1. Len(frames[cur]) \in 1 .. Len(frames[cur])
    BY <1>0, Shapes
  <2>2. frames[cur][Len(frames[cur])].fn \in Functions
    BY <1>0, <2>1, Shapes
  <2> QED
    BY <1>0, <2>2, Shapes DEF Frame, Functions
<1>2. closure[f].upvalues \in Seq(DOMAIN upvalue) /\ closure[f].bound \in Seq(DOMAIN content)
  BY <1>0, <1>1, Shapes DEF Closure
<1>3. DOMAIN closure[f].bound = DOMAIN closure[f].upvalues /\ Serves(u, x)
  BY <1>0, <1>1 DEF BindInv
<1> QED
  BY <1>1, <1>2, <1>3 DEF Binds

\* A capture of what the running function has captured: the upvalue is shared.
LEMMA ShareKeepsVariables ==
  ASSUME ClosureInv, NEW j, ShareUpvalue(j)
  PROVE  VariablesInv'
<1>0. TypeOK /\ BindInv /\ OneUpvaluePerVariable
  BY DEF ClosureInv
<1>1. cur \in Djuru /\ closure # <<>> /\ frames[cur] # <<>>
  BY ClosuresAssumption DEF ClosureInv, CaptureInv, RegisterFresh, ShareUpvalue, TypeOK
<1>2. PICK f, u, x : f = Frame(cur).fn /\ u = closure[f].upvalues[j] /\ x = closure[f].bound[j]
  OBVIOUS
<1>3. /\ Bind(u, x) /\ UNCHANGED <<stack, name, open, upvalue, content>>
      /\ f # 0 /\ j \in DOMAIN closure[f].upvalues
  BY <1>2 DEF ShareUpvalue, stackVars
<1>4. Binds(u, x) /\ Serves(u, x)
  BY <1>1, <1>2, <1>3, RunningFunction
<1>5. \A w, y : Serves(w, y) => Serves(w, y)'
  BY <1>3 DEF Serves
<1>6. ASSUME NEW w, NEW y, Binds(w, y) PROVE w = u <=> y = x
  BY <1>0, <1>4, <1>6 DEF Binds, OneUpvaluePerVariable
<1>7. BindInv' /\ OneUpvaluePerVariable'
  BY <1>0, <1>1, <1>3, <1>4, <1>5, <1>6, BindKeepsBindings
<1> QED
  BY <1>3, <1>7 DEF VariablesInv, ClosureInv, NameInv, LocalsKept, TemporariesNull, OpenInv

------------------------------------------------------------------------------
(* Types and call frames, step by step.                                     *)

LEMMA SeqGrows ==
  ASSUME NEW S, NEW T, S \subseteq T, NEW s \in Seq(S)
  PROVE  s \in Seq(T)
OBVIOUS

LEMMA WriteShape ==
  ASSUME NEW S, NEW s \in Seq(S), NEW v \in S, NEW i
  PROVE  [s EXCEPT ![i] = v] \in Seq(S) /\ DOMAIN [s EXCEPT ![i] = v] = DOMAIN s
<1>1. CASE i \in DOMAIN s
  BY <1>1
<1>2. CASE i \notin DOMAIN s
  <2>1. [s EXCEPT ![i] = v] = s
    BY <1>2
  <2> QED
    BY <2>1
<1> QED
  BY <1>1, <1>2

\* TypeOK after a step, from what it does to each variable.
LEMMA TypesKept ==
  ASSUME TypeOK,
         cur' \in Djuru \union {None}, start' \in (Nat \ {0}) \union {Freed},
         memory' \in [Djuru -> {"none", "live", "freed"}],
         stack' \in [Djuru -> Seq(Value)], name' \in [Djuru -> Seq(Nat)],
         \A d \in Djuru : Len(name'[d]) = Len(stack'[d]),
         frames' \in [Djuru -> Seq(CallFrame)],
         open' \in [Djuru -> Seq(DOMAIN upvalue')], upvalue' \in Seq(Upvalue),
         closure' \in Seq(Closure'), Len(closure) <= Len(closure'),
         left' \in Nat, content' \in Seq(Value)
  PROVE  TypeOK'
<1>1. CallFrame \subseteq CallFrame'
  <2>1. Functions \subseteq Functions'
    <3>1. Len(closure) \in Nat /\ Len(closure') \in Nat
      BY Shapes
    <3> QED
      BY <3>1 DEF Functions
  <2> QED
    BY <2>1 DEF CallFrame
<1>2. \A d \in Djuru : frames'[d] \in Seq(CallFrame')
  BY <1>1, SeqGrows
<1>3. frames' \in [Djuru -> Seq(CallFrame')]
  BY <1>2
<1>4. frames' \in [Djuru -> Seq([start : Nat \ {0}, fn : Functions'])]
  BY <1>3 DEF CallFrame
<1> QED
  BY <1>4 DEF TypeOK, Upvalue, Closure

\* Closures keep their types while upvalues and variables are only added.
LEMMA ClosureTypesKept ==
  ASSUME TypeOK, closure' = closure \/ closure' = Append(closure, EmptyClosure),
         DOMAIN upvalue \subseteq DOMAIN upvalue', DOMAIN content \subseteq DOMAIN content'
  PROVE  closure' \in Seq(Closure') /\ Len(closure) <= Len(closure')
<1>1. closure \in Seq(Closure)
  BY DEF TypeOK, Closure
<1>2. Closure \subseteq Closure'
  <2>1. ASSUME NEW c \in Closure PROVE c \in Closure'
    <3>1. c.upvalues \in Seq(DOMAIN upvalue) /\ c.bound \in Seq(DOMAIN content)
      BY DEF Closure
    <3>2. c.upvalues \in Seq(DOMAIN upvalue') /\ c.bound \in Seq(DOMAIN content')
      BY <3>1, SeqGrows
    <3>3. c = [upvalues |-> c.upvalues, bound |-> c.bound]
      BY DEF Closure
    <3> QED
      BY <3>2, <3>3 DEF Closure
  <2> QED
    BY <2>1
<1>3. closure \in Seq(Closure')
  BY <1>1, <1>2, SeqGrows
<1>4. EmptyClosure \in Closure'
  BY DEF EmptyClosure, Closure
<1> QED
  BY <1>1, <1>3, <1>4

\* What FrameInv says of one djuru.
FramesOf(d) ==
  /\ memory[d] # "live" => frames[d] = <<>>
  /\ frames[d] = <<>> => stack[d] = <<>>
  /\ frames[d] # <<>> => frames[d][1].start = 1
  /\ \A i \in DOMAIN frames[d] : frames[d][i].start <= Len(stack[d])
  /\ \A i, j \in DOMAIN frames[d] :
       i < j => frames[d][i].start < frames[d][j].start

LEMMA FrameInvOf ==
  FrameInv <=> \A d \in Djuru : FramesOf(d)
BY DEF FrameInv, FramesOf

\* A djuru whose frames a step leaves alone, and whose stack it does not cut
\* below the start of the last frame.
LEMMA FramesKept ==
  ASSUME ClosureInv, NEW d \in Djuru,
         frames'[d] = frames[d], memory'[d] = memory[d],
         \/ stack'[d] = stack[d]
         \/ /\ frames[d] # <<>> /\ Len(stack'[d]) \in Nat
            /\ Frame(d).start <= Len(stack'[d])
  PROVE  FramesOf(d)'
<1>1. TypeOK /\ FramesOf(d)
  BY FrameInvOf DEF ClosureInv
<1>2. CASE stack'[d] = stack[d]
  BY <1>1, <1>2 DEF FramesOf
<1>3. CASE frames[d] # <<>> /\ Len(stack'[d]) \in Nat /\ Frame(d).start <= Len(stack'[d])
  <2>1. /\ Len(frames[d]) \in DOMAIN frames[d] /\ Len(stack'[d]) \in Nat
        /\ \A i \in DOMAIN frames[d] : i \in 1 .. Len(frames[d]) /\ frames[d][i].start \in Nat
    BY <1>1, <1>3, Shapes
  <2>2. ASSUME NEW i \in DOMAIN frames[d] PROVE frames[d][i].start <= Len(stack'[d])
    <3>1. frames[d][i].start <= Frame(d).start
      BY <1>1, <2>1 DEF FramesOf, Frame
    <3> QED
      BY <1>3, <2>1, <3>1 DEF Frame
  <2> QED
    BY <1>1, <1>3, <2>2 DEF FramesOf
<1> QED
  BY <1>2, <1>3

\* The djuru that runs, between two instructions.
LEMMA RunningDjuru ==
  ASSUME ClosureInv, Running
  PROVE  /\ cur \in Djuru /\ frames[cur] # <<>> /\ memory[cur] = "live" /\ left = 0
         /\ start = Frame(cur).start /\ start \in Nat \ {0} /\ start <= Len(stack[cur])
         /\ Len(stack[cur]) \in Nat /\ stack[cur] # <<>>
         /\ Len(frames[cur]) \in Nat \ {0} /\ DOMAIN frames[cur] = 1 .. Len(frames[cur])
         /\ DOMAIN stack[cur] = 1 .. Len(stack[cur]) /\ DOMAIN name[cur] = 1 .. Len(stack[cur])
<1>1. TypeOK /\ cur \in Djuru /\ left = 0
  BY DEF ClosureInv, TypeOK, Running
<1>2. frames[cur] # <<>> /\ start = Frame(cur).start
  BY DEF Running, ClosureInv, RegisterFresh
<1>3. FramesOf(cur)
  BY <1>1, FrameInvOf DEF ClosureInv
<1>4. memory[cur] = "live"
  BY <1>2, <1>3 DEF FramesOf
<1>5. /\ Len(frames[cur]) \in Nat \ {0} /\ DOMAIN frames[cur] = 1 .. Len(frames[cur])
      /\ Len(stack[cur]) \in Nat /\ start \in Nat \ {0}
      /\ DOMAIN stack[cur] = 1 .. Len(stack[cur]) /\ DOMAIN name[cur] = 1 .. Len(stack[cur])
  BY <1>1, <1>2, Shapes DEF Frame
<1>6. start <= Len(stack[cur])
  BY <1>2, <1>3, <1>5 DEF FramesOf, Frame
<1>7. stack[cur] # <<>>
  BY <1>1, <1>5, <1>6, Shapes
<1> QED
  BY <1>1, <1>2, <1>4, <1>5, <1>6, <1>7

\* What WaitingInv says of one djuru.
WaitingOf(d) == frames[d] # <<>> /\ TopSlot(d) > 1 => name[d][TopSlot(d)] = 0

\* The parts of ClosureInv after a step, put together.
LEMMA PartsHold ==
  ASSUME TypeOK', VariablesInv', \A d \in Djuru : FramesOf(d)', RegisterFresh', CaptureInv',
         \A d \in Djuru : d # cur' => WaitingOf(d)'
  PROVE  ClosureInv'
<1>1. FrameInv'
  BY DEF FrameInv, FramesOf
<1>2. WaitingInv'
  BY DEF WaitingInv, WaitingOf
<1> QED
  BY <1>1, <1>2 DEF ClosureInv, VariablesInv

LEMMA WaitingKept ==
  ASSUME ClosureInv, NEW d \in Djuru, d # cur,
         frames'[d] = frames[d], name'[d] = name[d], Len(stack'[d]) = Len(stack[d])
  PROVE  WaitingOf(d)'
BY DEF ClosureInv, WaitingInv, WaitingOf, TopSlot

------------------------------------------------------------------------------
(* The steps.                                                               *)

\* PushTemporary, DeclareLocal and MakeClosure push on the stack that runs.
LEMMA PushKeepsInv ==
  ASSUME ClosureInv, Running, NEW v \in Value, NEW x \in Nat,
         stack' = [stack EXCEPT ![cur] = Append(@, v)],
         name' = [name EXCEPT ![cur] = Append(@, x)],
         \/ x = 0 /\ v = NULL_VAL /\ content' = content
         \/ x = NewVariable /\ content' = Append(content, v),
         UNCHANGED <<open, upvalue>>,
         closure' = closure \/ closure' = Append(closure, EmptyClosure),
         UNCHANGED <<cur, start, memory, frames>>,
         left' \in Nat, left' > 0 => closure' # <<>>
  PROVE  ClosureInv'
<1>0. /\ TypeOK /\ cur \in Djuru /\ frames[cur] # <<>> /\ start = Frame(cur).start
      /\ start \in Nat /\ start <= Len(stack[cur]) /\ Len(stack[cur]) \in Nat
  BY RunningDjuru DEF ClosureInv
<1>1. VariablesInv'
  BY <1>0, PushKeepsVariables
<1>2. /\ stack \in [Djuru -> Seq(Value)] /\ name \in [Djuru -> Seq(Nat)] /\ content \in Seq(Value)
      /\ \A d \in Djuru : Len(name[d]) = Len(stack[d])
  BY <1>0 DEF TypeOK
<1>3. stack' \in [Djuru -> Seq(Value)] /\ name' \in [Djuru -> Seq(Nat)] /\ content' \in Seq(Value)
  <2>1. Append(stack[cur], v) \in Seq(Value) /\ Append(name[cur], x) \in Seq(Nat) /\ Append(content, v) \in Seq(Value)
    BY <1>0, <1>2
  <2>2. stack' \in [Djuru -> Seq(Value)]
    BY <1>0, <1>2, <2>1
  <2>3. name' \in [Djuru -> Seq(Nat)]
    BY <1>0, <1>2, <2>1
  <2>4. content' \in Seq(Value)
    BY <1>2, <2>1
  <2> QED
    BY <2>2, <2>3, <2>4
<1>4. /\ \A d \in Djuru : Len(name'[d]) = Len(stack'[d])
      /\ \A d \in Djuru : d # cur => stack'[d] = stack[d] /\ name'[d] = name[d]
      /\ Len(stack'[cur]) = Len(stack[cur]) + 1
  BY <1>0, <1>2
<1>5. TypeOK'
  <2>1. DOMAIN upvalue \subseteq DOMAIN upvalue' /\ DOMAIN content \subseteq DOMAIN content'
    BY <1>2
  <2>2. closure' \in Seq(Closure') /\ Len(closure) <= Len(closure')
    BY <1>0, <2>1, ClosureTypesKept
  <2>3. /\ cur' \in Djuru \union {None} /\ start' \in (Nat \ {0}) \union {Freed}
        /\ memory' \in [Djuru -> {"none", "live", "freed"}] /\ frames' \in [Djuru -> Seq(CallFrame)]
        /\ open' \in [Djuru -> Seq(DOMAIN upvalue')] /\ upvalue' \in Seq(Upvalue)
    BY <1>0 DEF TypeOK, CallFrame, Upvalue
  <2> QED
    BY <1>0, <1>3, <1>4, <2>2, <2>3, TypesKept
<1>6. ASSUME NEW d \in Djuru PROVE FramesOf(d)'
  <2>1. CASE d = cur
    <3>1. Len(stack'[cur]) \in Nat /\ Frame(cur).start <= Len(stack'[cur])
      BY <1>0, <1>4
    <3> QED
      BY <1>0, <2>1, <3>1, FramesKept
  <2>2. CASE d # cur
    BY <1>4, <2>2, FramesKept
  <2> QED
    BY <2>1, <2>2
<1>7. RegisterFresh' /\ CaptureInv'
  BY <1>0 DEF Running, ClosureInv, RegisterFresh, CaptureInv, Frame
<1>8. ASSUME NEW d \in Djuru, d # cur' PROVE WaitingOf(d)'
  BY <1>4, <1>8, WaitingKept
<1> QED
  BY <1>1, <1>5, <1>6, <1>7, <1>8, PartsHold

LEMMA PushTemporaryKeeps == ASSUME ClosureInv, PushTemporary PROVE ClosureInv'
<1>1. NULL_VAL \in Value /\ TypeOK
  BY ClosuresAssumption DEF ClosureInv
<1>2. left' \in Nat /\ ~(left' > 0)
  BY <1>1 DEF PushTemporary, Running, upvalueVars
<1> QED
  BY <1>1, <1>2, PushKeepsInv DEF PushTemporary, upvalueVars

LEMMA DeclareLocalKeeps ==
  ASSUME ClosureInv, NEW v \in Value, DeclareLocal(v) PROVE ClosureInv'
<1>1. TypeOK
  BY DEF ClosureInv
<1>2. left' \in Nat /\ ~(left' > 0)
  BY <1>1 DEF DeclareLocal, Running, upvalueVars
<1>3. NewVariable \in Nat
  BY <1>1, Shapes DEF NewVariable
<1> QED
  BY <1>2, <1>3, PushKeepsInv DEF DeclareLocal, Declare, upvalueVars

LEMMA MakeClosureKeeps ==
  ASSUME ClosureInv, NEW n \in Nat, MakeClosure(n) PROVE ClosureInv'
<1>1. NULL_VAL \in Value /\ TypeOK
  BY ClosuresAssumption DEF ClosureInv
<1>2. closure' = Append(closure, EmptyClosure) /\ closure \in Seq(Closure) /\ EmptyClosure \in Closure
  BY <1>1 DEF MakeClosure, EmptyClosure, TypeOK, Closure
<1>3. closure' # <<>>
  BY <1>2
<1> QED
  BY <1>1, <1>2, <1>3, PushKeepsInv DEF MakeClosure

\* What closeUpvalues does to the types.
LEMMA CloseTypes ==
  ASSUME ClosureInv, NEW d \in Djuru, NEW last \in Nat, closeUpvalues(d, last)
  PROVE  /\ open' \in [Djuru -> Seq(DOMAIN upvalue')]
         /\ upvalue' \in Seq(Upvalue) /\ DOMAIN upvalue' = DOMAIN upvalue
<1> DEFINE n == Closing(d, last)
<1>0. /\ TypeOK /\ open \in [Djuru -> Seq(DOMAIN upvalue)] /\ open[d] \in Seq(DOMAIN upvalue)
      /\ Len(upvalue) \in Nat /\ DOMAIN upvalue = 1 .. Len(upvalue)
  BY Shapes DEF ClosureInv, TypeOK
<1>1. /\ DOMAIN upvalue' = DOMAIN upvalue
      /\ \A u \in DOMAIN upvalue :
           IF upvalue[u].slot # Closed /\ upvalue[u].djuru = d /\ upvalue[u].slot >= last
           THEN upvalue'[u] = [upvalue[u] EXCEPT !.slot = Closed,
                                                 !.closed = stack[d][upvalue[u].slot]]
           ELSE upvalue'[u] = upvalue[u]
      /\ n \in 0 .. Len(open[d])
      /\ open' = [open EXCEPT ![d] = SubSeq(@, n + 1, Len(@))]
  BY ClosesFromLast
<1> HIDE DEF n
<1>2. SubSeq(open[d], n + 1, Len(open[d])) \in Seq(DOMAIN upvalue)
  BY <1>0, <1>1, TailShape
<1>3. open' \in [Djuru -> Seq(DOMAIN upvalue')]
  BY <1>0, <1>1, <1>2
<1>4. ASSUME NEW u \in DOMAIN upvalue PROVE upvalue'[u] \in Upvalue
  <2>1. upvalue[u] \in Upvalue
    BY <1>0, Shapes
  <2>2. CASE upvalue[u].slot # Closed /\ upvalue[u].djuru = d /\ upvalue[u].slot >= last
    <3>1. stack[d][upvalue[u].slot] \in Value
      BY <1>0, <2>2, OpenUpvalue, Shapes
    <3>2. upvalue'[u] = [upvalue[u] EXCEPT !.slot = Closed, !.closed = stack[d][upvalue[u].slot]]
      BY <1>1, <2>2
    <3> QED
      BY <2>1, <3>1, <3>2 DEF Upvalue, Pointer
  <2>3. CASE ~(upvalue[u].slot # Closed /\ upvalue[u].djuru = d /\ upvalue[u].slot >= last)
    BY <1>1, <2>1, <2>3
  <2> QED
    BY <2>2, <2>3
<1>5. upvalue' = [u \in 1 .. Len(upvalue) |-> upvalue'[u]]
  BY <1>0 DEF closeUpvalues
<1>6. upvalue' \in Seq(Upvalue)
  <2>1. [u \in 1 .. Len(upvalue) |-> upvalue'[u]] \in Seq(Upvalue)
    BY <1>0, <1>4
  <2> QED
    BY <1>5, <2>1
<1> QED
  BY <1>1, <1>3, <1>6

\* A step that writes slots or upvalues where they are.
LEMMA WriteKeepsInv ==
  ASSUME ClosureInv, VariablesInv', UNCHANGED <<cur, start, memory, name, frames, open, closure, left>>,
         stack' \in [Djuru -> Seq(Value)], \A d \in Djuru : Len(stack'[d]) = Len(stack[d]),
         upvalue' \in Seq(Upvalue), DOMAIN upvalue' = DOMAIN upvalue,
         content' \in Seq(Value), DOMAIN content' = DOMAIN content
  PROVE  ClosureInv'
<1>0. TypeOK
  BY DEF ClosureInv
<1>1. closure' \in Seq(Closure') /\ Len(closure) <= Len(closure')
  BY <1>0, ClosureTypesKept
<1>2. /\ cur' \in Djuru \union {None} /\ start' \in (Nat \ {0}) \union {Freed}
      /\ memory' \in [Djuru -> {"none", "live", "freed"}] /\ frames' \in [Djuru -> Seq(CallFrame)]
      /\ name' \in [Djuru -> Seq(Nat)] /\ left' \in Nat
      /\ open' \in [Djuru -> Seq(DOMAIN upvalue')] /\ \A d \in Djuru : Len(name'[d]) = Len(stack'[d])
  BY <1>0 DEF TypeOK, CallFrame
<1>3. TypeOK'
  BY <1>0, <1>1, <1>2, TypesKept
<1>4. ASSUME NEW d \in Djuru PROVE FramesOf(d)'
  <2>1. stack'[d] \in Seq(Value) /\ Len(stack[d]) \in Nat /\ FramesOf(d)
    BY <1>0, Shapes, FrameInvOf DEF ClosureInv
  <2>2. CASE frames[d] = <<>>
    <3>1. stack[d] = <<>>
      BY <2>1, <2>2 DEF FramesOf
    <3>2. Len(stack'[d]) = 0
      BY <3>1
    <3>3. stack'[d] = <<>>
      BY <2>1, <3>2, SeqShape
    <3> QED
      BY <3>1, <3>3, FramesKept
  <2>3. CASE frames[d] # <<>>
    <3>1. Len(frames[d]) \in DOMAIN frames[d]
      BY <1>0, <2>3, Shapes
    <3>2. Frame(d).start <= Len(stack'[d]) /\ Len(stack'[d]) \in Nat
      BY <2>1, <3>1 DEF FramesOf, Frame
    <3> QED
      BY <2>3, <3>2, FramesKept
  <2> QED
    BY <2>2, <2>3
<1>5. RegisterFresh' /\ CaptureInv'
  BY DEF ClosureInv, RegisterFresh, CaptureInv, Frame
<1>6. ASSUME NEW d \in Djuru, d # cur' PROVE WaitingOf(d)'
  BY <1>6, WaitingKept
<1> QED
  BY <1>3, <1>4, <1>5, <1>6, PartsHold

LEMMA StoreLocalKeeps ==
  ASSUME ClosureInv, NEW slot, NEW v \in Value, StoreLocal(slot, v) PROVE ClosureInv'
<1>0. /\ TypeOK /\ Running /\ slot \in start .. TopSlot(cur) /\ name[cur][slot] # 0
      /\ stack' = [stack EXCEPT ![cur][slot] = v]
      /\ content' = [content EXCEPT ![name[cur][slot]] = v]
      /\ UNCHANGED <<cur, start, memory, name, frames, open, upvalue, closure, left>>
  BY DEF ClosureInv, StoreLocal, upvalueVars
<1>1. cur \in Djuru /\ slot \in DOMAIN stack[cur]
  BY <1>0, RunningDjuru DEF TopSlot
<1>2. VariablesInv'
  BY <1>0, <1>1, WriteSlotKeepsVariables
<1>3. /\ stack \in [Djuru -> Seq(Value)] /\ content \in Seq(Value) /\ upvalue \in Seq(Upvalue)
  BY <1>0 DEF TypeOK, Upvalue
<1>4. /\ [stack[cur] EXCEPT ![slot] = v] \in Seq(Value)
      /\ Len([stack[cur] EXCEPT ![slot] = v]) = Len(stack[cur])
  BY <1>1, <1>3
<1>5. stack' = [stack EXCEPT ![cur] = [stack[cur] EXCEPT ![slot] = v]]
  BY <1>0
<1>6. stack' \in [Djuru -> Seq(Value)] /\ \A d \in Djuru : Len(stack'[d]) = Len(stack[d])
  BY <1>1, <1>3, <1>4, <1>5
<1>7. content' \in Seq(Value) /\ DOMAIN content' = DOMAIN content
  BY <1>0, <1>3, WriteShape
<1> QED
  BY <1>0, <1>2, <1>3, <1>6, <1>7, WriteKeepsInv

LEMMA StoreUpvalueKeeps ==
  ASSUME ClosureInv, NEW j, NEW v \in Value, StoreUpvalue(j, v) PROVE ClosureInv'
<1>0. TypeOK /\ Running
  BY DEF ClosureInv, StoreUpvalue
<1>1. cur \in Djuru /\ frames[cur] # <<>>
  BY <1>0, RunningDjuru
<1>2. PICK f, u, x : f = Frame(cur).fn /\ u = closure[f].upvalues[j] /\ x = closure[f].bound[j]
  OBVIOUS
<1>3. /\ Valid(u) /\ content' = [content EXCEPT ![x] = v]
      /\ f # 0 /\ j \in DOMAIN closure[f].upvalues
      /\ UNCHANGED <<cur, start, memory, name, frames, open, closure, left>>
      /\ \/ /\ upvalue[u].slot = Closed
            /\ upvalue' = [upvalue EXCEPT ![u].closed = v]
            /\ UNCHANGED stack
         \/ /\ upvalue[u].slot # Closed
            /\ stack' = [stack EXCEPT ![upvalue[u].djuru][upvalue[u].slot] = v]
            /\ UNCHANGED upvalue
  BY <1>2 DEF StoreUpvalue
<1>4. Binds(u, x) /\ Serves(u, x) /\ u \in DOMAIN upvalue /\ x \in DOMAIN content
  BY <1>1, <1>2, <1>3, RunningFunction
<1>5. /\ stack \in [Djuru -> Seq(Value)] /\ content \in Seq(Value) /\ upvalue \in Seq(Upvalue)
  BY <1>0 DEF TypeOK, Upvalue
<1>6. content' \in Seq(Value) /\ DOMAIN content' = DOMAIN content
  BY <1>3, <1>5, WriteShape
<1>7. CASE upvalue[u].slot = Closed /\ upvalue' = [upvalue EXCEPT ![u].closed = v] /\ UNCHANGED stack
  <2>1. VariablesInv'
    BY <1>3, <1>4, <1>7, WriteClosedKeepsVariables
  <2>2. [upvalue[u] EXCEPT !.closed = v] \in Upvalue
    BY <1>0, <1>4, Shapes DEF Upvalue
  <2>3. upvalue' = [upvalue EXCEPT ![u] = [upvalue[u] EXCEPT !.closed = v]]
    BY <1>7
  <2>4. upvalue' \in Seq(Upvalue) /\ DOMAIN upvalue' = DOMAIN upvalue
    BY <1>4, <1>5, <2>2, <2>3
  <2> QED
    BY <1>3, <1>5, <1>6, <1>7, <2>1, <2>4, WriteKeepsInv
<1>8. CASE upvalue[u].slot # Closed /\ UNCHANGED upvalue
           /\ stack' = [stack EXCEPT ![upvalue[u].djuru][upvalue[u].slot] = v]
  <2> DEFINE d == upvalue[u].djuru
             i == upvalue[u].slot
  <2>1. d \in Djuru /\ i \in DOMAIN stack[d] /\ name[d][i] = x /\ x # 0
    BY <1>0, <1>4, <1>8, OpenUpvalue, Shapes DEF Serves
  <2>2. stack' = [stack EXCEPT ![d] = [stack[d] EXCEPT ![i] = v]]
    BY <1>8
  <2>3. VariablesInv'
    BY <1>3, <1>8, <2>1, WriteSlotKeepsVariables
  <2> HIDE DEF d, i
  <2>4. [stack[d] EXCEPT ![i] = v] \in Seq(Value) /\ Len([stack[d] EXCEPT ![i] = v]) = Len(stack[d])
    BY <1>5, <2>1
  <2>5. stack' \in [Djuru -> Seq(Value)] /\ \A e \in Djuru : Len(stack'[e]) = Len(stack[e])
    BY <1>5, <2>1, <2>2, <2>4
  <2> QED
    BY <1>3, <1>5, <1>6, <1>8, <2>3, <2>5, WriteKeepsInv
<1> QED
  BY <1>3, <1>7, <1>8

\* A closure's new upvalue is of its type.
LEMMA BindTypes ==
  ASSUME TypeOK, NEW u \in DOMAIN upvalue', NEW x \in DOMAIN content', Bind(u, x), closure # <<>>,
         DOMAIN upvalue \subseteq DOMAIN upvalue', DOMAIN content \subseteq DOMAIN content'
  PROVE  closure' \in Seq(Closure') /\ Len(closure) <= Len(closure') /\ closure' # <<>>
<1>1. closure \in Seq(Closure) /\ Len(closure) \in Nat
  BY Shapes DEF TypeOK, Closure
<1>2. Closure \subseteq Closure'
  <2>1. ASSUME NEW c \in Closure PROVE c \in Closure'
    <3>1. c.upvalues \in Seq(DOMAIN upvalue) /\ c.bound \in Seq(DOMAIN content)
      BY DEF Closure
    <3>2. c.upvalues \in Seq(DOMAIN upvalue') /\ c.bound \in Seq(DOMAIN content')
      BY <3>1, SeqGrows
    <3>3. c = [upvalues |-> c.upvalues, bound |-> c.bound]
      BY DEF Closure
    <3> QED
      BY <3>2, <3>3 DEF Closure
  <2> QED
    BY <2>1
<1>3. closure \in Seq(Closure')
  BY <1>1, <1>2, SeqGrows
<1> DEFINE n == Len(closure)
<1>4. n \in DOMAIN closure /\ closure[n] \in Closure'
  BY <1>1, <1>3, SeqShape
<1>5. [upvalues |-> Append(closure[n].upvalues, u), bound |-> Append(closure[n].bound, x)] \in Closure'
  <2>1. closure[n].upvalues \in Seq(DOMAIN upvalue') /\ closure[n].bound \in Seq(DOMAIN content')
    BY <1>4 DEF Closure
  <2>2. Append(closure[n].upvalues, u) \in Seq(DOMAIN upvalue') /\ Append(closure[n].bound, x) \in Seq(DOMAIN content')
    BY <2>1
  <2> QED
    BY <2>2 DEF Closure
<1>6. closure' = [closure EXCEPT ![n] =
                    [upvalues |-> Append(closure[n].upvalues, u), bound |-> Append(closure[n].bound, x)]]
  BY DEF Bind
<1> HIDE DEF n
<1>7. closure' \in Seq(Closure') /\ Len(closure') = Len(closure)
  BY <1>3, <1>4, <1>5, <1>6
<1>8. Len(closure) > 0
  BY <1>1, SeqShape
<1>9. closure' # <<>>
  BY <1>7, <1>8
<1> QED
  BY <1>1, <1>7, <1>9

\* A turn of OP_CLOSURE's loop.
LEMMA CaptureStepKeepsInv ==
  ASSUME ClosureInv, VariablesInv', NEW u \in DOMAIN upvalue', NEW x \in DOMAIN content, Bind(u, x),
         left > 0, UNCHANGED <<cur, start, memory, stack, name, frames, content>>,
         upvalue' \in Seq(Upvalue), DOMAIN upvalue \subseteq DOMAIN upvalue',
         open' \in [Djuru -> Seq(DOMAIN upvalue')]
  PROVE  ClosureInv'
<1>0. TypeOK /\ cur # None /\ closure # <<>>
  BY DEF ClosureInv, CaptureInv
<1>1. closure' \in Seq(Closure') /\ Len(closure) <= Len(closure') /\ closure' # <<>>
  BY <1>0, BindTypes
<1>2. left' \in Nat
  BY <1>0 DEF TypeOK, Bind
<1>3. TypeOK'
  <2>1. /\ cur' \in Djuru \union {None} /\ start' \in (Nat \ {0}) \union {Freed}
        /\ memory' \in [Djuru -> {"none", "live", "freed"}] /\ frames' \in [Djuru -> Seq(CallFrame)]
        /\ stack' \in [Djuru -> Seq(Value)] /\ name' \in [Djuru -> Seq(Nat)]
        /\ content' \in Seq(Value) /\ \A d \in Djuru : Len(name'[d]) = Len(stack'[d])
    BY <1>0 DEF TypeOK, CallFrame
  <2> QED
    BY <1>0, <1>1, <1>2, <2>1, TypesKept
<1>4. \A d \in Djuru : FramesOf(d)'
  BY FramesKept
<1>5. RegisterFresh' /\ CaptureInv'
  BY <1>0, <1>1 DEF ClosureInv, RegisterFresh, CaptureInv, Frame
<1>6. ASSUME NEW d \in Djuru, d # cur' PROVE WaitingOf(d)'
  BY <1>6, WaitingKept
<1> QED
  BY <1>3, <1>4, <1>5, <1>6, PartsHold

LEMMA CaptureUpvalueKeeps ==
  ASSUME ClosureInv, NEW slot, captureUpvalue(slot) PROVE ClosureInv'
<1>0. TypeOK /\ left > 0 /\ UNCHANGED <<cur, start, memory, stack, name, frames, content>>
  BY DEF ClosureInv, captureUpvalue, stackVars
<1>1. cur \in Djuru /\ slot \in DOMAIN stack[cur] /\ name[cur][slot] \in DOMAIN content
  <2>1. cur \in Djuru
    BY <1>0 DEF ClosureInv, CaptureInv, TypeOK
  <2>2. frames[cur] # <<>> /\ Frame(cur).start \in Nat \ {0}
    <3>1. frames[cur] # <<>>
      BY <2>1, ClosuresAssumption DEF ClosureInv, RegisterFresh
    <3> QED
      BY <1>0, <2>1, <3>1, Shapes DEF Frame
  <2>3. slot \in Frame(cur).start .. Len(stack[cur]) /\ name[cur][slot] # 0
    BY DEF captureUpvalue, TopSlot
  <2>4. slot \in 1 .. Len(stack[cur]) /\ DOMAIN name[cur] = 1 .. Len(stack[cur]) /\ DOMAIN stack[cur] = 1 .. Len(stack[cur])
    BY <1>0, <2>1, <2>2, <2>3, Shapes
  <2>5. name[cur][slot] \in Nat /\ name[cur][slot] <= Len(content) /\ DOMAIN content = 1 .. Len(content)
    BY <1>0, <2>1, <2>4, Shapes DEF ClosureInv, NameInv
  <2> QED
    BY <2>1, <2>3, <2>4, <2>5
<1>2. VariablesInv'
  BY CaptureKeepsVariables
<1>3. PICK x : x = name[cur][slot]
  OBVIOUS
<1>4. /\ upvalue \in Seq(Upvalue) /\ open \in [Djuru -> Seq(DOMAIN upvalue)]
      /\ Len(upvalue) \in Nat /\ DOMAIN upvalue = 1 .. Len(upvalue)
  BY <1>0, Shapes DEF TypeOK, Upvalue
<1>5. CASE \E u \in Existing(cur, slot) : Bind(u, x) /\ UNCHANGED <<open, upvalue>>
  <2>1. PICK u \in DOMAIN upvalue : Bind(u, x) /\ UNCHANGED <<open, upvalue>>
    BY <1>5 DEF Existing
  <2> QED
    BY <1>0, <1>1, <1>2, <1>3, <1>4, <2>1, CaptureStepKeepsInv
<1>6. CASE Existing(cur, slot) = {} /\ NewUpvalue(cur, slot) /\ Bind(Len(upvalue) + 1, x)
  <2>1. PICK u : u = Len(upvalue) + 1
    OBVIOUS
  <2>2. /\ upvalue' = Append(upvalue, [djuru |-> cur, slot |-> slot, closed |-> NULL_VAL])
        /\ DOMAIN upvalue' = 1 .. u
        /\ open' = [open EXCEPT ![cur] = open'[cur]]
        /\ open'[cur] \in Seq(DOMAIN upvalue')
    BY <1>0, <1>1, <1>6, <2>1, NewUpvalueKeepsOpen
  <2>3. DOMAIN upvalue \subseteq DOMAIN upvalue' /\ u \in DOMAIN upvalue'
    BY <1>4, <2>1, <2>2
  <2>4. [djuru |-> cur, slot |-> slot, closed |-> NULL_VAL] \in Upvalue
    <3>1. slot \in Nat \ {0} /\ NULL_VAL \in Value
      BY <1>0, <1>1, Shapes, ClosuresAssumption
    <3> QED
      BY <1>1, <3>1 DEF Upvalue, Pointer
  <2>5. upvalue' \in Seq(Upvalue)
    BY <1>4, <2>2, <2>4
  <2>6. open' \in [Djuru -> Seq(DOMAIN upvalue')]
    <3>1. \A d \in Djuru : open[d] \in Seq(DOMAIN upvalue')
      BY <1>4, <2>3, SeqGrows
    <3> QED
      BY <1>1, <1>4, <2>2, <3>1
  <2> QED
    BY <1>0, <1>1, <1>2, <1>3, <1>6, <2>1, <2>3, <2>5, <2>6, CaptureStepKeepsInv
<1> QED
  BY <1>3, <1>5, <1>6 DEF captureUpvalue

LEMMA ShareUpvalueKeeps ==
  ASSUME ClosureInv, NEW j, ShareUpvalue(j) PROVE ClosureInv'
<1>0. TypeOK
  BY DEF ClosureInv
<1>1. cur \in Djuru /\ frames[cur] # <<>>
  BY ClosuresAssumption DEF ClosureInv, CaptureInv, RegisterFresh, ShareUpvalue, TypeOK
<1>2. PICK f, u, x : f = Frame(cur).fn /\ u = closure[f].upvalues[j] /\ x = closure[f].bound[j]
  OBVIOUS
<1>3. /\ Bind(u, x) /\ left > 0 /\ f # 0 /\ j \in DOMAIN closure[f].upvalues
      /\ UNCHANGED <<cur, start, memory, stack, name, frames, open, upvalue, content>>
  BY <1>2 DEF ShareUpvalue, stackVars
<1>4. u \in DOMAIN upvalue /\ x \in DOMAIN content
  BY <1>1, <1>2, <1>3, RunningFunction
<1>5. upvalue \in Seq(Upvalue) /\ open \in [Djuru -> Seq(DOMAIN upvalue)]
  BY <1>0 DEF TypeOK, Upvalue
<1> QED
  BY <1>3, <1>4, <1>5, ShareKeepsVariables, CaptureStepKeepsInv

\* The first m members of a sequence.
LEMMA HeadShape ==
  ASSUME NEW S, NEW s \in Seq(S), NEW m \in 0 .. Len(s)
  PROVE  /\ SubSeq(s, 1, m) \in Seq(S) /\ Len(SubSeq(s, 1, m)) = m
         /\ \A i \in 1 .. m : SubSeq(s, 1, m)[i] = s[i]
<1>1. 1 \in 1 .. Len(s) + 1 /\ m \in 1 - 1 .. Len(s)
  OBVIOUS
<1>2. /\ SubSeq(s, 1, m) \in Seq(S) /\ Len(SubSeq(s, 1, m)) = m - 1 + 1
      /\ \A i \in 1 .. m - 1 + 1 : SubSeq(s, 1, m)[i] = s[1 + i - 1]
  BY <1>1, SubSeqProperties
<1>3. m - 1 + 1 = m /\ \A i \in 1 .. m : 1 + i - 1 = i
  OBVIOUS
<1> QED
  BY <1>2, <1>3

\* A step that cuts a stack off and closes the upvalues from there on.
LEMMA CutKeepsTypes ==
  ASSUME ClosureInv, NEW d \in Djuru, NEW last \in Nat \ {0}, NEW s \in Seq(Value), NEW t \in Seq(Nat),
         Len(t) = Len(s), Len(s) = last - 1 \/ Len(s) = last, Len(s) <= Len(stack[d]),
         closeUpvalues(d, last),
         stack' = [stack EXCEPT ![d] = s], name' = [name EXCEPT ![d] = t],
         \A i \in 1 .. Len(s) :
           IF i < last THEN s[i] = stack[d][i] /\ t[i] = name[d][i]
           ELSE s[i] = NULL_VAL /\ t[i] = 0,
         UNCHANGED <<closure, content, left>>,
         cur' \in Djuru \union {None}, start' \in (Nat \ {0}) \union {Freed},
         memory' \in [Djuru -> {"none", "live", "freed"}], frames' \in [Djuru -> Seq(CallFrame)]
  PROVE  TypeOK' /\ VariablesInv'
<1>0. /\ TypeOK /\ stack \in [Djuru -> Seq(Value)] /\ name \in [Djuru -> Seq(Nat)]
      /\ left \in Nat /\ content \in Seq(Value) /\ \A e \in Djuru : Len(name[e]) = Len(stack[e])
  BY DEF ClosureInv, TypeOK
<1>1. /\ stack'[d] = s /\ name'[d] = t
      /\ \A e \in Djuru \ {d} : stack'[e] = stack[e] /\ name'[e] = name[e]
  BY <1>0
<1>2. stack' \in [Djuru -> Seq(Value)] /\ name' \in [Djuru -> Seq(Nat)]
  BY <1>0
<1>3. \A e \in Djuru : Len(name'[e]) = Len(stack'[e])
  BY <1>0, <1>1
<1>4. /\ open' \in [Djuru -> Seq(DOMAIN upvalue')]
      /\ upvalue' \in Seq(Upvalue) /\ DOMAIN upvalue' = DOMAIN upvalue
  BY CloseTypes
<1>5. closure' \in Seq(Closure') /\ Len(closure) <= Len(closure')
  BY <1>0, <1>4, ClosureTypesKept
<1>6. TypeOK'
  BY <1>0, <1>2, <1>3, <1>4, <1>5, TypesKept
<1>7. VariablesInv'
  <2>1. PICK m \in Nat : m = Len(s)
    OBVIOUS
  <2>2. DOMAIN stack'[d] = 1 .. m /\ DOMAIN name'[d] = 1 .. m
    BY <1>1, <2>1
  <2>3. \A i \in 1 .. m :
          IF i < last THEN stack'[d][i] = stack[d][i] /\ name'[d][i] = name[d][i]
          ELSE stack'[d][i] = NULL_VAL /\ name'[d][i] = 0
    BY <1>1, <2>1
  <2> QED
    BY <1>1, <2>1, <2>2, <2>3, CutKeepsVariables
<1> QED
  BY <1>6, <1>7

LEMMA EndScopeKeeps == ASSUME ClosureInv, EndScope PROVE ClosureInv'
<1> DEFINE top == Len(stack[cur])
           s == SubSeq(stack[cur], 1, top - 1)
           t == SubSeq(name[cur], 1, top - 1)
<1>0. /\ TypeOK /\ Running /\ top > start /\ closeUpvalues(cur, top)
      /\ stack' = [stack EXCEPT ![cur] = s] /\ name' = [name EXCEPT ![cur] = t]
      /\ UNCHANGED <<cur, start, memory, frames, closure, left, content>>
  BY DEF ClosureInv, EndScope, TopSlot
<1>1. /\ cur \in Djuru /\ start \in Nat \ {0} /\ top \in Nat /\ start = Frame(cur).start /\ left = 0
      /\ frames[cur] # <<>> /\ stack[cur] \in Seq(Value) /\ name[cur] \in Seq(Nat) /\ Len(name[cur]) = top
  BY <1>0, RunningDjuru, Shapes
<1>2. /\ s \in Seq(Value) /\ Len(s) = top - 1 /\ \A i \in 1 .. top - 1 : s[i] = stack[cur][i]
      /\ t \in Seq(Nat) /\ Len(t) = top - 1 /\ \A i \in 1 .. top - 1 : t[i] = name[cur][i]
  <2>1. top - 1 \in 0 .. Len(stack[cur]) /\ top - 1 \in 0 .. Len(name[cur])
    BY <1>0, <1>1
  <2> QED
    BY <1>1, <2>1, HeadShape
<1> HIDE DEF s, t
<1>3. TypeOK' /\ VariablesInv'
  <2>1. /\ top \in Nat \ {0} /\ Len(t) = Len(s) /\ Len(s) = top - 1 /\ Len(s) <= Len(stack[cur])
        /\ \A i \in 1 .. Len(s) : i < top /\ s[i] = stack[cur][i] /\ t[i] = name[cur][i]
    <3>1. top \in Nat \ {0} /\ Len(t) = Len(s) /\ Len(s) = top - 1 /\ Len(s) <= Len(stack[cur])
      BY <1>0, <1>1, <1>2
    <3>2. ASSUME NEW i \in 1 .. Len(s) PROVE i < top /\ s[i] = stack[cur][i] /\ t[i] = name[cur][i]
      <4>1. i \in 1 .. top - 1 /\ i < top
        BY <3>1
      <4> QED
        BY <1>2, <4>1
    <3> QED
      BY <3>1, <3>2
  <2>2. /\ cur' \in Djuru \union {None} /\ start' \in (Nat \ {0}) \union {Freed}
        /\ memory' \in [Djuru -> {"none", "live", "freed"}] /\ frames' \in [Djuru -> Seq(CallFrame)]
    BY <1>0 DEF TypeOK, CallFrame
  <2> QED
    BY <1>0, <1>1, <1>2, <2>1, <2>2, CutKeepsTypes
<1>4. ASSUME NEW d \in Djuru PROVE FramesOf(d)'
  <2>1. CASE d = cur
    <3>1. Len(stack'[cur]) = top - 1
      BY <1>0, <1>1, <1>2 DEF TypeOK
    <3>2. Len(stack'[cur]) \in Nat /\ Frame(cur).start <= Len(stack'[cur])
      BY <1>0, <1>1, <3>1
    <3> QED
      BY <1>0, <1>1, <2>1, <3>2, FramesKept
  <2>2. CASE d # cur
    BY <1>0, <1>1, <2>2, FramesKept
  <2> QED
    BY <2>1, <2>2
<1>5. RegisterFresh' /\ CaptureInv'
  BY <1>0, <1>1 DEF ClosureInv, RegisterFresh, CaptureInv, Frame
<1>6. ASSUME NEW d \in Djuru, d # cur' PROVE WaitingOf(d)'
  BY <1>0, <1>1, <1>6, WaitingKept
<1> QED
  BY <1>3, <1>4, <1>5, <1>6, PartsHold

LEMMA ReturnKeeps == ASSUME ClosureInv, Return PROVE ClosureInv'
<1> DEFINE s == [SubSeq(stack[cur], 1, start) EXCEPT ![start] = NULL_VAL]
           t == [SubSeq(name[cur], 1, start) EXCEPT ![start] = 0]
           f == SubSeq(frames[cur], 1, Len(frames[cur]) - 1)
           n == Len(frames[cur])
<1>0. TypeOK /\ Running /\ n > 1 /\ FramesOf(cur)
  BY RunningDjuru, FrameInvOf DEF ClosureInv, Return
<1>1. /\ cur \in Djuru /\ start \in Nat \ {0} /\ start = Frame(cur).start /\ left = 0
      /\ start <= Len(stack[cur]) /\ Len(stack[cur]) \in Nat
      /\ frames[cur] # <<>> /\ stack[cur] \in Seq(Value) /\ name[cur] \in Seq(Nat)
      /\ Len(name[cur]) = Len(stack[cur]) /\ memory[cur] = "live"
      /\ n \in Nat /\ frames[cur] \in Seq(CallFrame)
  BY <1>0, RunningDjuru, Shapes
<1>2. /\ closeUpvalues(cur, start) /\ frames' = [frames EXCEPT ![cur] = f]
      /\ stack' = [stack EXCEPT ![cur] = s] /\ name' = [name EXCEPT ![cur] = t]
      /\ start' = frames[cur][n - 1].start
      /\ UNCHANGED <<cur, memory, closure, left, content>>
  BY <1>1 DEF Return
<1>3. /\ s \in Seq(Value) /\ Len(s) = start /\ s[start] = NULL_VAL
      /\ \A i \in 1 .. start : i # start => s[i] = stack[cur][i]
      /\ t \in Seq(Nat) /\ Len(t) = start /\ t[start] = 0
      /\ \A i \in 1 .. start : i # start => t[i] = name[cur][i]
  <2>1. start \in 0 .. Len(stack[cur]) /\ start \in 0 .. Len(name[cur])
    BY <1>1
  <2>2. PICK p, q : p = SubSeq(stack[cur], 1, start) /\ q = SubSeq(name[cur], 1, start)
    OBVIOUS
  <2>3. p \in Seq(Value) /\ Len(p) = start /\ \A i \in 1 .. start : p[i] = stack[cur][i]
    BY <1>1, <2>1, <2>2, HeadShape
  <2>4. q \in Seq(Nat) /\ Len(q) = start /\ \A i \in 1 .. start : q[i] = name[cur][i]
    BY <1>1, <2>1, <2>2, HeadShape
  <2>5. NULL_VAL \in Value /\ 0 \in Nat
    BY ClosuresAssumption
  <2>6. s = [p EXCEPT ![start] = NULL_VAL] /\ t = [q EXCEPT ![start] = 0]
    BY <2>2
  <2> HIDE DEF s, t
  <2>7. /\ s \in Seq(Value) /\ Len(s) = start /\ s[start] = NULL_VAL
        /\ \A i \in 1 .. start : i # start => s[i] = p[i]
    BY <1>1, <2>3, <2>5, <2>6
  <2>8. /\ t \in Seq(Nat) /\ Len(t) = start /\ t[start] = 0
        /\ \A i \in 1 .. start : i # start => t[i] = q[i]
    BY <1>1, <2>4, <2>5, <2>6
  <2> QED
    BY <2>3, <2>4, <2>7, <2>8
<1>4. /\ f \in Seq(CallFrame) /\ Len(f) = n - 1 /\ \A i \in 1 .. n - 1 : f[i] = frames[cur][i]
  <2>1. n - 1 \in 0 .. Len(frames[cur])
    BY <1>0, <1>1
  <2> QED
    BY <1>1, <2>1, HeadShape
<1> HIDE DEF s, t, f
<1>5. /\ frames' \in [Djuru -> Seq(CallFrame)] /\ frames'[cur] = f
      /\ \A d \in Djuru : d # cur => frames'[d] = frames[d]
      /\ stack'[cur] = s /\ \A d \in Djuru : d # cur => stack'[d] = stack[d] /\ name'[d] = name[d]
  BY <1>0, <1>1, <1>2, <1>4 DEF TypeOK, CallFrame
<1>6. /\ n - 1 \in DOMAIN frames[cur] /\ n \in DOMAIN frames[cur] /\ DOMAIN frames[cur] = 1 .. n
      /\ DOMAIN f = 1 .. n - 1 /\ n - 1 \in 1 .. n - 1 /\ 1 \in 1 .. n - 1
      /\ \A i \in 1 .. n : frames[cur][i].start \in Nat \ {0}
  BY <1>0, <1>1, <1>4, Shapes
<1>7. TypeOK' /\ VariablesInv'
  <2>1. /\ Len(t) = Len(s) /\ Len(s) = start /\ Len(s) <= Len(stack[cur])
        /\ \A i \in 1 .. Len(s) :
             IF i < start THEN s[i] = stack[cur][i] /\ t[i] = name[cur][i]
             ELSE s[i] = NULL_VAL /\ t[i] = 0
    BY <1>1, <1>3
  <2>2. /\ cur' \in Djuru \union {None} /\ start' \in (Nat \ {0}) \union {Freed}
        /\ memory' \in [Djuru -> {"none", "live", "freed"}]
    BY <1>0, <1>2, <1>6 DEF TypeOK
  <2> QED
    BY <1>1, <1>2, <1>3, <1>5, <2>1, <2>2, CutKeepsTypes
<1>8. ASSUME NEW d \in Djuru PROVE FramesOf(d)'
  <2>1. CASE d = cur
    <3>1. /\ start = frames[cur][n].start
          /\ \A i, j \in 1 .. n : i < j => frames[cur][i].start < frames[cur][j].start
          /\ frames[cur][1].start = 1
      BY <1>0, <1>1, <1>6 DEF FramesOf, Frame
    <3>2. ASSUME NEW i \in 1 .. n - 1 PROVE i \in 1 .. n /\ i < n /\ f[i] = frames[cur][i]
      BY <1>1, <1>4
    <3>3. ASSUME NEW i \in 1 .. n - 1 PROVE f[i].start <= start
      <4>1. i \in 1 .. n /\ n \in 1 .. n /\ i < n /\ f[i] = frames[cur][i]
        BY <1>1, <3>2
      <4>2. frames[cur][i].start < frames[cur][n].start
        BY <3>1, <4>1
      <4>3. frames[cur][i].start \in Nat
        BY <1>0, <1>1, <4>1, Shapes
      <4> QED
        BY <1>1, <3>1, <4>1, <4>2, <4>3
    <3>4. ASSUME NEW i \in 1 .. n - 1, NEW j \in 1 .. n - 1, i < j PROVE f[i].start < f[j].start
      BY <3>1, <3>2, <3>4
    <3>5. f # <<>> /\ f[1].start = 1
      BY <1>6, <3>1, <3>2
    <3>6. memory'[cur] = "live" /\ frames'[cur] = f /\ DOMAIN f = 1 .. n - 1 /\ Len(stack'[cur]) = start
      BY <1>1, <1>2, <1>3, <1>5, <1>6
    <3> QED
      BY <2>1, <3>3, <3>4, <3>5, <3>6 DEF FramesOf
  <2>2. CASE d # cur
    BY <1>2, <1>5, <2>2, FramesKept
  <2> QED
    BY <2>1, <2>2
<1>9. RegisterFresh' /\ CaptureInv'
  <2>1. f # <<>> /\ start' = f[Len(f)].start
    <3>1. f[n - 1] = frames[cur][n - 1]
      BY <1>4, <1>6
    <3>2. f # <<>>
      BY <1>6
    <3> QED
      BY <1>2, <1>4, <3>1, <3>2
  <2> QED
    BY <1>1, <1>2, <1>5, <2>1 DEF RegisterFresh, CaptureInv, Frame
<1>10. ASSUME NEW d \in Djuru, d # cur' PROVE WaitingOf(d)'
  BY <1>2, <1>5, <1>10, WaitingKept
<1> QED
  BY <1>7, <1>8, <1>9, <1>10, PartsHold

\* MSCEnsureStack leaves every frame and every upvalue at its slot.
LEMMA MovesKeep ==
  ASSUME TypeOK, NEW d \in Djuru, NEW moves \in BOOLEAN
  PROVE  MovedFrames(d, moves) = frames[d] /\ MovedUpvalues(d, moves) = upvalue
<1>1. frames[d] \in Seq(CallFrame) /\ upvalue \in Seq(Upvalue)
  BY Shapes DEF TypeOK, Upvalue
<1>2. ASSUME NEW i \in DOMAIN frames[d]
      PROVE  [frames[d][i] EXCEPT !.start = Rebased(@)] = frames[d][i]
  <2>1. frames[d][i] \in CallFrame
    BY <1>1
  <2> QED
    BY <2>1 DEF CallFrame, Rebased
<1>3. ASSUME NEW u \in DOMAIN upvalue
      PROVE  [upvalue[u] EXCEPT !.slot = Rebased(@)] = upvalue[u]
  <2>1. upvalue[u] \in Upvalue
    BY <1>1
  <2> QED
    BY <2>1 DEF Upvalue, Rebased
<1>4. MovedFrames(d, moves) = [i \in DOMAIN frames[d] |-> frames[d][i]]
  BY <1>2 DEF MovedFrames
<1>5. MovedUpvalues(d, moves) = [u \in DOMAIN upvalue |-> upvalue[u]]
  BY <1>3 DEF MovedUpvalues
<1> QED
  BY <1>1, <1>4, <1>5

\* A sequence with one more element.
LEMMA AppendShape ==
  ASSUME NEW S, NEW s \in Seq(S), NEW a \in S, NEW t, t = Append(s, a)
  PROVE  /\ t \in Seq(S) /\ Len(t) = Len(s) + 1 /\ DOMAIN t = 1 .. Len(s) + 1 /\ t # <<>>
         /\ t[Len(s) + 1] = a /\ t[Len(t)] = a
         /\ \A i \in 1 .. Len(s) : t[i] = s[i]
<1>1. t \in Seq(S) /\ Len(t) = Len(s) + 1 /\ t[Len(s) + 1] = a
  OBVIOUS
<1>2. ASSUME NEW i \in 1 .. Len(s) PROVE t[i] = s[i]
  OBVIOUS
<1> QED
  BY <1>1, <1>2

LEMMA CallFunctionKeeps ==
  ASSUME ClosureInv, NEW fn \in Functions, NEW hasParameter \in BOOLEAN, NEW moves \in BOOLEAN,
         callFunction(fn, hasParameter, moves)
  PROVE  ClosureInv'
<1> DEFINE top == Len(stack[cur])
           size == IF hasParameter THEN 2 ELSE 1
           base == top - size + 1
           frame == [start |-> base, fn |-> fn]
<1>0. TypeOK /\ Running /\ FramesOf(cur)
  BY RunningDjuru, FrameInvOf DEF ClosureInv, callFunction
<1>1. /\ cur \in Djuru /\ start \in Nat \ {0} /\ start = Frame(cur).start /\ left = 0
      /\ top \in Nat /\ frames[cur] # <<>> /\ stack[cur] # <<>> /\ memory[cur] = "live"
      /\ frames[cur] \in Seq(CallFrame) /\ Len(frames[cur]) \in Nat \ {0}
      /\ DOMAIN frames[cur] = 1 .. Len(frames[cur])
      /\ \A i \in DOMAIN frames[cur] : frames[cur][i].start \in Nat
      /\ frames \in [Djuru -> Seq(CallFrame)] /\ name \in [Djuru -> Seq(Nat)] /\ content \in Seq(Value)
  BY <1>0, RunningDjuru, Shapes DEF TypeOK, CallFrame
<1>2. size \in {1, 2} /\ top - size >= start /\ name[cur][top] = 0
  <2>1. Temporaries(size)
    BY DEF callFunction
  <2>2. size \in {1, 2} /\ 1 \in 1 .. size
    OBVIOUS
  <2>3. name[cur][top + 1 - 1] = 0
    BY <2>1, <2>2 DEF Temporaries, TopSlot
  <2>4. top + 1 - 1 = top
    BY <1>1
  <2>5. top - size >= start
    BY <2>1 DEF Temporaries, TopSlot
  <2> QED
    BY <2>2, <2>3, <2>4, <2>5
<1>3. base \in Nat \ {0} /\ base > start /\ base <= top
  <2>1. CASE size = 1
    <3>1. base = top - 1 + 1 /\ top - 1 >= start
      BY <1>2, <2>1
    <3> HIDE DEF base, size, top
    <3> QED
      BY <1>1, <3>1
  <2>2. CASE size = 2
    <3>1. base = top - 2 + 1 /\ top - 2 >= start
      BY <1>2, <2>2
    <3> HIDE DEF base, size, top
    <3> QED
      BY <1>1, <3>1
  <2> QED
    BY <1>2, <2>1, <2>2
<1>4. /\ frames' = [frames EXCEPT ![cur] = Append(frames[cur], frame)]
      /\ upvalue' = upvalue /\ start' = base
      /\ UNCHANGED <<cur, memory, stack, open, closure, left>>
  BY <1>0, <1>1, MovesKeep DEF callFunction, TopSlot
<1>5. \/ /\ hasParameter /\ content' = Append(content, NULL_VAL)
         /\ name' = [name EXCEPT ![cur][top] = NewVariable]
      \/ UNCHANGED <<content, name>>
  BY DEF callFunction, Declare, TopSlot
<1>6. VariablesInv'
  BY <1>1, <1>2, <1>4, <1>5, ParameterKeepsVariables, NoVariableTouched
<1> HIDE DEF size, base
<1>7. frame \in CallFrame
  BY <1>3 DEF CallFrame
<1>8. Append(frames[cur], frame) \in Seq(CallFrame)
  BY <1>1, <1>7
<1>9. TypeOK'
  <2>1. NULL_VAL \in Value /\ NewVariable \in Nat
    BY <1>0, Shapes, ClosuresAssumption DEF NewVariable
  <2>2. content' \in Seq(Value) /\ DOMAIN content \subseteq DOMAIN content'
    <3>1. CASE content' = Append(content, NULL_VAL)
      BY <1>1, <2>1, <3>1, AppendShape
    <3>2. CASE content' = content
      BY <1>1, <3>2
    <3> QED
      BY <1>5, <3>1, <3>2
  <2>3. [name[cur] EXCEPT ![top] = NewVariable] \in Seq(Nat)
        /\ Len([name[cur] EXCEPT ![top] = NewVariable]) = Len(name[cur])
    <3>1. name[cur] \in Seq(Nat)
      BY <1>1
    <3>2. PICK t : t = [name[cur] EXCEPT ![top] = NewVariable]
      OBVIOUS
    <3>3. t \in Seq(Nat) /\ DOMAIN t = DOMAIN name[cur]
      BY <2>1, <3>1, <3>2, WriteShape
    <3>4. DOMAIN t = 1 .. Len(t) /\ DOMAIN name[cur] = 1 .. Len(name[cur])
          /\ Len(t) \in Nat /\ Len(name[cur]) \in Nat
      BY <3>1, <3>3
    <3> QED
      BY <3>2, <3>3, <3>4
  <2>4. name' = [name EXCEPT ![cur] = [name[cur] EXCEPT ![top] = NewVariable]] \/ name' = name
    BY <1>5
  <2>5. name' \in [Djuru -> Seq(Nat)] /\ \A d \in Djuru : Len(name'[d]) = Len(name[d])
    BY <1>1, <2>3, <2>4
  <2>6. frames' \in [Djuru -> Seq(CallFrame)]
    BY <1>1, <1>4, <1>8
  <2>7. closure' \in Seq(Closure') /\ Len(closure) <= Len(closure')
    BY <1>0, <1>4, <2>2, ClosureTypesKept
  <2>8. /\ cur' \in Djuru \union {None} /\ start' \in (Nat \ {0}) \union {Freed}
        /\ memory' \in [Djuru -> {"none", "live", "freed"}] /\ stack' \in [Djuru -> Seq(Value)]
        /\ open' \in [Djuru -> Seq(DOMAIN upvalue')] /\ upvalue' \in Seq(Upvalue) /\ left' \in Nat
        /\ \A d \in Djuru : Len(name'[d]) = Len(stack'[d])
    BY <1>0, <1>1, <1>3, <1>4, <2>5 DEF TypeOK, Upvalue
  <2> QED
    BY <1>0, <2>2, <2>5, <2>6, <2>7, <2>8, TypesKept
<1>10. frames'[cur] = Append(frames[cur], frame) /\ \A d \in Djuru : d # cur => frames'[d] = frames[d]
  BY <1>1, <1>4
<1>11. ASSUME NEW d \in Djuru PROVE FramesOf(d)'
  <2>1. CASE d = cur
    <3> DEFINE n == Len(frames[cur])
    <3>1. PICK f : f = frames'[cur]
      OBVIOUS
    <3>2. /\ DOMAIN f = 1 .. n + 1 /\ f[n + 1] = frame /\ f # <<>>
          /\ \A i \in 1 .. n : f[i] = frames[cur][i]
      <4>1. f = Append(frames[cur], frame) /\ frames[cur] \in Seq(CallFrame)
        BY <1>1, <1>10, <3>1
      <4> QED
        BY <1>7, <4>1, AppendShape
    <3>3. f[n + 1].start = base
      BY <3>2
    <3>4. /\ start = frames[cur][n].start /\ n \in 1 .. n /\ 1 \in 1 .. n
          /\ \A i, j \in 1 .. n : i < j => frames[cur][i].start < frames[cur][j].start
          /\ frames[cur][1].start = 1 /\ n \in Nat /\ start \in Nat
      <4>1. DOMAIN frames[cur] = 1 .. n /\ n \in Nat \ {0} /\ frames[cur] # <<>>
            /\ start = frames[cur][n].start /\ start \in Nat
        BY <1>1 DEF Frame
      <4>2. \A i, j \in DOMAIN frames[cur] : i < j => frames[cur][i].start < frames[cur][j].start
        BY <1>0 DEF FramesOf
      <4>3. frames[cur][1].start = 1
        BY <1>0, <4>1 DEF FramesOf
      <4> QED
        BY <4>1, <4>2, <4>3
    <3>5. ASSUME NEW i \in 1 .. n PROVE f[i].start <= start /\ f[i].start \in Nat
      <4>1. f[i].start = frames[cur][i].start /\ frames[cur][i].start \in Nat
        BY <1>1, <3>2
      <4>2. CASE i = n
        BY <3>4, <4>1, <4>2
      <4>3. CASE i < n
        <5>1. frames[cur][i].start < frames[cur][n].start
          BY <3>4, <4>3
        <5> QED
          BY <3>4, <4>1, <5>1
      <4> QED
        BY <3>4, <4>2, <4>3
    <3>6. ASSUME NEW i \in 1 .. n + 1 PROVE f[i].start <= top
      <4>1. CASE i \in 1 .. n
        BY <1>1, <1>3, <3>5, <4>1
      <4>2. CASE i = n + 1
        BY <1>1, <1>3, <3>3, <4>2
      <4> QED
        BY <3>4, <4>1, <4>2
    <3>7. ASSUME NEW i \in 1 .. n + 1, NEW j \in 1 .. n + 1, i < j PROVE f[i].start < f[j].start
      <4>1. i \in 1 .. n
        BY <3>4, <3>7
      <4>2. CASE j \in 1 .. n
        BY <3>2, <3>4, <3>7, <4>1, <4>2
      <4>3. CASE j = n + 1
        <5>1. f[i].start \in Nat /\ f[i].start <= start /\ f[j].start = base
          BY <3>3, <3>5, <4>1, <4>3
        <5>2. start \in Nat /\ base \in Nat /\ start < base
          BY <1>1, <1>3
        <5> QED
          BY <5>1, <5>2
      <4> QED
        BY <3>4, <4>2, <4>3
    <3>8. f[1].start = 1
      BY <3>2, <3>4
    <3>9. stack'[cur] = stack[cur] /\ memory'[cur] = "live"
      BY <1>1, <1>4
    <3> QED
      BY <2>1, <3>1, <3>2, <3>6, <3>7, <3>8, <3>9 DEF FramesOf
  <2>2. CASE d # cur
    BY <1>4, <1>10, <2>2, FramesKept
  <2> QED
    BY <2>1, <2>2
<1>12. RegisterFresh' /\ CaptureInv'
  <2>1. /\ frames'[cur][Len(frames'[cur])] = frame /\ frames'[cur] # <<>>
    <3>1. PICK f : f = frames'[cur]
      OBVIOUS
    <3>2. f = Append(frames[cur], frame) /\ frames[cur] \in Seq(CallFrame)
      BY <1>1, <1>10, <3>1
    <3>3. f[Len(f)] = frame /\ f # <<>>
      BY <1>7, <3>2, AppendShape
    <3> QED
      BY <3>1, <3>3
  <2>2. frame.start = base
    OBVIOUS
  <2> QED
    BY <1>1, <1>4, <2>1, <2>2 DEF RegisterFresh, CaptureInv, Frame
<1>13. ASSUME NEW d \in Djuru, d # cur' PROVE WaitingOf(d)'
  <2>1. name'[d] = name[d]
    BY <1>1, <1>4, <1>5, <1>13
  <2> QED
    BY <1>4, <1>10, <1>13, <2>1, WaitingKept
<1> QED
  BY <1>6, <1>9, <1>11, <1>12, <1>13, PartsHold

\* Steps that leave every stack, upvalue and closure alone.
LEMMA NothingTouched ==
  ASSUME ClosureInv,
         UNCHANGED <<memory, stack, name, frames, open, upvalue, closure, left, content>>,
         cur' \in Djuru \union {None}, start' \in (Nat \ {0}) \union {Freed}
  PROVE  TypeOK' /\ VariablesInv' /\ \A d \in Djuru : FramesOf(d)'
<1>0. TypeOK
  BY DEF ClosureInv
<1>1. closure' \in Seq(Closure') /\ Len(closure) <= Len(closure')
  BY <1>0, ClosureTypesKept
<1>2. /\ memory' \in [Djuru -> {"none", "live", "freed"}] /\ frames' \in [Djuru -> Seq(CallFrame)]
      /\ stack' \in [Djuru -> Seq(Value)] /\ name' \in [Djuru -> Seq(Nat)]
      /\ open' \in [Djuru -> Seq(DOMAIN upvalue')] /\ \A d \in Djuru : Len(name'[d]) = Len(stack'[d])
      /\ upvalue' \in Seq(Upvalue) /\ content' \in Seq(Value) /\ left' \in Nat
  BY <1>0 DEF TypeOK, CallFrame, Upvalue
<1>3. TypeOK'
  BY <1>0, <1>1, <1>2, TypesKept
<1> QED
  BY <1>3, NoVariableTouched, FramesKept

LEMMA CallExternKeeps == ASSUME ClosureInv, callExtern(FALSE) PROVE ClosureInv'
<1>0. TypeOK /\ Running
  BY DEF ClosureInv, callExtern
<1>1. /\ cur \in Djuru /\ start \in Nat \ {0} /\ left = 0 /\ start = Frame(cur).start /\ frames[cur] # <<>>
      /\ frames \in [Djuru -> Seq(CallFrame)]
  BY <1>0, RunningDjuru DEF TypeOK, CallFrame
<1>2. UNCHANGED <<cur, start, memory, stack, name, frames, open, upvalue, closure, left, content>>
  BY <1>0, <1>1, MovesKeep DEF callExtern
<1>3. TypeOK' /\ VariablesInv' /\ \A d \in Djuru : FramesOf(d)'
  BY <1>1, <1>2, NothingTouched
<1>4. RegisterFresh' /\ CaptureInv'
  BY <1>1, <1>2 DEF RegisterFresh, CaptureInv, Frame
<1>5. ASSUME NEW d \in Djuru, d # cur' PROVE WaitingOf(d)'
  BY <1>2, <1>5, WaitingKept
<1> QED
  BY <1>3, <1>4, <1>5, PartsHold

\* The djuru that ran waits with a temporary on top.
LEMMA LeftWaiting ==
  ASSUME ClosureInv, Running, Temporaries(1), NEW d, d = cur,
         stack'[d] = stack[d], name'[d] = name[d]
  PROVE  WaitingOf(d)'
<1>1. Len(stack[cur]) \in Nat /\ 1 \in 1 .. 1 /\ Len(stack[cur]) + 1 - 1 = Len(stack[cur])
  BY RunningDjuru
<1>2. name[cur][Len(stack[cur]) + 1 - 1] = 0
  BY <1>1 DEF Temporaries, TopSlot
<1>3. name[cur][Len(stack[cur])] = 0
  BY <1>1, <1>2
<1> QED
  BY <1>3 DEF WaitingOf, TopSlot

LEMMA StopKeeps == ASSUME ClosureInv, Stop PROVE ClosureInv'
<1>1. /\ Running /\ Temporaries(1) /\ cur' = None /\ start' = Freed
      /\ UNCHANGED <<memory, stack, name, frames, open, upvalue, closure, left, content>>
  BY DEF Stop, stackVars, upvalueVars
<1>2. TypeOK' /\ VariablesInv' /\ \A d \in Djuru : FramesOf(d)'
  BY <1>1, NothingTouched
<1>3. RegisterFresh' /\ CaptureInv'
  BY <1>1, RunningDjuru DEF RegisterFresh, CaptureInv
<1>4. ASSUME NEW d \in Djuru PROVE WaitingOf(d)'
  <2>1. CASE d = cur
    BY <1>1, <2>1, LeftWaiting
  <2>2. CASE d # cur
    BY <1>1, <2>2, WaitingKept
  <2> QED
    BY <2>1, <2>2
<1> QED
  BY <1>2, <1>3, <1>4, PartsHold
\* A new djuru: its stack was empty, and its first slot is its receiver.
LEMMA NewDjuruKeeps ==
  ASSUME ClosureInv, NEW d \in Djuru, NEW fn \in Functions, NewDjuru(d, fn),
         UNCHANGED <<open, upvalue, closure, left, content>>,
         cur' \in Djuru \union {None}, start' \in (Nat \ {0}) \union {Freed}
  PROVE  /\ TypeOK' /\ VariablesInv' /\ WaitingOf(d)'
         /\ \A e \in Djuru : FramesOf(e)'
         /\ \A e \in Djuru : e # d => UNCHANGED <<frames[e], stack[e], name[e]>>
         /\ frames[d] = <<>> /\ frames'[d] = <<[start |-> 1, fn |-> fn]>>
<1> DEFINE frame == [start |-> 1, fn |-> fn]
<1>1. /\ TypeOK /\ FramesOf(d) /\ memory[d] = "none"
      /\ memory' = [memory EXCEPT ![d] = "live"] /\ stack' = [stack EXCEPT ![d] = <<NULL_VAL>>]
      /\ name' = [name EXCEPT ![d] = <<0>>] /\ frames' = [frames EXCEPT ![d] = <<frame>>]
  BY FrameInvOf DEF ClosureInv, NewDjuru
<1>2. frames[d] = <<>> /\ stack[d] = <<>> /\ name[d] = <<>>
  <2>1. frames[d] = <<>> /\ stack[d] = <<>>
    BY <1>1 DEF FramesOf
  <2>2. name[d] \in Seq(Nat) /\ Len(name[d]) = Len(stack[d])
    BY <1>1 DEF TypeOK
  <2>3. Len(name[d]) = 0
    BY <2>1, <2>2
  <2> QED
    BY <2>1, <2>2, <2>3
<1>3. VariablesInv'
  <2>1. Append(stack[d], NULL_VAL) = <<NULL_VAL>> /\ Append(name[d], 0) = <<0>>
    BY <1>2
  <2>2. stack' = [stack EXCEPT ![d] = Append(@, NULL_VAL)] /\ name' = [name EXCEPT ![d] = Append(@, 0)]
    BY <1>1, <2>1
  <2>3. NULL_VAL \in Value
    BY ClosuresAssumption
  <2> QED
    BY <2>2, <2>3, PushKeepsVariables
<1>4. /\ stack \in [Djuru -> Seq(Value)] /\ name \in [Djuru -> Seq(Nat)]
      /\ frames \in [Djuru -> Seq(CallFrame)] /\ memory \in [Djuru -> {"none", "live", "freed"}]
  BY <1>1 DEF TypeOK, CallFrame
<1>5. <<frame>> \in Seq(CallFrame) /\ <<NULL_VAL>> \in Seq(Value) /\ <<0>> \in Seq(Nat)
  <2>1. frame \in CallFrame
    BY DEF CallFrame
  <2> QED
    BY <2>1, ClosuresAssumption
<1>6. /\ memory'[d] = "live" /\ stack'[d] = <<NULL_VAL>> /\ name'[d] = <<0>> /\ frames'[d] = <<frame>>
      /\ \A e \in Djuru : e # d => UNCHANGED <<memory[e], frames[e], stack[e], name[e]>>
  BY <1>1, <1>4
<1>7. TypeOK'
  <2>1. /\ memory' \in [Djuru -> {"none", "live", "freed"}] /\ stack' \in [Djuru -> Seq(Value)]
        /\ name' \in [Djuru -> Seq(Nat)] /\ frames' \in [Djuru -> Seq(CallFrame)]
    BY <1>1, <1>4, <1>5
  <2>2. \A e \in Djuru : Len(name'[e]) = Len(stack'[e])
    <3>1. ASSUME NEW e \in Djuru, e # d PROVE Len(name'[e]) = Len(stack'[e])
      BY <1>1, <1>6, <3>1 DEF TypeOK
    <3>2. Len(name'[d]) = Len(stack'[d])
      BY <1>6
    <3> QED
      BY <3>1, <3>2
  <2>3. closure' \in Seq(Closure') /\ Len(closure) <= Len(closure')
    BY <1>1, ClosureTypesKept
  <2>4. /\ open' \in [Djuru -> Seq(DOMAIN upvalue')] /\ upvalue' \in Seq(Upvalue)
        /\ left' \in Nat /\ content' \in Seq(Value)
    BY <1>1 DEF TypeOK, Upvalue
  <2> QED
    BY <1>1, <2>1, <2>2, <2>3, <2>4, TypesKept
<1>8. ASSUME NEW e \in Djuru PROVE FramesOf(e)'
  <2>1. CASE e = d
    <3>1. /\ <<frame>> # <<>> /\ <<frame>>[1].start = 1 /\ DOMAIN <<frame>> = 1 .. 1
          /\ Len(<<NULL_VAL>>) = 1
      OBVIOUS
    <3> QED
      BY <1>6, <2>1, <3>1 DEF FramesOf
  <2>2. CASE e # d
    BY <1>6, <2>2, FramesKept
  <2> QED
    BY <2>1, <2>2
<1>9. WaitingOf(d)'
  <2>1. Len(stack'[d]) = 1
    BY <1>6
  <2> QED
    BY <2>1 DEF WaitingOf, TopSlot
<1> QED
  BY <1>2, <1>3, <1>6, <1>7, <1>8, <1>9

LEMMA InterpretKeeps ==
  ASSUME ClosureInv, NEW d \in Djuru, MSCInterpret(d) PROVE ClosureInv'
<1>1. /\ cur = None /\ cur' = d /\ start' = 1 /\ NewDjuru(d, 0)
      /\ UNCHANGED <<open, upvalue, closure, left, content>> /\ TypeOK
  BY DEF MSCInterpret, upvalueVars, ClosureInv
<1>2. 0 \in Functions
  BY <1>1, Shapes DEF Functions
<1>3. /\ TypeOK' /\ VariablesInv' /\ \A e \in Djuru : FramesOf(e)'
      /\ \A e \in Djuru : e # d => UNCHANGED <<frames[e], stack[e], name[e]>>
      /\ frames'[d] = <<[start |-> 1, fn |-> 0]>>
  BY <1>1, <1>2, NewDjuruKeeps
<1>4. RegisterFresh'
  <2>1. frames'[d] # <<>> /\ frames'[d][Len(frames'[d])].start = 1
    BY <1>3
  <2> QED
    BY <1>1, <2>1 DEF RegisterFresh, Frame
<1>5. CaptureInv'
  BY <1>1 DEF ClosureInv, CaptureInv
<1>6. ASSUME NEW e \in Djuru, e # cur' PROVE WaitingOf(e)'
  <2>1. e # cur
    BY <1>1, ClosuresAssumption
  <2> QED
    BY <1>1, <1>3, <1>6, <2>1, WaitingKept
<1> QED
  BY <1>3, <1>4, <1>5, <1>6, PartsHold

LEMMA DjuruNewKeeps ==
  ASSUME ClosureInv, NEW d \in Djuru, NEW fn \in Functions, djuru_new(d, fn) PROVE ClosureInv'
<1>1. /\ Running /\ NewDjuru(d, fn) /\ TypeOK
      /\ UNCHANGED <<cur, start, open, upvalue, closure, left, content>>
  BY DEF djuru_new, upvalueVars, ClosureInv
<1>2. /\ cur \in Djuru /\ frames[cur] # <<>> /\ start = Frame(cur).start /\ left = 0
      /\ start \in Nat \ {0}
  BY <1>1, RunningDjuru
<1>3. /\ TypeOK' /\ VariablesInv' /\ WaitingOf(d)' /\ \A e \in Djuru : FramesOf(e)'
      /\ \A e \in Djuru : e # d => UNCHANGED <<frames[e], stack[e], name[e]>>
      /\ frames[d] = <<>>
  BY <1>1, <1>2, NewDjuruKeeps
<1>4. RegisterFresh' /\ CaptureInv'
  BY <1>1, <1>2, <1>3 DEF RegisterFresh, CaptureInv, Frame
<1>5. ASSUME NEW e \in Djuru, e # cur' PROVE WaitingOf(e)'
  <2>1. CASE e = d
    BY <1>3, <2>1 DEF WaitingOf, TopSlot
  <2>2. CASE e # d
    BY <1>1, <1>3, <1>5, <2>2, WaitingKept
  <2> QED
    BY <2>1, <2>2
<1> QED
  BY <1>3, <1>4, <1>5, PartsHold

\* A djuru that goes on: the value it gets goes where a temporary is.
LEMMA ResumedSlot ==
  ASSUME ClosureInv, NEW d \in Djuru, d # cur, frames[d] # <<>>, Len(stack[d]) > 1
  PROVE  [stack[d] EXCEPT ![Len(stack[d])] = NULL_VAL] = stack[d]
<1>1. WaitingOf(d) /\ TypeOK
  BY DEF ClosureInv, WaitingInv, WaitingOf
<1>2. name[d][Len(stack[d])] = 0
  BY <1>1 DEF WaitingOf, TopSlot
<1>3. /\ Len(stack[d]) \in Nat /\ DOMAIN stack[d] = 1 .. Len(stack[d])
      /\ DOMAIN name[d] = 1 .. Len(stack[d]) /\ stack[d] \in Seq(Value)
  BY <1>1, Shapes
<1>4. Len(stack[d]) \in DOMAIN name[d]
  BY <1>3
<1>5. stack[d][Len(stack[d])] = NULL_VAL
  BY <1>2, <1>4 DEF ClosureInv, TemporariesNull
<1> QED
  BY <1>3, <1>5

LEMMA SwitchKeeps ==
  ASSUME ClosureInv, NEW d \in Djuru, NEW hasParameter \in BOOLEAN, SwitchTo(d, hasParameter)
  PROVE  ClosureInv'
<1>1. /\ Running /\ d # cur /\ Temporaries(1) /\ frames[d] # <<>> /\ TypeOK /\ FramesOf(d)
      /\ cur' = d /\ start' = Frame(d).start
      /\ UNCHANGED <<memory, frames, open, upvalue, closure, left>>
  BY FrameInvOf DEF SwitchTo, Resume, upvalueVars, ClosureInv
<1>2. /\ \/ UNCHANGED <<stack, name, content>>
         \/ /\ stack' = [stack EXCEPT ![d] = Append(@, NULL_VAL)]
            /\ name' = [name EXCEPT ![d] = Append(@, NewVariable)]
            /\ content' = Append(content, NULL_VAL)
  <2>1. CASE TopSlot(d) > 1
    <3>1. stack' = [stack EXCEPT ![d][TopSlot(d)] = NULL_VAL] /\ UNCHANGED <<name, content>>
      BY <2>1 DEF SwitchTo, Resume
    <3>2. stack' = [stack EXCEPT ![d] = [stack[d] EXCEPT ![Len(stack[d])] = NULL_VAL]]
      BY <3>1 DEF TopSlot
    <3>3. stack' = [stack EXCEPT ![d] = stack[d]]
      BY <1>1, <2>1, <3>2, ResumedSlot DEF TopSlot
    <3>4. stack \in [Djuru -> Seq(Value)]
      BY <1>1 DEF TypeOK
    <3>5. stack' = stack
      BY <3>3, <3>4
    <3> QED
      BY <3>1, <3>5
  <2>2. CASE ~(TopSlot(d) > 1)
    BY <2>2 DEF SwitchTo, Resume, Declare
  <2> QED
    BY <2>1, <2>2
<1>3. /\ frames[d] \in Seq(CallFrame) /\ Len(frames[d]) \in Nat \ {0}
      /\ DOMAIN frames[d] = 1 .. Len(frames[d]) /\ Frame(d).start \in Nat \ {0}
      /\ Len(stack[d]) \in Nat /\ stack[d] \in Seq(Value) /\ name[d] \in Seq(Nat)
      /\ Len(name[d]) = Len(stack[d]) /\ Len(content) \in Nat /\ content \in Seq(Value)
      /\ Frame(d).start <= Len(stack[d])
  <2>1. /\ frames[d] \in Seq(CallFrame) /\ Len(frames[d]) \in Nat \ {0}
        /\ DOMAIN frames[d] = 1 .. Len(frames[d])
        /\ \A i \in 1 .. Len(frames[d]) : frames[d][i].start \in Nat \ {0}
        /\ Len(stack[d]) \in Nat /\ stack[d] \in Seq(Value) /\ name[d] \in Seq(Nat)
        /\ Len(name[d]) = Len(stack[d])
    <3>1. /\ frames[d] \in Seq(CallFrame) /\ Len(frames[d]) \in Nat
          /\ DOMAIN frames[d] = 1 .. Len(frames[d])
          /\ \A i \in 1 .. Len(frames[d]) : frames[d][i].start \in Nat \ {0}
          /\ frames[d] # <<>> <=> Len(frames[d]) > 0
      BY <1>1, Shapes
    <3>2. /\ Len(stack[d]) \in Nat /\ stack[d] \in Seq(Value) /\ name[d] \in Seq(Nat)
          /\ Len(name[d]) = Len(stack[d])
      BY <1>1, Shapes
    <3> QED
      BY <1>1, <3>1, <3>2
  <2>2. Len(frames[d]) \in 1 .. Len(frames[d])
    BY <2>1
  <2>3. Len(content) \in Nat /\ content \in Seq(Value)
    BY <1>1, Shapes DEF TypeOK
  <2> QED
    BY <1>1, <2>1, <2>2, <2>3 DEF FramesOf, Frame
<1>4. ASSUME NEW e \in Djuru, e # d PROVE UNCHANGED <<stack[e], name[e]>>
  <2>1. stack \in [Djuru -> Seq(Value)] /\ name \in [Djuru -> Seq(Nat)]
    BY <1>1 DEF TypeOK
  <2>2. CASE UNCHANGED <<stack, name, content>>
    BY <2>2
  <2>3. CASE /\ stack' = [stack EXCEPT ![d] = Append(@, NULL_VAL)]
             /\ name' = [name EXCEPT ![d] = Append(@, NewVariable)]
    BY <1>4, <2>1, <2>3
  <2> QED
    BY <1>2, <2>2, <2>3
<1>5. Len(stack'[d]) \in Nat /\ Len(stack'[d]) >= Len(stack[d])
  <2>1. CASE UNCHANGED stack
    BY <1>3, <2>1
  <2>2. CASE stack' = [stack EXCEPT ![d] = Append(@, NULL_VAL)]
    <3>1. stack'[d] = Append(stack[d], NULL_VAL)
      BY <1>1, <2>2 DEF TypeOK
    <3>2. Len(Append(stack[d], NULL_VAL)) = Len(stack[d]) + 1
      BY <1>3
    <3> QED
      BY <1>3, <3>1, <3>2
  <2> QED
    BY <1>2, <2>1, <2>2
<1>6. TypeOK' /\ VariablesInv'
  <2>1. CASE UNCHANGED <<stack, name, content>>
    BY <1>1, <1>3, <2>1, NothingTouched
  <2>2. CASE /\ stack' = [stack EXCEPT ![d] = Append(@, NULL_VAL)]
             /\ name' = [name EXCEPT ![d] = Append(@, NewVariable)]
             /\ content' = Append(content, NULL_VAL)
    <3>1. NULL_VAL \in Value /\ NewVariable \in Nat
      BY <1>3, ClosuresAssumption DEF NewVariable
    <3>2. VariablesInv'
      BY <1>1, <2>2, <3>1, PushKeepsVariables
    <3>3. /\ Append(stack[d], NULL_VAL) \in Seq(Value) /\ Append(name[d], NewVariable) \in Seq(Nat)
          /\ Len(Append(name[d], NewVariable)) = Len(Append(stack[d], NULL_VAL))
          /\ Append(content, NULL_VAL) \in Seq(Value)
          /\ DOMAIN content \subseteq DOMAIN Append(content, NULL_VAL)
      BY <1>3, <3>1
    <3>4. stack \in [Djuru -> Seq(Value)] /\ name \in [Djuru -> Seq(Nat)]
      BY <1>1 DEF TypeOK
    <3>5. stack' \in [Djuru -> Seq(Value)] /\ name' \in [Djuru -> Seq(Nat)]
          /\ stack'[d] = Append(stack[d], NULL_VAL) /\ name'[d] = Append(name[d], NewVariable)
      BY <2>2, <3>3, <3>4
    <3>6. \A e \in Djuru : Len(name'[e]) = Len(stack'[e])
      <4>1. ASSUME NEW e \in Djuru, e # d PROVE Len(name'[e]) = Len(stack'[e])
        BY <1>1, <1>4, <4>1 DEF TypeOK
      <4> QED
        BY <3>3, <3>5, <4>1
    <3>7. closure' \in Seq(Closure') /\ Len(closure) <= Len(closure')
      BY <1>1, <2>2, <3>3, ClosureTypesKept
    <3>8. /\ cur' \in Djuru \union {None} /\ start' \in (Nat \ {0}) \union {Freed}
          /\ memory' \in [Djuru -> {"none", "live", "freed"}]
          /\ frames' \in [Djuru -> Seq(CallFrame)] /\ open' \in [Djuru -> Seq(DOMAIN upvalue')]
          /\ upvalue' \in Seq(Upvalue) /\ left' \in Nat
      BY <1>1, <1>3 DEF TypeOK, CallFrame, Upvalue
    <3> QED
      BY <1>1, <2>2, <3>2, <3>3, <3>5, <3>6, <3>7, <3>8, TypesKept
  <2> QED
    BY <1>2, <2>1, <2>2
<1>7. ASSUME NEW e \in Djuru PROVE FramesOf(e)'
  <2>1. CASE e = d
    <3>1. Frame(d).start <= Len(stack'[d])
      BY <1>3, <1>5
    <3> QED
      BY <1>1, <1>5, <2>1, <3>1, FramesKept
  <2>2. CASE e # d
    BY <1>1, <1>4, <2>2, FramesKept
  <2> QED
    BY <2>1, <2>2
<1>8. RegisterFresh' /\ CaptureInv'
  <2>1. left = 0
    BY <1>1, RunningDjuru
  <2> QED
    BY <1>1, <2>1 DEF RegisterFresh, CaptureInv, Frame
<1>9. ASSUME NEW e \in Djuru, e # cur' PROVE WaitingOf(e)'
  <2>1. CASE e = cur
    BY <1>1, <1>4, <1>9, <2>1, LeftWaiting
  <2>2. CASE e # cur
    BY <1>1, <1>4, <1>9, <2>2, WaitingKept
  <2> QED
    BY <2>1, <2>2
<1> QED
  BY <1>6, <1>7, <1>8, <1>9, PartsHold

\* The last frame of a djuru ends: its stack is closed from the first slot on.
LEMMA EndKeeps ==
  ASSUME ClosureInv, NEW d \in Djuru, closeUpvalues(d, 1),
         stack' = [stack EXCEPT ![d] = <<>>], name' = [name EXCEPT ![d] = <<>>],
         frames' = [frames EXCEPT ![d] = <<>>],
         UNCHANGED <<closure, content, left>>,
         cur' \in Djuru \union {None}, start' \in (Nat \ {0}) \union {Freed},
         memory' \in [Djuru -> {"none", "live", "freed"}],
         \A e \in Djuru : e # d => memory'[e] = memory[e]
  PROVE  /\ TypeOK' /\ VariablesInv' /\ WaitingOf(d)'
         /\ \A e \in Djuru : FramesOf(e)'
         /\ \A e \in Djuru : e # d => UNCHANGED <<frames[e], stack[e], name[e]>>
         /\ frames'[d] = <<>>
<1>1. /\ stack \in [Djuru -> Seq(Value)] /\ name \in [Djuru -> Seq(Nat)]
      /\ frames \in [Djuru -> Seq(CallFrame)] /\ Len(stack[d]) \in Nat
  BY Shapes DEF ClosureInv, TypeOK, CallFrame
<1>2. /\ stack'[d] = <<>> /\ name'[d] = <<>> /\ frames'[d] = <<>>
      /\ \A e \in Djuru : e # d => UNCHANGED <<frames[e], stack[e], name[e]>>
  BY <1>1
<1>3. TypeOK' /\ VariablesInv'
  <2>1. /\ <<>> \in Seq(Value) /\ <<>> \in Seq(Nat) /\ Len(<<>>) = 0 /\ 1 - 1 = 0 /\ 0 <= Len(stack[d])
        /\ 1 \in Nat \ {0}
    BY <1>1
  <2>2. frames' \in [Djuru -> Seq(CallFrame)]
    BY <1>1
  <2>3. ASSUME NEW i \in 1 .. Len(<<>>) PROVE FALSE
    BY <2>1
  <2> QED
    BY <2>1, <2>2, <2>3, CutKeepsTypes
<1>4. ASSUME NEW e \in Djuru PROVE FramesOf(e)'
  <2>1. CASE e = d
    <3>1. DOMAIN <<>> = {}
      OBVIOUS
    <3> QED
      BY <1>2, <2>1, <3>1 DEF FramesOf
  <2>2. CASE e # d
    BY <1>2, <2>2, FramesKept
  <2> QED
    BY <2>1, <2>2
<1>5. WaitingOf(d)'
  BY <1>2 DEF WaitingOf
<1> QED
  BY <1>2, <1>3, <1>4, <1>5

\* The frame that ends is the djuru's first, so the register is 1.
LEMMA FirstFrame ==
  ASSUME ClosureInv, Running, Len(frames[cur]) = 1
  PROVE  start = 1
<1>1. start = frames[cur][1].start /\ frames[cur] # <<>> /\ cur \in Djuru
  BY RunningDjuru DEF Frame
<1>2. FramesOf(cur)
  BY <1>1, FrameInvOf DEF ClosureInv
<1> QED
  BY <1>1, <1>2 DEF FramesOf

LEMMA FinishKeeps == ASSUME ClosureInv, Finish PROVE ClosureInv'
<1>1. /\ Running /\ Len(frames[cur]) = 1 /\ closeUpvalues(cur, start)
      /\ frames' = [frames EXCEPT ![cur] = <<>>] /\ stack' = [stack EXCEPT ![cur] = <<>>]
      /\ name' = [name EXCEPT ![cur] = <<>>] /\ cur' = None /\ start' = Freed
      /\ UNCHANGED <<memory, closure, left, content>>
  BY DEF Finish
<1>2. start = 1 /\ cur \in Djuru /\ left = 0
  BY <1>1, FirstFrame, RunningDjuru
<1>3. memory' \in [Djuru -> {"none", "live", "freed"}]
  BY <1>1 DEF ClosureInv, TypeOK
<1>4. /\ TypeOK' /\ VariablesInv' /\ \A e \in Djuru : FramesOf(e)'
      /\ \A e \in Djuru : e # cur => UNCHANGED <<frames[e], stack[e], name[e]>>
      /\ frames'[cur] = <<>>
  BY <1>1, <1>2, <1>3, EndKeeps
<1>5. RegisterFresh' /\ CaptureInv'
  BY <1>1, <1>2 DEF RegisterFresh, CaptureInv
<1>6. ASSUME NEW e \in Djuru PROVE WaitingOf(e)'
  <2>1. CASE e = cur
    BY <1>4, <2>1 DEF WaitingOf
  <2>2. CASE e # cur
    BY <1>4, <2>2, WaitingKept
  <2> QED
    BY <2>1, <2>2
<1> QED
  BY <1>4, <1>5, <1>6, PartsHold

LEMMA FinishIntoKeeps ==
  ASSUME ClosureInv, NEW d \in Djuru, FinishInto(d) PROVE ClosureInv'
<1>1. /\ Running /\ d # cur /\ Len(frames[cur]) = 1 /\ frames[d] # <<>> /\ TopSlot(d) > 1
      /\ closeUpvalues(cur, start)
      /\ frames' = [frames EXCEPT ![cur] = <<>>]
      /\ stack' = [stack EXCEPT ![cur] = <<>>, ![d][TopSlot(d)] = NULL_VAL]
      /\ name' = [name EXCEPT ![cur] = <<>>] /\ cur' = d /\ start' = Frame(d).start
      /\ UNCHANGED <<memory, closure, left, content>> /\ TypeOK
  BY DEF FinishInto, ClosureInv
<1>2. start = 1 /\ cur \in Djuru /\ left = 0
  BY <1>1, FirstFrame, RunningDjuru
<1>3. stack' = [stack EXCEPT ![cur] = <<>>]
  <2>1. stack \in [Djuru -> Seq(Value)]
    BY <1>1 DEF TypeOK
  <2>2. [stack[d] EXCEPT ![Len(stack[d])] = NULL_VAL] = stack[d]
    BY <1>1, ResumedSlot DEF TopSlot
  <2>3. PICK t : t = [stack EXCEPT ![cur] = <<>>]
    OBVIOUS
  <2>4. stack' = [t EXCEPT ![d] = [t[d] EXCEPT ![Len(stack[d])] = NULL_VAL]]
    BY <1>1, <2>3 DEF TopSlot
  <2>5. t[d] = stack[d] /\ t = [e \in Djuru |-> t[e]] /\ DOMAIN t = Djuru
    BY <1>1, <2>1, <2>3
  <2>6. stack' = [t EXCEPT ![d] = t[d]]
    BY <2>2, <2>4, <2>5
  <2> QED
    BY <2>3, <2>5, <2>6
<1>4. /\ memory' \in [Djuru -> {"none", "live", "freed"}] /\ Frame(d).start \in Nat \ {0}
  <2>1. Len(frames[d]) \in 1 .. Len(frames[d])
    BY <1>1, Shapes
  <2> QED
    BY <1>1, <2>1, Shapes DEF TypeOK, Frame
<1>5. /\ TypeOK' /\ VariablesInv' /\ \A e \in Djuru : FramesOf(e)'
      /\ \A e \in Djuru : e # cur => UNCHANGED <<frames[e], stack[e], name[e]>>
      /\ frames'[cur] = <<>>
  <2>1. PICK c \in Djuru : c = cur
    BY <1>2
  <2>2. /\ closeUpvalues(c, 1) /\ stack' = [stack EXCEPT ![c] = <<>>]
        /\ name' = [name EXCEPT ![c] = <<>>] /\ frames' = [frames EXCEPT ![c] = <<>>]
    BY <1>1, <1>2, <1>3, <2>1
  <2>3. /\ TypeOK' /\ VariablesInv' /\ \A e \in Djuru : FramesOf(e)'
        /\ \A e \in Djuru : e # c => UNCHANGED <<frames[e], stack[e], name[e]>>
        /\ frames'[c] = <<>>
    BY <1>1, <1>4, <2>2, EndKeeps
  <2> QED
    BY <2>1, <2>3 DEF WaitingOf
<1>6. RegisterFresh' /\ CaptureInv'
  BY <1>1, <1>2, <1>5 DEF RegisterFresh, CaptureInv, Frame
<1>7. ASSUME NEW e \in Djuru, e # cur' PROVE WaitingOf(e)'
  <2>1. CASE e = cur
    BY <1>5, <2>1 DEF WaitingOf
  <2>2. CASE e # cur
    BY <1>5, <2>2, WaitingKept
  <2> QED
    BY <2>1, <2>2
<1> QED
  BY <1>5, <1>6, <1>7, PartsHold

\* A djuru without open upvalues is freed: no closure's variable is lost.
LEMMA CollectKeeps ==
  ASSUME ClosureInv, NEW d \in Djuru, open[d] = <<>>, Collect(d) PROVE ClosureInv'
<1>1. /\ d # cur /\ memory' = [memory EXCEPT ![d] = "freed"]
      /\ stack' = [stack EXCEPT ![d] = <<>>] /\ name' = [name EXCEPT ![d] = <<>>]
      /\ frames' = [frames EXCEPT ![d] = <<>>] /\ open' = [open EXCEPT ![d] = <<>>]
      /\ UNCHANGED <<cur, start, upvalue, closure, left, content>> /\ TypeOK
  BY DEF Collect, ClosureInv
<1>2. closeUpvalues(d, 1)
  <2>1. Len(open[d]) = 0
    OBVIOUS
  <2>2. Closing(d, 1) \in 0 .. 0
    BY <2>1, WalkStops DEF Closing
  <2>3. Closing(d, 1) = 0
    BY <2>2
  <2>4. SubSeq(<<>>, 0 + 1, Len(<<>>)) = <<>>
    OBVIOUS
  <2>5. open' = [open EXCEPT ![d] = SubSeq(@, Closing(d, 1) + 1, Len(@))]
    BY <1>1, <2>3, <2>4
  <2> DEFINE up(n) == [u \in DOMAIN upvalue |->
                         IF \E i \in 1 .. n : open[d][i] = u
                         THEN [upvalue[u] EXCEPT !.slot = Closed,
                                                 !.closed = stack[d][upvalue[u].slot]]
                         ELSE upvalue[u]]
  <2>6. up(0) = upvalue
    <3>1. ~ \E i \in 1 .. 0 : TRUE
      OBVIOUS
    <3>2. up(0) = [u \in DOMAIN upvalue |-> upvalue[u]]
      BY <3>1
    <3> QED
      BY <1>1, <3>2 DEF TypeOK
  <2>7. upvalue' = up(Closing(d, 1))
    <3> HIDE DEF up
    <3> QED
      BY <1>1, <2>3, <2>6
  <2> QED
    BY <2>5, <2>7, Zenon DEF closeUpvalues
<1>3. /\ memory' \in [Djuru -> {"none", "live", "freed"}]
      /\ \A e \in Djuru : e # d => memory'[e] = memory[e]
      /\ cur' \in Djuru \union {None} /\ start' \in (Nat \ {0}) \union {Freed}
  BY <1>1 DEF TypeOK
<1>4. /\ TypeOK' /\ VariablesInv' /\ WaitingOf(d)' /\ \A e \in Djuru : FramesOf(e)'
      /\ \A e \in Djuru : e # d => UNCHANGED <<frames[e], stack[e], name[e]>>
  BY <1>1, <1>2, <1>3, EndKeeps
<1>5. RegisterFresh' /\ CaptureInv'
  <2>1. cur # None => cur \in Djuru /\ cur # d
    BY <1>1 DEF TypeOK
  <2> QED
    BY <1>1, <1>4, <2>1 DEF ClosureInv, RegisterFresh, CaptureInv, Frame
<1>6. ASSUME NEW e \in Djuru, e # cur' PROVE WaitingOf(e)'
  <2>1. CASE e = d
    BY <1>4, <2>1 DEF WaitingOf, TopSlot
  <2>2. CASE e # d
    BY <1>1, <1>4, <1>6, <2>2, WaitingKept
  <2> QED
    BY <2>1, <2>2
<1> QED
  BY <1>4, <1>5, <1>6, PartsHold

------------------------------------------------------------------------------
(* The theorems.                                                            *)

LEMMA InitClosures == Init => ClosureInv
<1> SUFFICES ASSUME Init PROVE ClosureInv
  OBVIOUS
<1> USE DEF Init
<1>1. TypeOK
  <2>1. <<>> \in Seq(Value) /\ <<>> \in Seq(Nat) /\ <<>> \in Seq(CallFrame)
        /\ <<>> \in Seq(DOMAIN upvalue) /\ <<>> \in Seq(Upvalue) /\ <<>> \in Seq(Closure)
    OBVIOUS
  <2> QED
    BY <2>1 DEF TypeOK, CallFrame, Upvalue, Closure
<1>2. DOMAIN <<>> = {} /\ Len(<<>>) = 0
  OBVIOUS
<1>3. FrameInv /\ NameInv /\ TemporariesNull /\ LocalsKept /\ WaitingInv
  BY <1>2 DEF FrameInv, NameInv, TemporariesNull, LocalsKept, WaitingInv
<1>4. OpenInv /\ BindInv /\ OneUpvaluePerVariable
  BY <1>2 DEF OpenInv, BindInv, OneUpvaluePerVariable
<1>5. RegisterFresh /\ CaptureInv
  BY DEF RegisterFresh, CaptureInv
<1> QED
  BY <1>1, <1>3, <1>4, <1>5 DEF ClosureInv

LEMMA StutterClosures == ASSUME ClosureInv, UNCHANGED vars PROVE ClosureInv'
<1>1. UNCHANGED <<cur, start, memory, stack, name, frames, open, upvalue, closure, left, content>>
  BY DEF vars
<1>2. /\ cur \in Djuru \union {None} /\ start \in (Nat \ {0}) \union {Freed}
  BY DEF ClosureInv, TypeOK
<1>3. TypeOK' /\ VariablesInv' /\ \A d \in Djuru : FramesOf(d)'
  BY <1>1, <1>2, NothingTouched
<1>4. RegisterFresh' /\ CaptureInv'
  BY <1>1 DEF ClosureInv, RegisterFresh, CaptureInv, Frame
<1>5. ASSUME NEW d \in Djuru, d # cur' PROVE WaitingOf(d)'
  BY <1>1, <1>5, WaitingKept
<1> QED
  BY <1>3, <1>4, <1>5, PartsHold

LEMMA StepClosures == ASSUME ClosureInv, SafeNext PROVE ClosureInv'
<1>1. CASE Local
  BY <1>1, PushTemporaryKeeps, DeclareLocalKeeps, StoreLocalKeeps, EndScopeKeeps DEF Local
<1>2. CASE Capture
  <2>1. ASSUME NEW n \in 0 .. MaxCaptures, MakeClosure(n) PROVE ClosureInv'
    <3>1. n \in Nat
      BY ClosuresAssumption
    <3> QED
      BY <2>1, <3>1, MakeClosureKeeps
  <2> QED
    BY <1>2, <2>1, CaptureUpvalueKeeps, ShareUpvalueKeeps, StoreUpvalueKeeps DEF Capture
<1>3. CASE Call
  BY <1>3, CallFunctionKeeps, ReturnKeeps DEF Call
<1>4. CASE Switch
  BY <1>4, InterpretKeeps, DjuruNewKeeps, SwitchKeeps, StopKeeps, FinishKeeps, FinishIntoKeeps
     DEF Switch
<1>5. CASE callExtern(FALSE)
  BY <1>5, CallExternKeeps
<1>6. CASE \E d \in Djuru : open[d] = <<>> /\ Collect(d)
  BY <1>6, CollectKeeps
<1> QED
  BY <1>1, <1>2, <1>3, <1>4, <1>5, <1>6 DEF SafeNext

\* The invariant holds of every behaviour without the two known faults: a
\* foreign method that makes the stack move (callExtern), and a collection that
\* frees a stack into which upvalues still point (MSCBlackenUpvalue).
THEOREM ClosuresInvariant == SafeSpec => []ClosureInv
<1>1. ClosureInv /\ [SafeNext]_vars => ClosureInv'
  BY StepClosures, StutterClosures
<1> QED
  BY <1>1, InitClosures, PTL DEF SafeSpec

\* What a closure reads is what the variable holds: the open upvalue points to
\* the slot of the variable, the closed one has taken its last value.
LEMMA ServedVariablesSeen == ClosureInv => ClosuresSeeVariables
<1> SUFFICES ASSUME ClosureInv, NEW c \in DOMAIN closure,
                    NEW j \in DOMAIN closure[c].upvalues,
                    NEW u, u = closure[c].upvalues[j], NEW x, x = closure[c].bound[j]
             PROVE  Seen(u) = content[x]
  BY DEF ClosuresSeeVariables
<1>1. TypeOK /\ Serves(u, x)
  BY DEF ClosureInv, BindInv
<1>2. u \in DOMAIN upvalue /\ x \in DOMAIN content
  <2>1. closure[c] \in Closure
    BY <1>1, Shapes
  <2>2. /\ closure[c].upvalues \in Seq(DOMAIN upvalue) /\ closure[c].bound \in Seq(DOMAIN content)
        /\ DOMAIN closure[c].bound = DOMAIN closure[c].upvalues
    BY <2>1 DEF Closure, ClosureInv, BindInv
  <2> QED
    BY <2>2
<1>3. CASE upvalue[u].slot = Closed
  BY <1>1, <1>3 DEF Serves, Seen
<1>4. CASE upvalue[u].slot # Closed
  <2>1. PICK d \in Djuru : d = upvalue[u].djuru
    BY <1>2, OpenUpvalue
  <2>2. PICK slot \in 1 .. Len(stack[d]) : slot = upvalue[u].slot
    BY <1>2, <1>4, <2>1, OpenUpvalue
  <2>3. name[d][slot] = x
    BY <1>1, <1>4, <2>1, <2>2 DEF Serves
  <2>4. x # 0 /\ slot \in DOMAIN stack[d]
    BY <1>1, <1>2, <2>2, Shapes
  <2>5. stack[d][slot] = content[x]
    BY <2>3, <2>4 DEF ClosureInv, LocalsKept
  <2>6. memory[d] = "live"
    <3>1. stack[d] # <<>>
      BY <2>4
    <3> QED
      BY <3>1 DEF ClosureInv, FrameInv
  <2>7. Valid(u)
    BY <2>1, <2>2, <2>4, <2>6 DEF Valid
  <2> QED
    BY <1>4, <2>1, <2>2, <2>5, <2>7 DEF Seen
<1> QED
  BY <1>3, <1>4

\* A closure reads of each variable it captured what was last stored in it.
THEOREM VariablesSeen == SafeSpec => []ClosuresSeeVariables
  BY ClosuresInvariant, ServedVariablesSeen, PTL
=============================================================================
