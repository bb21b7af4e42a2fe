---------------------------- MODULE HashMapProofs ----------------------------
(****************************************************************************)
(* Proofs about the hash table: the walk of findEntry, what an insertion    *)
(* and a removal do to a table, the inductive invariant MapInv, and, from   *)
(* it, that the table is a finite map, never sparse, and that loops give    *)
(* each entry once.                                                         *)
(****************************************************************************)
EXTENDS HashMapRefinement, Induction, FiniteSetTheorems

\* The turns of the walk are numbered from 0, and differ between slots.
LEMMA TurnsOfSlots ==
  ASSUME NEW c \in Nat, NEW k \in Key, NEW x \in 0 .. c - 1
  PROVE  /\ Turns(c, k, x) \in Nat
         /\ \A y \in 0 .. c - 1 : Turns(c, k, x) = Turns(c, k, y) => x = y
<1>1. Hash[k] \in Nat /\ c > 0
  BY HashMapAssumption
<1> DEFINE s == Hash[k] % c
<1>2. s \in 0 .. c - 1
  BY <1>1
<1> HIDE DEF s
<1>3. \A y \in 0 .. c - 1 : Turns(c, k, y) = IF y >= s THEN y - s ELSE y - s + c
  BY DEF Turns, s
<1> QED
  BY <1>2, <1>3

\* findEntry finds a slot to insert at as long as one slot is not used.
LEMMA GapExists ==
  ASSUME NEW c \in Nat, NEW e \in [0 .. c - 1 -> Entry], NEW k \in Key,
         Used(e, c) # 0 .. c - 1
  PROVE  \E x \in 0 .. c - 1 : Gap(e, c, k, x)
<1> DEFINE free == 0 .. c - 1 \ Used(e, c)
           T == {Turns(c, k, x) : x \in free}
<1>1. free # {} /\ \A x \in free : x \in 0 .. c - 1 /\ e[x].key = UNDEFINED_VAL
  BY DEF Used
<1>2. T \in SUBSET Nat /\ T # {}
  BY <1>1, TurnsOfSlots
<1>3. PICK n \in T : \A m \in T : n <= m
  BY <1>2, LeastMember
<1>4. PICK x \in free : n = Turns(c, k, x)
  OBVIOUS
<1>5. ASSUME NEW y \in Passed(c, k, x) PROVE e[y].key # UNDEFINED_VAL
  <2>1. y \in 0 .. c - 1 /\ Turns(c, k, y) < Turns(c, k, x)
    BY DEF Passed
  <2>2. ASSUME y \in free PROVE FALSE
    <3>1. Turns(c, k, y) \in T /\ n \in Nat /\ Turns(c, k, y) \in Nat
      BY <1>2, <2>1, <2>2, TurnsOfSlots
    <3>2. n <= Turns(c, k, y)
      BY <1>3, <3>1
    <3> QED
      BY <1>4, <2>1, <3>1, <3>2
  <2> QED
    BY <2>1, <2>2 DEF Used
<1> QED
  BY <1>1, <1>4, <1>5 DEF Gap

\* In a sound table two entries have different keys.
LEMMA KeysDiffer ==
  ASSUME NEW c \in Nat, NEW e \in [0 .. c - 1 -> Entry], Sound(e, c),
         NEW x \in Used(e, c), NEW y \in Used(e, c), x # y
  PROVE  e[x].key # e[y].key
<1> SUFFICES ASSUME e[x].key = e[y].key PROVE FALSE
  OBVIOUS
<1> DEFINE k == e[x].key
<1>1. x \in 0 .. c - 1 /\ y \in 0 .. c - 1 /\ k \in Key
  BY DEF Used, Entry
<1>2. Hit(e, c, k, x) /\ Hit(e, c, k, y)
  BY DEF Sound
<1>3. x \notin Passed(c, k, y) /\ y \notin Passed(c, k, x)
  BY <1>2 DEF Hit
<1> HIDE DEF k
<1> QED
  BY <1>1, <1>3, TurnsOfSlots DEF Passed

\* A sound table finds the keys of its entries and no others.
LEMMA FoundKeys ==
  ASSUME NEW c \in Nat, NEW e \in [0 .. c - 1 -> Entry], Sound(e, c), NEW k \in Key
  PROVE  Found(e, c, k) <=> \E x \in Used(e, c) : e[x].key = k
<1>1. ASSUME Found(e, c, k) PROVE \E x \in Used(e, c) : e[x].key = k
  BY <1>1, HashMapAssumption DEF Found, Hit, Used
<1>2. ASSUME NEW x \in Used(e, c), e[x].key = k PROVE Found(e, c, k)
  BY <1>2 DEF Sound, Found, Used
<1> QED
  BY <1>1, <1>2

\* Writing an entry where insertEntries does keeps a table sound. Its slot
\* becomes used, and nothing else changes; it was used if the key was there.
LEMMA InsertKeepsSound ==
  ASSUME NEW c \in Nat, NEW e \in [0 .. c - 1 -> Entry], Sound(e, c),
         NEW new \in [key : Key, value : Value],
         NEW x \in 0 .. c - 1, Target(e, c, new.key, x),
         NEW f, f = [e EXCEPT ![x] = new]
  PROVE  /\ f \in [0 .. c - 1 -> Entry]
         /\ Sound(f, c)
         /\ Used(f, c) = Used(e, c) \union {x}
         /\ x \in Used(e, c) <=> Found(e, c, new.key)
<1> DEFINE k == new.key
<1>0. k \in Key /\ k # UNDEFINED_VAL /\ Target(e, c, k, x) /\ \A y \in 0 .. c - 1 : e[y] \in Entry
  BY HashMapAssumption
<1>1. f \in [0 .. c - 1 -> Entry]
  BY DEF Entry
<1>2. f[x] = new /\ \A y \in 0 .. c - 1 : y # x => f[y] = e[y]
  OBVIOUS
<1>3. Used(f, c) = Used(e, c) \union {x}
  BY <1>0, <1>2 DEF Used
<1>4. x \in Used(e, c) <=> Found(e, c, k)
  BY <1>0 DEF Target, Gap, Used, Hit, Found
<1>5. \A y \in Used(e, c) : y # x => e[y].key # k
  <2>1. CASE Found(e, c, k)
    <3>1. Hit(e, c, k, x)
      BY <1>4, <2>1 DEF Target
    <3> QED
      BY <1>4, <2>1, <3>1, KeysDiffer DEF Hit
  <2>2. CASE ~Found(e, c, k)
    BY <1>0, <2>2, FoundKeys
  <2> QED
    BY <2>1, <2>2
<1>6. f[x] # Empty /\ f[x].key = k
  BY <1>0, <1>2 DEF Empty
<1> HIDE DEF k
<1>7. ASSUME NEW y \in Used(f, c) PROVE Hit(f, c, f[y].key, y)
  <2>1. CASE y = x
    <3>1. ASSUME NEW z \in Passed(c, k, x) PROVE f[z] # Empty /\ f[z].key # k
      <4>1. z \in 0 .. c - 1 /\ z # x
        BY <1>0, TurnsOfSlots DEF Passed
      <4>2. e[z] # Empty
        BY <1>0, <4>1, <3>1 DEF Target, Hit, Gap, Empty
      <4>3. e[z].key # k
        BY <1>0, <1>5, <4>1 DEF Used
      <4> QED
        BY <1>2, <4>1, <4>2, <4>3
    <3> QED
      BY <2>1, <1>6, <3>1 DEF Hit
  <2>2. CASE y # x
    <3>1. y \in Used(e, c) /\ f[y] = e[y] /\ Hit(e, c, e[y].key, y)
      BY <1>2, <1>3, <2>2 DEF Sound, Used
    <3>2. e[y].key # k
      BY <1>5, <2>2, <3>1
    <3>3. ASSUME NEW z \in Passed(c, e[y].key, y)
          PROVE  f[z] # Empty /\ f[z].key # e[y].key
      BY <1>2, <1>6, <3>1, <3>2 DEF Hit, Passed
    <3> QED
      BY <3>1, <3>3 DEF Hit
  <2> QED
    BY <2>1, <2>2
<1>8. Sound(f, c)
  BY <1>7 DEF Sound
<1> QED
  BY <1>1, <1>3, <1>4, <1>8 DEF k

\* A tombstone keeps a table sound: walks go on past it.
LEMMA RemoveKeepsSound ==
  ASSUME NEW c \in Nat, NEW e \in [0 .. c - 1 -> Entry], Sound(e, c),
         NEW x \in Used(e, c), NEW f, f = [e EXCEPT ![x] = Tombstone]
  PROVE  /\ f \in [0 .. c - 1 -> Entry]
         /\ Sound(f, c)
         /\ Used(f, c) = Used(e, c) \ {x}
<1>1. f \in [0 .. c - 1 -> Entry]
  BY HashMapAssumption DEF Entry, Tombstone
<1>2. /\ x \in 0 .. c - 1
      /\ f[x].key = UNDEFINED_VAL
      /\ f[x] # Empty
      /\ \A y \in 0 .. c - 1 : y # x => f[y] = e[y]
  BY HashMapAssumption DEF Tombstone, Empty, Used
<1>3. Used(f, c) = Used(e, c) \ {x}
  BY <1>2 DEF Used
<1>4. ASSUME NEW y \in Used(f, c) PROVE Hit(f, c, f[y].key, y)
  <2>1. y \in Used(e, c) /\ f[y] = e[y] /\ Hit(e, c, e[y].key, y) /\ y # x
    BY <1>2, <1>3 DEF Sound, Used
  <2>2. e[y].key # UNDEFINED_VAL
    BY <2>1 DEF Used
  <2> QED
    BY <1>2, <2>1, <2>2 DEF Hit, Passed
<1> QED
  BY <1>1, <1>3, <1>4 DEF Sound

------------------------------------------------------------------------------
(* Capacities and counts.                                                   *)

\* Below the bound the load limit does not wrap, and leaves a slot free.
LEMMA LimitBounds ==
  ASSUME NoWrap, NEW c \in 0 .. MaxCapacity
  PROVE  /\ Limit(c) = (c * 90) \div 100
         /\ Limit(c) \in Nat
         /\ c > 0 => Limit(c) < c
<1>1. Word \in Nat /\ MaxCapacity \in Nat /\ c \in Nat
  BY HashMapAssumption
<1>2. c * 90 \in Nat /\ c * 90 < Word
  BY <1>1 DEF NoWrap, MAP_LOAD_PERCENT
<1>3. (c * 90) % Word = c * 90
  BY <1>1, <1>2
<1>4. Limit(c) = (c * 90) \div 100
  BY <1>3 DEF Limit, MAP_LOAD_PERCENT
<1> QED
  BY <1>1, <1>4

\* A map that is full to its limit is resized to one that has room.
LEMMA GrowthMakesRoom ==
  ASSUME NoWrap, NEW c \in 0 .. MaxCapacity, c = 0 \/ c >= MinCapacity,
         NEW n \in Nat, n <= Limit(c),
         NEW d, d = AtLeastMin((c * MAP_GROW_FACTOR) % Word), d <= MaxCapacity
  PROVE  d \in MinCapacity .. MaxCapacity /\ n + 1 <= Limit(d)
<1>1. /\ Word \in Nat /\ MaxCapacity \in Nat /\ c \in Nat
      /\ MinCapacity \in Nat /\ MinCapacity >= 2
  BY HashMapAssumption
<1>2. c * 2 \in Nat /\ c * 2 < Word
  BY <1>1 DEF NoWrap, MAP_LOAD_PERCENT
<1>3. (c * 2) % Word = c * 2
  BY <1>1, <1>2
<1>4. d = IF c * 2 < MinCapacity THEN MinCapacity ELSE c * 2
  BY <1>3 DEF AtLeastMin, MAP_GROW_FACTOR
<1>5. d \in MinCapacity .. MaxCapacity /\ d >= 2 /\ d >= c * 2
  BY <1>1, <1>4
<1>6. Limit(c) = (c * 90) \div 100 /\ Limit(d) = (d * 90) \div 100
  BY <1>1, <1>5, LimitBounds
<1> QED
  BY <1>1, <1>5, <1>6

\* A map that is shrunk still has room for what it holds.
LEMMA ShrinkKeepsRoom ==
  ASSUME NoWrap, NEW c \in 0 .. MaxCapacity, c > MinCapacity,
         NEW n \in Nat, n < Limit(c \div MAP_GROW_FACTOR),
         NEW d, d = AtLeastMin(c \div MAP_GROW_FACTOR)
  PROVE  d \in MinCapacity .. MaxCapacity /\ n <= Limit(d)
<1>1. /\ MaxCapacity \in Nat /\ c \in Nat
      /\ MinCapacity \in Nat /\ MinCapacity >= 2
  BY HashMapAssumption
<1>2. /\ d = IF c \div 2 < MinCapacity THEN MinCapacity ELSE c \div 2
      /\ n < Limit(c \div 2)
  BY DEF AtLeastMin, MAP_GROW_FACTOR
<1>3. c \div 2 \in 0 .. MaxCapacity /\ d \in MinCapacity .. MaxCapacity
      /\ d >= c \div 2
  BY <1>1, <1>2
<1>4. d \in 0 .. MaxCapacity
  BY <1>1, <1>3
<1>5. Limit(c \div 2) = ((c \div 2) * 90) \div 100 /\ Limit(d) = (d * 90) \div 100
  BY <1>3, <1>4, LimitBounds
<1> QED
  BY <1>1, <1>2, <1>3, <1>5

\* The used slots are finitely many, and all of them only if they are c.
LEMMA UsedCount ==
  ASSUME NEW c \in Nat, NEW e \in [0 .. c - 1 -> Entry]
  PROVE  /\ IsFiniteSet(Used(e, c))
         /\ Cardinality(Used(e, c)) \in Nat
         /\ Used(e, c) = 0 .. c - 1 => Cardinality(Used(e, c)) = c
<1>1. IsFiniteSet(0 .. c - 1) /\ Cardinality(0 .. c - 1) = c
  BY FS_Interval
<1>2. Used(e, c) \in SUBSET (0 .. c - 1)
  BY DEF Used
<1>3. IsFiniteSet(Used(e, c))
  BY <1>1, <1>2, FS_Subset
<1> QED
  BY <1>1, <1>3, FS_CardinalityType

\* A sound table with fewer entries than slots never fails the assertion.
LEMMA NeverStuck ==
  ASSUME NEW c \in Nat, NEW e \in [0 .. c - 1 -> Entry], NEW k \in Key,
         Cardinality(Used(e, c)) < c
  PROVE  /\ \E x \in 0 .. c - 1 : Target(e, c, k, x)
         /\ ~Stuck(e, c, k)
<1>1. Used(e, c) # 0 .. c - 1
  BY UsedCount
<1>2. \E x \in 0 .. c - 1 : Target(e, c, k, x)
  BY <1>1, GapExists DEF Target, Found
<1> QED
  BY <1>2 DEF Stuck

\* A new array has no entries.
LEMMA NewArray ==
  ASSUME NEW n \in Nat
  PROVE  /\ EmptyArray(n) \in [0 .. n - 1 -> Entry]
         /\ Used(EmptyArray(n), n) = {}
         /\ Sound(EmptyArray(n), n)
<1>1. \A x \in 0 .. n - 1 : EmptyArray(n)[x] = Empty
  BY DEF EmptyArray
<1>2. EmptyArray(n) \in [0 .. n - 1 -> Entry]
  BY HashMapAssumption DEF EmptyArray, Empty, Entry
<1>3. Used(EmptyArray(n), n) = {}
  BY <1>1 DEF Used, Empty
<1> QED
  BY <1>2, <1>3 DEF Sound

------------------------------------------------------------------------------
(* The inductive invariant.                                                 *)

IInv == TypeOK /\ MapInv

\* Only the history of the loop and the result changes.
OnlyHistory ==
  /\ UNCHANGED <<tableVars, pc, pending, resizeVars, spread, failed>>
  /\ result' \in Value \union {NULL_VAL}
  /\ loop' \in Steps \union {NULL_VAL}
  /\ iter' \in Nat \union {NULL_VAL}
  /\ seen' \in SUBSET Key
  /\ twice' \in BOOLEAN /\ changed' \in BOOLEAN /\ moved' \in BOOLEAN

LEMMA HistoryStep == ASSUME IInv, OnlyHistory PROVE IInv'
<1>1. TypeOK'
  BY DEF IInv, OnlyHistory, TypeOK, tableVars, resizeVars
<1>2. PhaseInv' /\ LoadInv'
  BY DEF IInv, OnlyHistory, MapInv, PhaseInv, LoadInv, Coming, tableVars, resizeVars
<1>3. CopyInv'
  BY DEF IInv, OnlyHistory, MapInv, CopyInv, Copied, tableVars, resizeVars
<1>4. EveryEntryFound' /\ CountIsExact' /\ AlwaysRoom'
  BY DEF IInv, OnlyHistory, MapInv, EveryEntryFound, CountIsExact, AlwaysRoom,
         tableVars
<1> QED
  BY <1>1, <1>2, <1>3, <1>4 DEF IInv, MapInv

\* Between C calls, in a map that has an array, no walk gets stuck.
LEMMA LookupsEnd ==
  ASSUME NoWrap, IInv, NEW k \in Key
  PROVE  ~Stuck(entries, capacity, k)
<1>1. CASE capacity = 0
  BY <1>1 DEF Stuck
<1>2. CASE capacity # 0
  <2>1. capacity \in 0 .. MaxCapacity /\ capacity > 0 /\ capacity \in Nat
    BY <1>2, HashMapAssumption DEF IInv, TypeOK
  <2>2. count \in Nat /\ count <= Limit(capacity) /\ count = Cardinality(Used(entries, capacity))
    BY DEF IInv, TypeOK, MapInv, LoadInv, CountIsExact
  <2>3. Cardinality(Used(entries, capacity)) < capacity
    BY <2>1, <2>2, LimitBounds
  <2> QED
    BY <2>1, <2>3, NeverStuck DEF IInv, TypeOK
<1> QED
  BY <1>1, <1>2

\* What MSCMapSet does before insertEntries.
LEMMA SetStarts ==
  ASSUME NoWrap, IInv, pc = "ready", ~failed, NEW k \in Key, NEW v \in Value,
         StartSet(k, v), UNCHANGED <<tableVars, failed, result, loopVars>>,
         spread' \in Nat \union {NULL_VAL}
  PROVE  IInv'
<1>1. /\ capacity \in 0 .. MaxCapacity /\ count \in Nat /\ capacity \in Nat
      /\ capacity = 0 \/ capacity >= MinCapacity
      /\ count <= Limit(capacity) /\ Limit(capacity) \in Nat
      /\ MinCapacity \in Nat /\ MinCapacity >= 2 /\ MaxCapacity \in Nat
  BY HashMapAssumption, LimitBounds
     DEF IInv, TypeOK, MapInv, PhaseInv, LoadInv
<1>2. /\ pending' \in [key : Key, value : Value] /\ pending' # NULL_VAL
      /\ Coming' = 1
  BY HashMapAssumption DEF StartSet, Coming
<1>3. /\ capacity' = capacity /\ count' = count /\ entries' = entries
      /\ failed' = failed
  BY DEF tableVars
<1>4. Copied' = {x \in Used(entries, capacity) : x < turn'}
  BY <1>3 DEF Copied
<1>5. CASE Crowded
  <2> DEFINE d == AtLeastMin((capacity * MAP_GROW_FACTOR) % Word)
  <2>1. StartResize(d)
    BY <1>5 DEF StartSet
  <2>2. d \in MinCapacity .. MaxCapacity /\ count + 1 <= Limit(d)
    BY <1>1, <2>1, GrowthMakesRoom DEF StartResize
  <2> HIDE DEF d
  <2>3. /\ pc' = "resize" /\ room' = d /\ array' = EmptyArray(d) /\ turn' = 0
        /\ d \in Nat /\ d \in 0 .. MaxCapacity
    BY <1>1, <2>1, <2>2 DEF StartResize
  <2>4. array' \in [0 .. room' - 1 -> Entry] /\ CopyInv'
    <3>1. /\ array' \in [0 .. room' - 1 -> Entry] /\ Used(array', room') = {}
          /\ Sound(array', room')
      BY <2>3, NewArray
    <3>2. Copied' = {}
      BY <1>4, <2>3 DEF Used
    <3> QED
      BY <3>1, <3>2 DEF CopyInv
  <2>5. TypeOK'
    BY <1>1, <1>2, <1>3, <2>3, <2>4 DEF IInv, TypeOK, loopVars
  <2>6. PhaseInv' /\ LoadInv'
    BY <1>1, <1>2, <1>3, <2>2, <2>3 DEF PhaseInv, LoadInv
  <2> QED
    BY <1>3, <2>4, <2>5, <2>6
       DEF IInv, MapInv, EveryEntryFound, CountIsExact, AlwaysRoom
<1>6. CASE ~Crowded
  <2>1. pc' = "insert" /\ UNCHANGED resizeVars /\ count + 1 <= Limit(capacity)
    BY <1>1, <1>6 DEF StartSet, Crowded
  <2>2. TypeOK'
    BY <1>2, <1>3, <2>1 DEF IInv, TypeOK, loopVars, resizeVars
  <2>3. PhaseInv' /\ LoadInv'
    BY <1>1, <1>2, <1>3, <2>1 DEF IInv, MapInv, PhaseInv, LoadInv, resizeVars
  <2>4. CopyInv'
    BY <1>3, <1>4, <2>1 DEF IInv, MapInv, CopyInv, Copied, resizeVars
  <2> QED
    BY <1>3, <2>2, <2>3, <2>4
       DEF IInv, MapInv, EveryEntryFound, CountIsExact, AlwaysRoom
<1> QED
  BY <1>5, <1>6

\* What IInv says of the counts when no entry is on its way.
LEMMA Counts ==
  ASSUME NoWrap, IInv
  PROVE  /\ capacity \in 0 .. MaxCapacity /\ capacity \in Nat /\ count \in Nat
         /\ MaxCapacity \in Nat /\ MinCapacity \in Nat /\ MinCapacity >= 2
         /\ Limit(capacity) \in Nat /\ count <= Limit(capacity)
         /\ capacity = 0 => Limit(capacity) = 0
         /\ capacity > 0 => Limit(capacity) < capacity
         /\ count = Cardinality(Used(entries, capacity))
         /\ IsFiniteSet(Used(entries, capacity))
         /\ entries \in [0 .. capacity - 1 -> Entry] /\ Sound(entries, capacity)
<1>1. /\ MaxCapacity \in Nat /\ MinCapacity \in Nat /\ MinCapacity >= 2
      /\ capacity \in 0 .. MaxCapacity /\ count \in Nat
      /\ entries \in [0 .. capacity - 1 -> Entry]
  BY HashMapAssumption DEF IInv, TypeOK
<1>2. /\ count <= Limit(capacity)
      /\ count = Cardinality(Used(entries, capacity))
      /\ Sound(entries, capacity)
  BY DEF IInv, MapInv, LoadInv, CountIsExact, EveryEntryFound
<1>3. capacity \in Nat
  BY <1>1
<1>4. IsFiniteSet(Used(entries, capacity))
  BY <1>1, <1>3, UsedCount
<1>5. /\ Limit(capacity) = (capacity * 90) \div 100
      /\ Limit(capacity) \in Nat
      /\ capacity > 0 => Limit(capacity) < capacity
  BY <1>1, LimitBounds
<1>6. capacity = 0 => Limit(capacity) = 0
  BY <1>5
<1> QED
  BY <1>1, <1>2, <1>3, <1>4, <1>5, <1>6

\* insertEntries finds a slot; the count grows with the used slots.
LEMMA InsertStep == ASSUME NoWrap, IInv, insertEntries PROVE IInv'
<1>1. /\ pc = "insert" /\ ~failed /\ pc' = "ready" /\ pending' = NULL_VAL
      /\ turn = 0 /\ room = 0
      /\ UNCHANGED <<capacity, resizeVars, spread, loop, iter, seen, twice, moved>>
  BY DEF insertEntries, IInv, MapInv, PhaseInv
<1>2. /\ pending \in [key : Key, value : Value]
      /\ count + 1 <= Limit(capacity) /\ capacity > 0
  BY <1>1, Counts DEF IInv, TypeOK, MapInv, PhaseInv, LoadInv, Coming
<1> DEFINE k == pending.key
<1>3. /\ k \in Key /\ pending.value \in Value
      /\ pending = [key |-> k, value |-> pending.value]
  BY <1>2
<1>4. ~Stuck(entries, capacity, k)
  BY <1>3, LookupsEnd
<1>5. PICK x \in 0 .. capacity - 1 :
        /\ Target(entries, capacity, k, x)
        /\ entries' = [entries EXCEPT ![x] = pending]
        /\ IF Found(entries, capacity, k)
           THEN UNCHANGED <<count, changed>>
           ELSE /\ count' = count + 1
                /\ changed' = (loop # NULL_VAL)
        /\ failed' = failed
  <2>1. capacity # 0
    BY <1>2, Counts
  <2> QED
    BY <1>4, <2>1 DEF insertEntries
<1>6. result' \in Value \union {NULL_VAL} /\ changed' \in BOOLEAN
  <2>1. result' \in Value \union {NULL_VAL}
    BY <1>3 DEF insertEntries, IInv, TypeOK
  <2>2. changed' \in BOOLEAN
    BY <1>5 DEF IInv, TypeOK
  <2> QED
    BY <2>1, <2>2
<1>7. /\ entries' \in [0 .. capacity - 1 -> Entry]
      /\ Sound(entries', capacity)
      /\ Used(entries', capacity) = Used(entries, capacity) \union {x}
      /\ x \in Used(entries, capacity) <=> Found(entries, capacity, k)
  BY <1>2, <1>5, Counts, InsertKeepsSound
<1>8. /\ count' = Cardinality(Used(entries', capacity))
      /\ count' \in {count, count + 1}
  <2>1. Cardinality(Used(entries', capacity))
          = IF x \in Used(entries, capacity) THEN count ELSE count + 1
    <3>1. IsFiniteSet(Used(entries, capacity))
          /\ Cardinality(Used(entries, capacity)) = count
      BY Counts
    <3> QED
      BY <1>7, <3>1, FS_AddElement
  <2> QED
    BY <1>5, <1>7, <2>1, Counts
<1>9. TypeOK'
  BY <1>1, <1>5, <1>6, <1>7, <1>8, Counts DEF IInv, TypeOK, resizeVars
<1>10. PhaseInv' /\ LoadInv'
  BY <1>1, <1>2, <1>8, Counts DEF IInv, MapInv, PhaseInv, LoadInv, resizeVars
<1>11. CopyInv'
  <2>1. Used(array, room) = {} /\ Copied' = {}
    BY <1>1 DEF Used, Copied, resizeVars
  <2> QED
    BY <1>1, <2>1 DEF CopyInv, Sound, resizeVars
<1> QED
  BY <1>1, <1>5, <1>7, <1>8, <1>9, <1>10, <1>11
     DEF IInv, MapInv, EveryEntryFound, CountIsExact, AlwaysRoom

\* A turn of MSCMapResize: there is a slot in the new array, and the entry's
\* key is not in it yet.
LEMMA CopyStep == ASSUME NoWrap, IInv, CopyEntry PROVE IInv'
<1>1. /\ pc = "resize" /\ ~failed /\ turn < capacity /\ turn' = turn + 1
      /\ UNCHANGED <<tableVars, pc, pending, room, spread, result, loopVars>>
      /\ turn \in 0 .. capacity /\ turn \in 0 .. capacity - 1
  BY Counts DEF CopyEntry, IInv, TypeOK
<1>2. /\ room \in 0 .. MaxCapacity /\ room \in Nat /\ room > 0
      /\ count <= Limit(room) /\ Limit(room) \in Nat /\ Limit(room) < room
      /\ array \in [0 .. room - 1 -> Entry] /\ Sound(array, room)
  <2>1. /\ room \in 0 .. MaxCapacity /\ room >= MinCapacity
        /\ array \in [0 .. room - 1 -> Entry] /\ Sound(array, room)
    BY <1>1 DEF IInv, TypeOK, MapInv, PhaseInv, CopyInv
  <2>2. room \in Nat /\ room > 0
    BY <2>1, Counts
  <2>3. Limit(room) \in Nat /\ Limit(room) < room
    BY <2>1, <2>2, LimitBounds
  <2>4. count + Coming <= Limit(room) /\ Coming \in {0, 1}
    BY <1>1 DEF IInv, MapInv, LoadInv, Coming
  <2> QED
    BY <2>1, <2>2, <2>3, <2>4, Counts
<1>3. /\ IsFiniteSet(Copied) /\ Copied \subseteq Used(entries, capacity)
      /\ turn \notin Copied
      /\ IsFiniteSet(Used(array, room))
      /\ Cardinality(Used(array, room)) = Cardinality(Copied)
  <2>1. Copied \subseteq Used(entries, capacity) /\ turn \notin Copied
    BY <1>1 DEF Copied
  <2>2. IsFiniteSet(Copied)
    BY <2>1, Counts, FS_Subset
  <2> QED
    BY <1>2, <2>1, <2>2, UsedCount DEF IInv, MapInv, CopyInv
<1> DEFINE entry == entries[turn]
<1>4. CASE entry.key = UNDEFINED_VAL
  <2>1. UNCHANGED <<array, failed>>
    BY <1>4 DEF CopyEntry, Skipped
  <2>2. Copied' = Copied
    BY <1>1, <1>4, Counts DEF Copied, Used, tableVars
  <2>3. TypeOK'
    BY <1>1, <2>1, Counts DEF IInv, TypeOK, tableVars, loopVars
  <2>4. PhaseInv' /\ LoadInv' /\ CopyInv'
    BY <1>1, <2>1, <2>2
       DEF IInv, MapInv, PhaseInv, LoadInv, CopyInv, Coming, tableVars
  <2> QED
    BY <1>1, <2>1, <2>3, <2>4
       DEF IInv, MapInv, EveryEntryFound, CountIsExact, AlwaysRoom, tableVars
<1>5. CASE entry.key # UNDEFINED_VAL
  <2>1. /\ turn \in Used(entries, capacity)
        /\ entry \in Entry /\ entry.key \in Key /\ entry.value \in Value
        /\ entry = [key |-> entry.key, value |-> entry.value]
    BY <1>1, <1>5, Counts DEF Used, Entry
  <2>2. Cardinality(Used(array, room)) < room
    <3>1. Cardinality(Copied) <= count
      BY <1>3, Counts, FS_Subset
    <3> QED
      BY <1>2, <1>3, <3>1, Counts, UsedCount
  <2>3. ~Stuck(array, room, entry.key)
    BY <1>2, <2>1, <2>2, NeverStuck
  <2>4. PICK x \in 0 .. room - 1 :
          /\ Target(array, room, entry.key, x)
          /\ array' = [array EXCEPT ![x] = entry]
          /\ failed' = failed
    BY <1>5, <2>3 DEF CopyEntry, Skipped
  <2>5. ~Found(array, room, entry.key)
    <3>1. ASSUME NEW z \in Used(array, room) PROVE array[z].key # entry.key
      <4>1. PICK y \in Copied : array[z] = entries[y]
        BY DEF IInv, MapInv, CopyInv
      <4> QED
        BY <1>3, <2>1, <4>1, Counts, KeysDiffer
    <3> QED
      BY <1>2, <2>1, <3>1, FoundKeys
  <2>6. /\ array' \in [0 .. room - 1 -> Entry]
        /\ Sound(array', room)
        /\ Used(array', room) = Used(array, room) \union {x}
        /\ x \notin Used(array, room)
    <3>1. PICK new \in [key : Key, value : Value] : new = entry
      BY <2>1
    <3>2. /\ room \in Nat /\ array \in [0 .. room - 1 -> Entry] /\ Sound(array, room)
          /\ Target(array, room, new.key, x) /\ array' = [array EXCEPT ![x] = new]
          /\ ~Found(array, room, new.key)
      BY <1>2, <2>4, <2>5, <3>1
    <3>3. /\ array' \in [0 .. room - 1 -> Entry]
          /\ Sound(array', room)
          /\ Used(array', room) = Used(array, room) \union {x}
          /\ x \in Used(array, room) <=> Found(array, room, new.key)
      BY <3>2, InsertKeepsSound
    <3> QED
      BY <3>2, <3>3
  <2>7. Copied' = Copied \union {turn}
    BY <1>1, <2>1, Counts DEF Copied, Used, tableVars
  <2>8. Cardinality(Used(array', room)) = Cardinality(Copied')
    <3>1. Cardinality(Used(array', room)) = Cardinality(Used(array, room)) + 1
      BY <1>3, <2>6, FS_AddElement
    <3>2. Cardinality(Copied') = Cardinality(Copied) + 1
      BY <1>3, <2>7, FS_AddElement
    <3> QED
      BY <1>3, <3>1, <3>2
  <2>9. {array'[z] : z \in Used(array', room)} = {entries[y] : y \in Copied'}
    <3>1. {array'[z] : z \in Used(array', room)}
            = {array[z] : z \in Used(array, room)} \union {entry}
      BY <1>2, <2>4, <2>6 DEF Used
    <3> QED
      BY <2>7, <3>1 DEF IInv, MapInv, CopyInv
  <2>10. TypeOK'
    BY <1>1, <2>4, <2>6, Counts DEF IInv, TypeOK, tableVars, loopVars
  <2>11. PhaseInv' /\ LoadInv' /\ CopyInv'
    BY <1>1, <2>6, <2>8, <2>9
       DEF IInv, MapInv, PhaseInv, LoadInv, CopyInv, Coming, tableVars
  <2> QED
    BY <1>1, <2>4, <2>10, <2>11
       DEF IInv, MapInv, EveryEntryFound, CountIsExact, AlwaysRoom, tableVars
<1> QED
  BY <1>4, <1>5

\* The new array holds every entry of the old one when it replaces it.
LEMMA FinishStep == ASSUME NoWrap, IInv, FinishResize PROVE IInv'
<1>1. /\ pc = "resize" /\ turn = capacity
      /\ entries' = array /\ capacity' = room
      /\ pc' = IF pending = NULL_VAL THEN "ready" ELSE "insert"
      /\ room' = 0 /\ array' = EmptyArray(0) /\ turn' = 0
      /\ UNCHANGED <<count, pending, spread, failed, result, loop, iter, seen,
                     twice, changed>>
  BY DEF FinishResize
<1>2. Copied = Used(entries, capacity)
  BY <1>1, Counts DEF Copied, Used
<1>3. count' = Cardinality(Used(entries', capacity')) /\ Sound(entries', capacity')
  BY <1>1, <1>2, Counts DEF IInv, MapInv, CopyInv
<1>4. /\ room \in 0 .. MaxCapacity /\ room \in Nat /\ room >= MinCapacity
      /\ array \in [0 .. room - 1 -> Entry] /\ count + Coming <= Limit(room)
      /\ Limit(room) \in Nat /\ Coming \in {0, 1} /\ Coming' = Coming
  BY <1>1, Counts, LimitBounds
     DEF IInv, TypeOK, MapInv, PhaseInv, LoadInv, Coming
<1>5. EmptyArray(0) \in [0 .. 0 - 1 -> Entry] /\ Used(EmptyArray(0), 0) = {}
  BY NewArray
<1>6. moved' \in BOOLEAN
  BY DEF FinishResize
<1>7. TypeOK'
  BY <1>1, <1>4, <1>5, <1>6, Counts DEF IInv, TypeOK
<1>8. PhaseInv' /\ LoadInv'
  BY <1>1, <1>4, Counts DEF PhaseInv, LoadInv
<1>9. CopyInv'
  <2>1. Used(array', room') = {} /\ Copied' = {}
    BY <1>1, <1>5 DEF Copied, Used
  <2> QED
    BY <2>1 DEF CopyInv, Sound
<1> QED
  BY <1>1, <1>3, <1>7, <1>8, <1>9
     DEF IInv, MapInv, EveryEntryFound, CountIsExact, AlwaysRoom

\* Clearing the map leaves nothing to find and nothing to count.
LEMMA ClearStep ==
  ASSUME NoWrap, IInv, pc = "ready", ~failed, Clear,
         UNCHANGED <<pc, pending, resizeVars, spread, loop, iter, seen, twice, moved>>,
         failed' = failed, result' \in Value \union {NULL_VAL}, changed' \in BOOLEAN
  PROVE  IInv'
<1>1. /\ entries' = EmptyArray(0) /\ capacity' = 0 /\ count' = 0
      /\ turn = 0 /\ room = 0
  BY DEF Clear, IInv, MapInv, PhaseInv
<1>2. /\ EmptyArray(0) \in [0 .. 0 - 1 -> Entry] /\ Used(EmptyArray(0), 0) = {}
      /\ Sound(EmptyArray(0), 0)
  BY NewArray
<1>3. Limit(0) \in Nat
  BY Counts, LimitBounds
<1>4. TypeOK'
  BY <1>1, <1>2, Counts DEF IInv, TypeOK, resizeVars
<1>5. PhaseInv' /\ LoadInv'
  BY <1>1, <1>3 DEF IInv, MapInv, PhaseInv, LoadInv, Coming, resizeVars
<1>6. CountIsExact' /\ EveryEntryFound'
  BY <1>1, <1>2, FS_EmptySet DEF CountIsExact, EveryEntryFound
<1>7. CopyInv'
  <2>1. Used(array, room) = {} /\ Copied' = {}
    BY <1>1 DEF Copied, Used, resizeVars
  <2> QED
    BY <1>1, <2>1 DEF CopyInv, Sound, resizeVars
<1> QED
  BY <1>4, <1>5, <1>6, <1>7 DEF IInv, MapInv, AlwaysRoom

\* A removal leaves a tombstone, and shrinks the map only as far as it fits.
LEMMA RemoveStep ==
  ASSUME NoWrap, IInv, NEW k \in Key, MSCMapRemove(k)
  PROVE  IInv'
<1>0. /\ Ready /\ pc = "ready" /\ failed = FALSE
      /\ UNCHANGED <<pending, spread, loop, iter, seen, twice, moved>>
      /\ failed' = Stuck(entries, capacity, k)
  BY DEF MSCMapRemove, Ready, IInv, TypeOK
<1>1. /\ Ready /\ pc = "ready" /\ ~failed /\ failed' = failed
      /\ pending = NULL_VAL /\ pending' = NULL_VAL
      /\ turn = 0 /\ room = 0
      /\ UNCHANGED <<pending, spread, loop, iter, seen, twice, moved>>
  <2>1. failed' = FALSE
    BY <1>0, LookupsEnd DEF Stuck
  <2>2. pending = NULL_VAL /\ turn = 0 /\ room = 0
    BY <1>0 DEF IInv, MapInv, PhaseInv
  <2> QED
    BY <1>0, <2>1, <2>2
<1>2. CASE /\ result' = NULL_VAL
           /\ UNCHANGED <<tableVars, pc, resizeVars, changed>>
  <2>1. OnlyHistory
    BY <1>1, <1>2 DEF OnlyHistory, IInv, TypeOK
  <2> QED
    BY <2>1, HistoryStep
<1>3. ASSUME NEW x \in 0 .. capacity - 1, Hit(entries, capacity, k, x), RemoveAt(x)
      PROVE  IInv'
  <2>1. /\ x \in Used(entries, capacity)
        /\ result' \in Value \union {NULL_VAL} /\ changed' \in BOOLEAN
    BY <1>3, Counts, HashMapAssumption DEF Hit, Used, RemoveAt, Entry
  <2>2. CASE Clear /\ UNCHANGED <<pc, resizeVars>>
    BY <1>1, <2>1, <2>2, ClearStep
  <2>3. CASE /\ entries' = [entries EXCEPT ![x] = Tombstone]
             /\ count' = count - 1
             /\ UNCHANGED capacity
             /\ IF Roomy(count - 1)
                THEN StartResize(AtLeastMin(capacity \div MAP_GROW_FACTOR))
                ELSE UNCHANGED <<pc, resizeVars>>
    <3>0. /\ capacity \in Nat /\ Sound(entries, capacity)
          /\ entries \in [0 .. capacity - 1 -> Entry]
      BY Counts
    <3>1. /\ entries' \in [0 .. capacity - 1 -> Entry]
          /\ Sound(entries', capacity)
          /\ Used(entries', capacity) = Used(entries, capacity) \ {x}
      BY <2>1, <2>3, <3>0, RemoveKeepsSound
    <3>2. Cardinality(Used(entries', capacity)) = count - 1
      <4>1. IsFiniteSet(Used(entries, capacity))
            /\ Cardinality(Used(entries, capacity)) = count
        BY Counts
      <4>2. Cardinality(Used(entries, capacity) \ {x}) = count - 1
        BY ONLY <2>1, <4>1, FS_RemoveElement
      <4> QED
        BY ONLY <3>1, <4>2
    <3>3. count - 1 \in Nat
      BY <2>3, <3>1, <3>2, Counts, UsedCount
    <3>4. CountIsExact' /\ EveryEntryFound' /\ count' <= Limit(capacity')
      BY <2>3, <3>1, <3>2, Counts DEF CountIsExact, EveryEntryFound
    <3>5. Coming = 0 /\ Coming' = 0
      BY <1>1 DEF Coming
    <3>6. CASE Roomy(count - 1)
      <4>1. PICK d : d = AtLeastMin(capacity \div MAP_GROW_FACTOR)
        OBVIOUS
      <4>2. /\ pc' = "resize" /\ room' = d /\ array' = EmptyArray(d)
            /\ turn' = 0 /\ d <= MaxCapacity
        BY <2>3, <3>6, <4>1 DEF StartResize
      <4>3. d \in MinCapacity .. MaxCapacity /\ count - 1 <= Limit(d)
        BY <3>3, <3>6, <4>1, Counts, ShrinkKeepsRoom DEF Roomy
      <4>4. /\ d \in Nat /\ d \in 0 .. MaxCapacity
            /\ EmptyArray(d) \in [0 .. d - 1 -> Entry]
            /\ Used(EmptyArray(d), d) = {}
        <5>1. d \in Nat /\ d \in 0 .. MaxCapacity
          BY <4>3, Counts
        <5> QED
          BY <5>1, NewArray
      <4>5. TypeOK'
        BY <1>1, <2>1, <2>3, <3>1, <3>3, <4>2, <4>4, Counts DEF IInv, TypeOK
      <4>6. PhaseInv'
        BY <1>1, <2>3, <4>2, <4>3, Counts DEF IInv, MapInv, PhaseInv
      <4>7. LoadInv'
        BY <2>3, <3>3, <3>4, <3>5, <4>2, <4>3 DEF LoadInv
      <4>8. CopyInv'
        <5>1. Used(array', room') = {} /\ Copied' = {}
          BY <4>2, <4>4 DEF Copied, Used
        <5> QED
          BY <5>1 DEF CopyInv, Sound
      <4> QED
        BY <1>1, <3>4, <4>5, <4>6, <4>7, <4>8 DEF IInv, MapInv, AlwaysRoom
    <3>7. CASE ~Roomy(count - 1)
      <4>1. UNCHANGED <<pc, resizeVars>>
        BY <2>3, <3>7
      <4>2. TypeOK'
        BY <1>1, <2>1, <2>3, <3>1, <3>3, <4>1, Counts DEF IInv, TypeOK, resizeVars
      <4>3. PhaseInv' /\ LoadInv'
        BY <1>1, <2>3, <3>4, <4>1 DEF IInv, MapInv, PhaseInv, LoadInv, resizeVars
      <4>4. CopyInv'
        <5>1. Used(array, room) = {} /\ Copied' = {}
          BY <1>1, <4>1 DEF Copied, Used, resizeVars
        <5> QED
          BY <1>1, <4>1, <5>1 DEF CopyInv, Sound, resizeVars
      <4> QED
        BY <1>1, <3>4, <4>2, <4>3, <4>4 DEF IInv, MapInv, AlwaysRoom
    <3> QED
      BY <3>6, <3>7
  <2> QED
    BY <1>3, <2>2, <2>3 DEF RemoveAt
<1> QED
  BY <1>2, <1>3 DEF MSCMapRemove

------------------------------------------------------------------------------
(* Every step, and the theorems.                                            *)

LEMMA InitIInv == ASSUME NoWrap, Init PROVE IInv
<1>1. /\ EmptyArray(0) \in [0 .. 0 - 1 -> Entry] /\ Used(EmptyArray(0), 0) = {}
      /\ Sound(EmptyArray(0), 0)
  BY NewArray
<1>2. MaxCapacity \in Nat /\ 0 \in 0 .. MaxCapacity
  BY HashMapAssumption
<1>3. Limit(0) \in Nat
  BY <1>2, LimitBounds
<1>4. TypeOK
  <2>1. /\ entries \in [0 .. capacity - 1 -> Entry] /\ array \in [0 .. room - 1 -> Entry]
        /\ capacity \in 0 .. MaxCapacity /\ room \in 0 .. MaxCapacity
        /\ turn \in 0 .. capacity
    BY <1>1, <1>2 DEF Init
  <2> QED
    BY <2>1 DEF Init, TypeOK
<1>5. PhaseInv /\ LoadInv
  BY <1>3 DEF Init, PhaseInv, LoadInv
<1>6. CountIsExact /\ EveryEntryFound
  BY <1>1, FS_EmptySet DEF Init, CountIsExact, EveryEntryFound
<1>7. CopyInv
  <2>1. Used(array, room) = {} /\ Copied = {} /\ Sound(array, room)
    BY <1>1 DEF Init, Copied, Used
  <2> QED
    BY <2>1 DEF CopyInv
<1> QED
  BY <1>4, <1>5, <1>6, <1>7 DEF Init, IInv, MapInv, AlwaysRoom

\* A lookup changes nothing but the result.
LEMMA LookupStep ==
  ASSUME NoWrap, IInv, Ready, NEW k \in Key,
         result' \in Value \union {NULL_VAL},
         failed' = Stuck(entries, capacity, k),
         UNCHANGED <<tableVars, pc, pending, resizeVars, spread, loopVars>>
  PROVE  IInv'
<1>1. failed' = failed
  BY LookupsEnd DEF Ready, Stuck, IInv, TypeOK
<1>2. OnlyHistory
  BY <1>1 DEF OnlyHistory, IInv, TypeOK, loopVars
<1> QED
  BY <1>2, HistoryStep

\* Only `spread` changes.
LEMMA SpreadStep ==
  ASSUME IInv, spread' \in Nat \union {NULL_VAL},
         UNCHANGED <<tableVars, pc, pending, resizeVars, failed, result, loopVars>>
  PROVE  IInv'
<1>1. TypeOK'
  BY DEF IInv, TypeOK, tableVars, resizeVars, loopVars
<1>2. PhaseInv' /\ LoadInv'
  BY DEF IInv, MapInv, PhaseInv, LoadInv, Coming, tableVars, resizeVars
<1>3. CopyInv'
  <2>1. /\ entries' = entries /\ capacity' = capacity
        /\ array' = array /\ room' = room /\ turn' = turn
    BY DEF tableVars, resizeVars
  <2> QED
    BY <2>1 DEF IInv, MapInv, CopyInv, Copied
<1>4. EveryEntryFound' /\ CountIsExact' /\ AlwaysRoom'
  BY DEF IInv, MapInv, EveryEntryFound, CountIsExact, AlwaysRoom, tableVars
<1> QED
  BY <1>1, <1>2, <1>3, <1>4 DEF IInv, MapInv

\* A primitive that a script calls keeps the invariant.
LEMMA PrimitiveStep == ASSUME NoWrap, IInv, Primitive PROVE IInv'
<1>1. ASSUME NEW k \in Key, NEW v \in Value, MSCMapSet(k, v) PROVE IInv'
  <2>1. /\ pc = "ready" /\ ~failed /\ StartSet(k, v)
        /\ UNCHANGED <<tableVars, failed, result, loopVars>>
        /\ spread' \in Nat \union {NULL_VAL}
    BY <1>1 DEF MSCMapSet, Ready, IInv, TypeOK
  <2> QED
    BY <2>1, SetStarts
<1>2. ASSUME NEW k \in Key, map_subscript(k) PROVE IInv'
  <2>1. result' \in Value \union {NULL_VAL}
    BY <1>2, Counts DEF map_subscript, Entry
  <2> QED
    BY <1>2, <2>1, LookupStep DEF map_subscript
<1>3. ASSUME NEW k \in Key, map_containsKey(k) PROVE IInv'
  <2>1. result' \in Value \union {NULL_VAL}
    BY <1>3, HashMapAssumption DEF map_containsKey
  <2> QED
    BY <1>3, <2>1, LookupStep DEF map_containsKey
<1>4. ASSUME NEW k \in Key, MSCMapRemove(k) PROVE IInv'
  BY <1>4, RemoveStep
<1>5. CASE map_clear
  BY <1>5, ClearStep DEF map_clear, Ready, IInv, TypeOK
<1>6. CASE StartSpread
  <2>1. spread' \in Nat \union {NULL_VAL}
    BY <1>6 DEF StartSpread
  <2> QED
    BY <1>6, <2>1, SpreadStep DEF StartSpread
<1> QED
  BY <1>1, <1>2, <1>3, <1>4, <1>5, <1>6 DEF Primitive

\* So does the rest of a C function that has started.
LEMMA ContinueStep == ASSUME NoWrap, IInv, Continue PROVE IInv'
<1>1. CASE CopyEntry
  BY <1>1, CopyStep
<1>2. CASE FinishResize
  BY <1>2, FinishStep
<1>3. CASE insertEntries
  BY <1>3, InsertStep
<1>4. CASE SpreadEntry
  <2>1. /\ pc = "ready" /\ ~failed /\ spread \in Nat /\ spread < capacity
        /\ spread' \in Nat \union {NULL_VAL}
        /\ UNCHANGED <<tableVars, failed, result, loopVars>>
    BY <1>4 DEF SpreadEntry, IInv, TypeOK
  <2>2. spread \in 0 .. capacity - 1
    BY <2>1, Counts
  <2>3. CASE UNCHANGED <<pc, pending, resizeVars>>
    BY <2>1, <2>3, SpreadStep
  <2>4. CASE /\ entries[spread].key # UNDEFINED_VAL
             /\ StartSet(entries[spread].key, entries[spread].value)
    <3>1. entries[spread].key \in Key /\ entries[spread].value \in Value
      BY <2>2, <2>4, Counts DEF Entry
    <3> QED
      BY <2>1, <2>4, <3>1, SetStarts
  <2> QED
    BY <1>4, <2>3, <2>4 DEF SpreadEntry
<1>5. CASE FinishSpread
  BY <1>5, SpreadStep DEF FinishSpread
<1> QED
  BY <1>1, <1>2, <1>3, <1>4, <1>5 DEF Continue

\* A loop reads the table and writes only its own variables.
LEMMA LoopStep == ASSUME NoWrap, IInv, Loop PROVE IInv'
<1>1. ASSUME NEW step \in Steps, StartLoop(step) PROVE OnlyHistory
  BY <1>1 DEF StartLoop, OnlyHistory, IInv, TypeOK
<1>2. CASE map_iterate
  <2>1. PICK x \in Ahead : /\ iter' = x
                           /\ seen' = seen \union {entries[x].key}
                           /\ twice' = (twice \/ entries[x].key \in seen)
    BY <1>2 DEF map_iterate
  <2>2. x \in Used(entries, capacity)
    BY DEF Ahead
  <2>3. x \in Nat /\ entries[x].key \in Key
    BY <2>2, Counts DEF Used, Entry
  <2>4. OnlyHistory
    BY <1>2, <2>1, <2>3 DEF map_iterate, OnlyHistory, IInv, TypeOK
  <2> QED
    BY <2>4, HistoryStep
<1>3. CASE EndLoop
  <2>1. OnlyHistory
    BY <1>3 DEF EndLoop, OnlyHistory, IInv, TypeOK
  <2> QED
    BY <2>1, HistoryStep
<1> QED
  BY <1>1, <1>2, <1>3, HistoryStep DEF Loop

LEMMA NextIInv == ASSUME NoWrap, IInv, [Next]_vars PROVE IInv'
<1>1. CASE Primitive
  BY <1>1, PrimitiveStep
<1>2. CASE Continue
  BY <1>2, ContinueStep
<1>3. CASE Loop
  BY <1>3, LoopStep
<1>4. CASE UNCHANGED vars
  BY <1>4, SpreadStep DEF vars, IInv, TypeOK
<1> QED
  BY <1>1, <1>2, <1>3, <1>4 DEF Next

\* Types, and the load, phase, copying and reachability facts of MapInv, hold
\* of every execution of the map's C code that stays below the capacity at
\* which the arithmetic of MSCMapSet wraps: for all keys, hashes and bounds.
THEOREM MapInvariant == NoWrap => (Spec => [](TypeOK /\ MapInv))
<1> SUFFICES ASSUME NoWrap PROVE Spec => [](TypeOK /\ MapInv)
  OBVIOUS
<1>1. Init => IInv
  BY InitIInv
<1>2. IInv /\ [Next]_vars => IInv'
  BY NextIInv
<1>3. IInv => TypeOK /\ MapInv
  BY DEF IInv
<1> QED
  BY <1>1, <1>2, <1>3, PTL DEF Spec

\* The arrays have as many slots as their capacities say, the copying loop and
\* the iterator stay in range, and a slot holds a key's entry or a mark.
THEOREM TypesHold == NoWrap => (Spec => []TypeOK)
  BY MapInvariant, PTL

\* findEntry reaches every entry of the map from its key's hash, whatever was
\* set, removed, moved and re-used before.
THEOREM EntriesFound == NoWrap => (Spec => []EveryEntryFound)
<1>1. TypeOK /\ MapInv => EveryEntryFound
  BY DEF MapInv
<1> QED
  BY <1>1, MapInvariant, PTL

\* map->count, which decides when the map grows and shrinks, is the number of
\* entries at every point of the C code.
THEOREM CountExact == NoWrap => (Spec => []CountIsExact)
<1>1. TypeOK /\ MapInv => CountIsExact
  BY DEF MapInv
<1> QED
  BY <1>1, MapInvariant, PTL

\* The assertion of findEntry never fails: below 2^32 / 90 slots there is
\* always an empty slot or a tombstone, in the old array and in the new one.
THEOREM AlwaysRoomBelowTheWord == NoWrap => (Spec => []AlwaysRoom)
<1>1. TypeOK /\ MapInv => AlwaysRoom
  BY DEF MapInv
<1> QED
  BY <1>1, MapInvariant, PTL


------------------------------------------------------------------------------
(* The table implements a finite map.                                       *)

\* A key is mapped to the value of its only entry.
LEMMA ContentsShape ==
  ASSUME NEW c \in Nat, NEW e \in [0 .. c - 1 -> Entry], Sound(e, c)
  PROVE  /\ DOMAIN Contents(e, c) = Keys(e, c)
         /\ Contents(e, c) = [k \in Keys(e, c) |-> Contents(e, c)[k]]
         /\ \A x \in Used(e, c) : Contents(e, c)[e[x].key] = e[x].value
<1>1. ASSUME NEW x \in Used(e, c) PROVE Contents(e, c)[e[x].key] = e[x].value
  <2> DEFINE y == CHOOSE z \in Used(e, c) : e[z].key = e[x].key
  <2>1. y \in Used(e, c) /\ e[y].key = e[x].key
    OBVIOUS
  <2>2. y = x
    BY <2>1, KeysDiffer
  <2>3. e[x].key \in Keys(e, c)
    BY DEF Keys
  <2> QED
    BY <2>2, <2>3 DEF Contents
<1>2. /\ DOMAIN Contents(e, c) = Keys(e, c)
      /\ Contents(e, c) = [k \in Keys(e, c) |-> Contents(e, c)[k]]
  BY DEF Contents
<1> QED
  BY <1>1, <1>2

\* Two arrays with the same entries have the same contents, wherever they are.
LEMMA ContentsMoved ==
  ASSUME NEW c \in Nat, NEW e \in [0 .. c - 1 -> Entry], Sound(e, c),
         NEW d \in Nat, NEW f \in [0 .. d - 1 -> Entry], Sound(f, d),
         {f[x] : x \in Used(f, d)} = {e[x] : x \in Used(e, c)}
  PROVE  Contents(f, d) = Contents(e, c)
<1>1. ASSUME NEW y \in Used(f, d) PROVE \E x \in Used(e, c) : e[x] = f[y]
  OBVIOUS
<1>2. ASSUME NEW x \in Used(e, c) PROVE \E y \in Used(f, d) : e[x] = f[y]
  OBVIOUS
<1>3. Keys(f, d) = Keys(e, c)
  BY <1>1, <1>2 DEF Keys
<1>4. ASSUME NEW k \in Keys(e, c) PROVE Contents(f, d)[k] = Contents(e, c)[k]
  <2>1. PICK x \in Used(e, c) : e[x].key = k
    BY DEF Keys
  <2>2. PICK y \in Used(f, d) : e[x] = f[y]
    BY <1>2
  <2>3. Contents(e, c)[e[x].key] = e[x].value /\ Contents(f, d)[f[y].key] = f[y].value
    BY ContentsShape
  <2> QED
    BY <2>1, <2>2, <2>3
<1> QED
  BY <1>3, <1>4 DEF Contents

\* A finite map with another value for a key, and without a key.
With(D, k, v) == [j \in DOMAIN D \union {k} |-> IF j = k THEN v ELSE D[j]]
Without(D, k) == [j \in DOMAIN D \ {k} |-> D[j]]

\* An insertion adds the key or gives it a new value.
LEMMA ContentsPut ==
  ASSUME NEW c \in Nat, NEW e \in [0 .. c - 1 -> Entry], Sound(e, c),
         NEW f \in [0 .. c - 1 -> Entry], Sound(f, c),
         NEW new \in [key : Key, value : Value], NEW x \in 0 .. c - 1,
         \A y \in 0 .. c - 1 : y \in Used(f, c) <=> y \in Used(e, c) \/ y = x,
         f[x] = new, \A y \in Used(e, c) \ {x} : f[y] = e[y],
         x \in Used(e, c) => e[x].key = new.key
  PROVE  Contents(f, c) = With(Contents(e, c), new.key, new.value)
<1>0. Used(f, c) = Used(e, c) \union {x}
  BY DEF Used
<1>1. Keys(f, c) = Keys(e, c) \union {new.key}
  <2>1. ASSUME NEW k \in Keys(e, c), k # new.key PROVE k \in Keys(f, c)
    <3>1. PICK y \in Used(e, c) : e[y].key = k
      BY DEF Keys
    <3>2. y \in Used(f, c) /\ f[y].key = k
      BY <1>0, <2>1, <3>1
    <3> QED
      BY <3>2 DEF Keys
  <2>2. ASSUME NEW k \in Keys(f, c), k # new.key PROVE k \in Keys(e, c)
    <3>1. PICK y \in Used(f, c) : f[y].key = k
      BY DEF Keys
    <3>2. y \in Used(e, c) /\ e[y].key = k
      BY <1>0, <2>2, <3>1
    <3> QED
      BY <3>2 DEF Keys
  <2>3. new.key \in Keys(f, c)
    BY DEF Keys
  <2> QED
    BY <2>1, <2>2, <2>3
<1>2. /\ DOMAIN Contents(e, c) = Keys(e, c)
      /\ Contents(f, c) = [j \in Keys(f, c) |-> Contents(f, c)[j]]
  BY ContentsShape
<1>3. ASSUME NEW j \in Keys(f, c)
      PROVE  Contents(f, c)[j] = IF j = new.key THEN new.value ELSE Contents(e, c)[j]
  <2>1. PICK y \in Used(f, c) : f[y].key = j
    BY DEF Keys
  <2>2. Contents(f, c)[f[y].key] = f[y].value
    BY ContentsShape
  <2>3. CASE j = new.key
    <3>1. x \in Used(f, c) /\ f[x].key = j
      BY <2>3
    <3>2. y = x
      BY <2>1, <3>1, KeysDiffer
    <3> QED
      BY <2>1, <2>2, <2>3, <3>2
  <2>4. CASE j # new.key
    <3>1. y \in Used(e, c) \ {x}
      BY <1>0, <2>1, <2>4
    <3>2. Contents(e, c)[e[y].key] = e[y].value
      BY <3>1, ContentsShape
    <3> QED
      BY <2>1, <2>2, <2>4, <3>1, <3>2
  <2> QED
    BY <2>3, <2>4
<1> QED
  BY <1>1, <1>2, <1>3 DEF With

\* insertEntries, of any array with room.
LEMMA InsertContents ==
  ASSUME NEW c \in Nat, NEW e \in [0 .. c - 1 -> Entry], Sound(e, c),
         NEW new \in [key : Key, value : Value], NEW x \in 0 .. c - 1,
         Target(e, c, new.key, x)
  PROVE  Contents([e EXCEPT ![x] = new], c) = With(Contents(e, c), new.key, new.value)
<1>1. PICK f : f = [e EXCEPT ![x] = new]
  OBVIOUS
<1>2. f \in [0 .. c - 1 -> Entry] /\ Sound(f, c)
  BY <1>1, InsertKeepsSound
<1>3. \A y \in 0 .. c - 1 : y \in Used(f, c) <=> y \in Used(e, c) \/ y = x
  <2>1. new.key # UNDEFINED_VAL
    BY HashMapAssumption
  <2> QED
    BY <1>1, <2>1 DEF Used
<1>4. f[x] = new /\ \A y \in Used(e, c) \ {x} : f[y] = e[y]
  BY <1>1 DEF Used
<1>5. x \in Used(e, c) => e[x].key = new.key
  BY DEF Target, Hit, Gap, Used
<1>6. Contents(f, c) = With(Contents(e, c), new.key, new.value)
  BY <1>2, <1>3, <1>4, <1>5, ContentsPut
<1> QED
  BY <1>1, <1>6

\* A removal takes the key away, and no other.
LEMMA ContentsRemove ==
  ASSUME NEW c \in Nat, NEW e \in [0 .. c - 1 -> Entry], Sound(e, c),
         NEW f \in [0 .. c - 1 -> Entry], Sound(f, c), NEW x \in Used(e, c),
         Used(f, c) = Used(e, c) \ {x}, \A y \in Used(e, c) \ {x} : f[y] = e[y]
  PROVE  Contents(f, c) = Without(Contents(e, c), e[x].key)
<1>1. ASSUME NEW y \in Used(f, c) PROVE f[y] = e[y] /\ y \in Used(e, c) /\ e[y].key # e[x].key
  <2>1. y \in Used(e, c) /\ y # x
    OBVIOUS
  <2> QED
    BY <2>1, KeysDiffer
<1>2. Keys(f, c) = Keys(e, c) \ {e[x].key}
  <2>1. ASSUME NEW k \in Keys(e, c), k # e[x].key PROVE k \in Keys(f, c)
    <3>1. PICK y \in Used(e, c) : e[y].key = k
      BY DEF Keys
    <3>2. y \in Used(f, c) /\ f[y].key = k
      BY <2>1, <3>1
    <3> QED
      BY <3>2 DEF Keys
  <2>2. ASSUME NEW k \in Keys(f, c) PROVE k \in Keys(e, c) \ {e[x].key}
    <3>1. PICK y \in Used(f, c) : f[y].key = k
      BY DEF Keys
    <3> QED
      BY <1>1, <3>1 DEF Keys
  <2> QED
    BY <2>1, <2>2
<1>3. /\ DOMAIN Contents(e, c) = Keys(e, c)
      /\ Contents(f, c) = [j \in Keys(f, c) |-> Contents(f, c)[j]]
  BY ContentsShape
<1>4. ASSUME NEW j \in Keys(f, c) PROVE Contents(f, c)[j] = Contents(e, c)[j]
  <2>1. PICK y \in Used(f, c) : f[y].key = j
    BY DEF Keys
  <2>2. Contents(f, c)[f[y].key] = f[y].value
    BY ContentsShape
  <2>3. y \in Used(e, c) /\ f[y] = e[y]
    BY <1>1
  <2>4. Contents(e, c)[e[y].key] = e[y].value
    BY <2>3, ContentsShape
  <2> QED
    BY <2>1, <2>2, <2>3, <2>4
<1> QED
  BY <1>2, <1>3, <1>4 DEF Without

\* A lookup of findEntry reads the contents.
LEMMA ContentsHit ==
  ASSUME NEW c \in Nat, NEW e \in [0 .. c - 1 -> Entry], Sound(e, c), NEW k \in Key
  PROVE  /\ Found(e, c, k) <=> k \in DOMAIN Contents(e, c)
         /\ \A x \in 0 .. c - 1 : Hit(e, c, k, x) =>
              x \in Used(e, c) /\ e[x].key = k /\ e[x].value = Contents(e, c)[k]
<1>1. Found(e, c, k) <=> k \in DOMAIN Contents(e, c)
  <2>1. Found(e, c, k) <=> \E x \in Used(e, c) : e[x].key = k
    BY FoundKeys
  <2>2. DOMAIN Contents(e, c) = Keys(e, c)
    BY ContentsShape
  <2> QED
    BY <2>1, <2>2 DEF Keys
<1>2. ASSUME NEW x \in 0 .. c - 1, Hit(e, c, k, x)
      PROVE  x \in Used(e, c) /\ e[x].key = k
  BY <1>2, HashMapAssumption DEF Hit, Used
<1> QED
  BY <1>1, <1>2, ContentsShape

\* An array without used slots, and MSCMapClear's.
LEMMA ContentsEmpty ==
  ASSUME NEW c \in Nat, NEW e \in [0 .. c - 1 -> Entry], Used(e, c) = {}
  PROVE  Contents(e, c) = [k \in {} |-> NULL_VAL]
<1>1. Keys(e, c) = {}
  BY DEF Keys
<1> QED
  BY <1>1 DEF Contents

\* While the map is spread into itself, the entry on its way is in the map.
SpreadInv ==
  spread # NULL_VAL /\ pending # NULL_VAL =>
    \E y \in Used(entries, capacity) : entries[y] = pending

\* What the steps that leave every entry alone are to the finite map.
LEMMA TableKept ==
  ASSUME UNCHANGED <<entries, capacity, result>>
  PROVE  UNCHANGED Map!vars
  BY DEF Map!vars

\* insertEntries puts the entry into the map; the entries of a map that is
\* spread into itself are there already.
LEMMA InsertIsPut ==
  ASSUME NoWrap, IInv, SpreadInv, insertEntries
  PROVE  SpreadInv' /\ (Map!Next \/ UNCHANGED Map!vars)
<1>1. /\ pc = "insert" /\ ~failed /\ pending' = NULL_VAL /\ capacity' = capacity
      /\ pending \in [key : Key, value : Value] /\ pending # NULL_VAL
      /\ count + 1 <= Limit(capacity)
  BY DEF insertEntries, IInv, TypeOK, MapInv, PhaseInv, LoadInv, Coming
<1>2. /\ capacity \in Nat /\ entries \in [0 .. capacity - 1 -> Entry] /\ Sound(entries, capacity)
      /\ capacity # 0
  BY <1>1, Counts
<1>3. PICK new \in [key : Key, value : Value] : new = pending
  BY <1>1
<1>4. new.key \in Key /\ new.value \in Value
  OBVIOUS
<1>5. ~Stuck(entries, capacity, pending.key)
  BY <1>3, <1>4, LookupsEnd
<1>6. PICK x \in 0 .. capacity - 1 :
        Target(entries, capacity, new.key, x) /\ entries' = [entries EXCEPT ![x] = new]
  BY <1>2, <1>3, <1>5 DEF insertEntries
<1>7. PICK f, e, c : f = entries' /\ e = entries /\ c = capacity
  OBVIOUS
<1>8. /\ c \in Nat /\ e \in [0 .. c - 1 -> Entry] /\ Sound(e, c) /\ x \in 0 .. c - 1
      /\ Target(e, c, new.key, x) /\ f = [e EXCEPT ![x] = new]
  BY <1>2, <1>6, <1>7
<1>12. Contents(f, c) = With(Contents(e, c), new.key, new.value)
  BY ONLY <1>8, InsertContents
<1>13. Contents(entries, capacity) = Contents(e, c) /\ Contents(entries', capacity') = Contents(f, c)
  BY <1>1, <1>6, <1>7
<1>14. SpreadInv'
  BY <1>1 DEF SpreadInv
<1>15. CASE spread = NULL_VAL
  <2>1. result' = new.value
    BY <1>3, <1>15 DEF insertEntries
  <2>2. Map!Put(new.key, new.value)
    BY <1>12, <1>13, <2>1 DEF Map!Put, With
  <2> QED
    BY <1>4, <1>14, <2>2 DEF Map!Next
<1>16. CASE spread # NULL_VAL
  <2>1. PICK y \in Used(e, c) : e[y] = new
    BY <1>1, <1>3, <1>7, <1>16 DEF SpreadInv
  <2>2. /\ DOMAIN Contents(e, c) = Keys(e, c)
        /\ Contents(e, c) = [k \in Keys(e, c) |-> Contents(e, c)[k]]
        /\ Contents(e, c)[e[y].key] = e[y].value
    BY <1>8, ContentsShape
  <2>3. new.key \in Keys(e, c)
    BY <2>1 DEF Keys
  <2>4. Contents(f, c) = Contents(e, c)
    BY <1>12, <2>1, <2>2, <2>3 DEF With
  <2>5. result' = result
    BY <1>16 DEF insertEntries
  <2> QED
    BY <1>13, <1>14, <2>4, <2>5 DEF Map!vars
<1> QED
  BY <1>15, <1>16

\* The array that replaces the old one has the same entries.
LEMMA ResizeIsInvisible ==
  ASSUME NoWrap, IInv, SpreadInv, FinishResize
  PROVE  SpreadInv' /\ UNCHANGED Map!vars
<1>1. /\ turn = capacity /\ entries' = array /\ capacity' = room
      /\ UNCHANGED <<pending, spread, result>>
  BY DEF FinishResize
<1>2. /\ capacity \in Nat /\ entries \in [0 .. capacity - 1 -> Entry] /\ Sound(entries, capacity)
  BY Counts
<1>3. room \in Nat /\ array \in [0 .. room - 1 -> Entry] /\ Sound(array, room)
  <2>1. room \in 0 .. MaxCapacity /\ array \in [0 .. room - 1 -> Entry] /\ MaxCapacity \in Nat
    BY HashMapAssumption DEF IInv, TypeOK
  <2>2. Sound(array, room)
    BY DEF IInv, MapInv, CopyInv
  <2> QED
    BY <2>1, <2>2
<1>4. {array[x] : x \in Used(array, room)} = {entries[y] : y \in Used(entries, capacity)}
  <2>1. Copied = Used(entries, capacity)
    BY <1>1, <1>2 DEF Copied, Used
  <2>2. {array[x] : x \in Used(array, room)} = {entries[y] : y \in Copied}
    BY DEF IInv, MapInv, CopyInv
  <2> QED
    BY <2>1, <2>2
<1>5. Contents(array, room) = Contents(entries, capacity)
  BY <1>2, <1>3, <1>4, ContentsMoved
<1>6. SpreadInv'
  <2>1. ASSUME spread # NULL_VAL, pending # NULL_VAL
        PROVE  \E x \in Used(array, room) : array[x] = pending
    <3>1. \E y \in Used(entries, capacity) : entries[y] = pending
      BY <2>1 DEF SpreadInv
    <3>2. pending \in {array[x] : x \in Used(array, room)}
      BY <1>4, <3>1
    <3> QED
      BY <3>2
  <2> QED
    BY <1>1, <2>1 DEF SpreadInv
<1> QED
  BY <1>1, <1>5, <1>6 DEF Map!vars

\* A turn of MSCMapAddAll takes its entry from the map.
LEMMA SpreadTakesOwn ==
  ASSUME NoWrap, IInv, SpreadEntry
  PROVE  SpreadInv' /\ UNCHANGED Map!vars
<1>1. /\ UNCHANGED <<capacity, entries, result>> /\ pc = "ready" /\ spread < capacity
      /\ spread # NULL_VAL
      /\ \/ entries[spread].key = UNDEFINED_VAL /\ pending' = pending
         \/ /\ entries[spread].key # UNDEFINED_VAL
            /\ pending' = [key |-> entries[spread].key, value |-> entries[spread].value]
  BY DEF SpreadEntry, StartSet, tableVars
<1>2. /\ capacity \in Nat /\ entries \in [0 .. capacity - 1 -> Entry] /\ pending = NULL_VAL
      /\ spread \in 0 .. capacity - 1
  BY <1>1, Counts DEF IInv, TypeOK, MapInv, PhaseInv
<1>3. entries[spread] = [key |-> entries[spread].key, value |-> entries[spread].value]
  BY <1>2 DEF Entry
<1>4. SpreadInv'
  <2>1. CASE pending' = pending
    BY <1>2, <2>1 DEF SpreadInv
  <2>2. CASE /\ entries[spread].key # UNDEFINED_VAL
             /\ pending' = [key |-> entries[spread].key, value |-> entries[spread].value]
    <3>1. spread \in Used(entries, capacity) /\ entries[spread] = pending'
      BY <1>2, <1>3, <2>2 DEF Used
    <3> QED
      BY <1>1, <3>1 DEF SpreadInv
  <2> QED
    BY <1>1, <2>1, <2>2
<1> QED
  BY <1>1, <1>4, TableKept

\* A removal takes the key's entry and returns its value.
LEMMA RemoveIsRemove ==
  ASSUME NoWrap, IInv, NEW k \in Key, MSCMapRemove(k)
  PROVE  Map!Remove(k)
<1>1. /\ capacity \in Nat /\ entries \in [0 .. capacity - 1 -> Entry] /\ Sound(entries, capacity)
      /\ count = Cardinality(Used(entries, capacity)) /\ IsFiniteSet(Used(entries, capacity))
  BY Counts
<1> DEFINE D == Contents(entries, capacity)
<1>2. /\ DOMAIN D = Keys(entries, capacity) /\ D = [j \in Keys(entries, capacity) |-> D[j]]
      /\ Found(entries, capacity, k) <=> k \in DOMAIN D
      /\ \A x \in 0 .. capacity - 1 : Hit(entries, capacity, k, x) =>
           x \in Used(entries, capacity) /\ entries[x].key = k /\ entries[x].value = D[k]
  BY <1>1, ContentsShape, ContentsHit
<1> HIDE DEF D
<1>3. CASE ~Found(entries, capacity, k) /\ result' = NULL_VAL /\ UNCHANGED tableVars
  <2>1. k \notin DOMAIN D /\ result' = NULL_VAL
    BY <1>2, <1>3
  <2>2. Contents(entries', capacity') = D
    BY <1>3 DEF D, tableVars
  <2>3. D = [j \in DOMAIN D \ {k} |-> D[j]]
    BY <1>2, <2>1
  <2> QED
    BY <2>1, <2>2, <2>3 DEF Map!Remove, D
<1>4. ASSUME NEW x \in 0 .. capacity - 1, Hit(entries, capacity, k, x), RemoveAt(x)
      PROVE  Map!Remove(k)
  <2>1. x \in Used(entries, capacity) /\ entries[x].key = k /\ entries[x].value = D[k]
    BY <1>2, <1>4
  <2>2. k \in DOMAIN D /\ result' = D[k]
    BY <1>2, <1>4, <2>1 DEF RemoveAt, Found
  <2>3. Contents(entries', capacity') = [j \in DOMAIN D \ {k} |-> D[j]]
    <3>1. CASE count = 1 /\ Clear
      <4>1. Used(entries, capacity) = {x}
        <5>1. Cardinality(Used(entries, capacity) \ {x}) = 0
          <6>1. Cardinality(Used(entries, capacity)) = 1
            BY <1>1, <3>1
          <6>2. Cardinality(Used(entries, capacity) \ {x}) = 1 - 1
            BY ONLY <1>1, <2>1, <6>1, FS_RemoveElement
          <6> QED
            BY <6>2
        <5>2. IsFiniteSet(Used(entries, capacity) \ {x})
          BY <1>1, FS_Subset
        <5>3. Used(entries, capacity) \ {x} = {}
          BY <5>1, <5>2, FS_EmptySet
        <5> QED
          BY <2>1, <5>3
      <4>2. DOMAIN D \ {k} = {}
        BY <1>2, <2>1, <4>1 DEF Keys
      <4>3. Used(EmptyArray(0), 0) = {}
        BY NewArray
      <4>4. Contents(EmptyArray(0), 0) = [j \in {} |-> NULL_VAL]
        BY <4>3, NewArray, ContentsEmpty
      <4>5. [j \in {} |-> NULL_VAL] = [j \in {} |-> D[j]]
        OBVIOUS
      <4> QED
        BY <3>1, <4>2, <4>4, <4>5 DEF Clear
    <3>2. CASE entries' = [entries EXCEPT ![x] = Tombstone] /\ UNCHANGED capacity
      <4>1. PICK f : f = [entries EXCEPT ![x] = Tombstone]
        OBVIOUS
      <4>2. /\ f \in [0 .. capacity - 1 -> Entry] /\ Sound(f, capacity)
            /\ Used(f, capacity) = Used(entries, capacity) \ {x}
        BY <1>1, <2>1, <4>1, RemoveKeepsSound
      <4>3. \A y \in Used(entries, capacity) \ {x} : f[y] = entries[y]
        BY <1>1, <4>1 DEF Used
      <4>4. Contents(f, capacity) = Without(Contents(entries, capacity), entries[x].key)
        BY <1>1, <2>1, <4>2, <4>3, ContentsRemove
      <4> QED
        BY <2>1, <3>2, <4>1, <4>4 DEF D, Without
    <3> QED
      BY <1>4, <3>1, <3>2 DEF RemoveAt
  <2> QED
    BY <2>2, <2>3 DEF Map!Remove, D
<1> QED
  BY <1>3, <1>4 DEF MSCMapRemove

\* A primitive: a set's StartSet, a self-spread's start and a lookup's misses
\* leave the table alone.
LEMMA PrimitiveIsOne ==
  ASSUME NoWrap, IInv, Primitive
  PROVE  SpreadInv' /\ (Map!Next \/ UNCHANGED Map!vars)
<1>1. spread = NULL_VAL /\ pending = NULL_VAL
  BY DEF Primitive, MSCMapSet, map_subscript, map_containsKey, MSCMapRemove, map_clear,
         StartSpread, Ready, IInv, MapInv, PhaseInv
<1>2. capacity \in Nat /\ entries \in [0 .. capacity - 1 -> Entry] /\ Sound(entries, capacity)
  BY Counts
<1>3. spread' = NULL_VAL \/ pending' = NULL_VAL
  BY <1>1 DEF Primitive, MSCMapSet, map_subscript, map_containsKey, MSCMapRemove, map_clear,
              StartSpread
<1>4. SpreadInv'
  BY <1>3 DEF SpreadInv
<1>5. ASSUME NEW k \in Key, NEW v \in Value, MSCMapSet(k, v) PROVE UNCHANGED Map!vars
  BY <1>5, TableKept DEF MSCMapSet, tableVars
<1>6. ASSUME NEW k \in Key, map_subscript(k) PROVE Map!Get(k)
  <2>1. entries' = entries /\ capacity' = capacity
    BY <1>6 DEF map_subscript, tableVars
  <2>2. Contents(entries', capacity') = Contents(entries, capacity)
    BY <2>1
  <2>3. CASE ~Found(entries, capacity, k) /\ result' = NULL_VAL
    <3>1. k \notin DOMAIN Contents(entries, capacity)
      BY <1>2, <2>3, ContentsHit
    <3> QED
      BY <2>2, <2>3, <3>1 DEF Map!Get
  <2>4. ASSUME NEW x \in 0 .. capacity - 1, Hit(entries, capacity, k, x), result' = entries[x].value
        PROVE  Map!Get(k)
    <3>1. Found(entries, capacity, k)
      BY <2>4 DEF Found
    <3>2. k \in DOMAIN Contents(entries, capacity)
      BY <1>2, <3>1, ContentsHit
    <3>3. entries[x].value = Contents(entries, capacity)[k]
      BY <1>2, <2>4, ContentsHit
    <3> QED
      BY <2>2, <2>4, <3>2, <3>3 DEF Map!Get
  <2> QED
    BY <1>6, <2>3, <2>4 DEF map_subscript
<1>7. ASSUME NEW k \in Key, map_containsKey(k) PROVE Map!Contains(k)
  <2>1. entries' = entries /\ capacity' = capacity
    BY <1>7 DEF map_containsKey, tableVars
  <2>2. Contents(entries', capacity') = Contents(entries, capacity)
    BY <2>1
  <2>3. Found(entries, capacity, k) <=> k \in DOMAIN Contents(entries, capacity)
    BY <1>2, ContentsHit
  <2>4. result' = IF Found(entries, capacity, k) THEN TRUE_VAL ELSE FALSE_VAL
    BY <1>7 DEF map_containsKey
  <2> QED
    BY <2>2, <2>3, <2>4 DEF Map!Contains
<1>8. CASE map_clear
  <2>1. Contents(entries', capacity') = [j \in {} |-> NULL_VAL]
    <3>1. entries' = EmptyArray(0) /\ capacity' = 0
      BY <1>8 DEF map_clear, Clear
    <3>2. Contents(EmptyArray(0), 0) = [j \in {} |-> NULL_VAL]
      BY NewArray, ContentsEmpty
    <3> QED
      BY <3>1, <3>2
  <2>2. Map!Clear
    BY <1>8, <2>1 DEF map_clear, Map!Clear
  <2> QED
    BY <1>4, <2>2 DEF Map!Next
<1>9. CASE StartSpread
  BY <1>4, <1>9, TableKept DEF StartSpread, tableVars
<1>10. ASSUME NEW k \in Key, MSCMapRemove(k) PROVE Map!Remove(k)
  BY <1>10, RemoveIsRemove
<1>11. CASE \E k \in Key : map_subscript(k) \/ map_containsKey(k) \/ MSCMapRemove(k)
  <2>1. Map!Next
    BY <1>6, <1>7, <1>10, <1>11 DEF Map!Next
  <2> QED
    BY <1>4, <2>1
<1>12. CASE \E k \in Key : \E v \in Value : MSCMapSet(k, v)
  BY <1>4, <1>5, <1>12
<1>13. CASE map_clear \/ StartSpread
  BY <1>4, <1>8, <1>9, <1>13
<1>14. \/ \E k \in Key : \E v \in Value : MSCMapSet(k, v)
       \/ \E k \in Key : map_subscript(k) \/ map_containsKey(k) \/ MSCMapRemove(k)
       \/ map_clear \/ StartSpread
  BY DEF Primitive
<1> QED
  BY <1>11, <1>12, <1>13, <1>14

\* The rest of a C function: only insertEntries can be seen.
LEMMA ContinueIsOne ==
  ASSUME NoWrap, IInv, SpreadInv, Continue
  PROVE  SpreadInv' /\ (Map!Next \/ UNCHANGED Map!vars)
<1>1. CASE CopyEntry
  <2>1. SpreadInv'
    BY <1>1 DEF SpreadInv, CopyEntry, tableVars
  <2> QED
    BY <1>1, <2>1, TableKept DEF CopyEntry, tableVars
<1>2. CASE FinishSpread
  <2>1. SpreadInv'
    BY <1>2 DEF SpreadInv, FinishSpread
  <2> QED
    BY <1>2, <2>1, TableKept DEF FinishSpread, tableVars
<1> QED
  BY <1>1, <1>2, ResizeIsInvisible, InsertIsPut, SpreadTakesOwn DEF Continue

\* Loops read the table.
LEMMA LoopIsNone ==
  ASSUME SpreadInv, Loop \/ UNCHANGED vars
  PROVE  SpreadInv' /\ UNCHANGED Map!vars
<1>1. UNCHANGED <<tableVars, pending, spread, result>>
  BY DEF Loop, StartLoop, map_iterate, EndLoop, vars
<1>2. SpreadInv'
  BY <1>1 DEF SpreadInv, tableVars
<1> QED
  BY <1>1, <1>2, TableKept DEF tableVars

\* While no capacity comes near 2^32 / 90, the map is a finite map to a script:
\* whatever is set, removed, cleared, resized or spread into itself, an access
\* returns what the last write of its key left, and nothing else changes it.
THEOREM ImplementsFiniteMap == NoWrap => (Spec => IsAFiniteMap)
<1> DEFINE Inv == IInv /\ SpreadInv
<1>1. ASSUME NoWrap, Init PROVE Inv /\ Map!Init
  <2>1. SpreadInv
    BY <1>1 DEF Init, SpreadInv
  <2>2. Contents(EmptyArray(0), 0) = [j \in {} |-> NULL_VAL]
    BY NewArray, ContentsEmpty
  <2>3. Map!Init
    BY <1>1, <2>2 DEF Init, Map!Init
  <2> QED
    BY <1>1, <2>1, <2>3, InitIInv
<1>2. ASSUME NoWrap, Inv, [Next]_vars PROVE Inv' /\ [Map!Next]_Map!vars
  <2>1. IInv'
    BY <1>2, NextIInv
  <2>2. SpreadInv' /\ (Map!Next \/ UNCHANGED Map!vars)
    BY <1>2, PrimitiveIsOne, ContinueIsOne, LoopIsNone DEF Next
  <2> QED
    BY <2>1, <2>2
<1>3. ASSUME NoWrap PROVE Spec => IsAFiniteMap
  <2>1. Init => Inv /\ Map!Init
    BY <1>1, <1>3
  <2>2. Inv /\ [Next]_vars => Inv' /\ [Map!Next]_Map!vars
    BY <1>2, <1>3
  <2> HIDE DEF Inv
  <2> QED
    BY <2>1, <2>2, PTL DEF Spec, IsAFiniteMap, Map!Spec
<1> QED
  BY <1>3

------------------------------------------------------------------------------
(* Maps that lose entries are shrunk.                                       *)

\* n entries are not few for a capacity of c.
Dense(c, n) == c > MinCapacity => n >= Limit(c \div MAP_GROW_FACTOR)

\* A map is dense between its operations and while a set runs; while it is
\* resized, for the capacity it will have.
DenseInv == Dense(IF pc = "resize" THEN room ELSE capacity, count)

\* A capacity that MSCMapSet grows is left with more entries than half of it
\* may have.
LEMMA GrownIsDense ==
  ASSUME NoWrap, NEW c \in 0 .. MaxCapacity, NEW n \in Nat, n + 1 > Limit(c),
         NEW d, d = AtLeastMin((c * MAP_GROW_FACTOR) % Word)
  PROVE  Dense(d, n)
<1>1. Word \in Nat /\ MaxCapacity \in Nat /\ c \in Nat /\ MinCapacity \in Nat
  BY HashMapAssumption
<1>2. c * 2 \in Nat /\ c * 2 < Word
  BY <1>1 DEF NoWrap, MAP_LOAD_PERCENT
<1>3. (c * 2) % Word = c * 2
  BY <1>1, <1>2
<1>4. d > MinCapacity => d = c * 2
  BY <1>1, <1>3 DEF AtLeastMin, MAP_GROW_FACTOR
<1>5. (c * 2) \div 2 = c
  BY <1>1
<1>6. Limit(c) \in Nat
  BY LimitBounds
<1>7. ASSUME d > MinCapacity PROVE n >= Limit(d \div MAP_GROW_FACTOR)
  <2>1. d \div MAP_GROW_FACTOR = c
    BY <1>4, <1>5, <1>7 DEF MAP_GROW_FACTOR
  <2> QED
    BY <1>6, <2>1
<1> QED
  BY <1>7 DEF Dense

\* A capacity that MSCMapRemove halves had enough entries for its quarter,
\* without the one it just lost.
LEMMA ShrunkIsDense ==
  ASSUME NoWrap, NEW c \in 0 .. MaxCapacity, c > MinCapacity,
         NEW n \in Nat, n + 1 >= Limit(c \div MAP_GROW_FACTOR),
         NEW d, d = AtLeastMin(c \div MAP_GROW_FACTOR)
  PROVE  Dense(d, n)
<1>1. MaxCapacity \in Nat /\ c \in Nat /\ MinCapacity \in Nat /\ MinCapacity >= 2
  BY HashMapAssumption
<1>2. PICK h : h = c \div 2
  OBVIOUS
<1>3. h \in 0 .. MaxCapacity /\ h \div 2 \in 0 .. MaxCapacity /\ h \in Nat
  BY <1>1, <1>2
<1>4. d > MinCapacity => d = h /\ h >= 3
  BY <1>1, <1>2, <1>3 DEF AtLeastMin, MAP_GROW_FACTOR
<1>5. Limit(h) = (h * 90) \div 100 /\ Limit(h \div 2) = ((h \div 2) * 90) \div 100
  BY <1>3, LimitBounds
<1>6. ASSUME h >= 3 PROVE Limit(h \div 2) + 1 <= Limit(h)
  <2>1. PICK q \in Nat : q = h \div 2 /\ q >= 1 /\ (h = 2 * q \/ h = 2 * q + 1)
    BY <1>3, <1>6
  <2>2. (q * 90) \div 100 + 1 <= (h * 90) \div 100
    BY <1>3, <1>6, <2>1
  <2> QED
    BY <1>5, <2>1, <2>2
<1>7. ASSUME d > MinCapacity PROVE n >= Limit(d \div MAP_GROW_FACTOR)
  <2>1. d = h /\ Limit(h \div 2) + 1 <= Limit(h) /\ n + 1 >= Limit(h)
    BY <1>2, <1>4, <1>6, <1>7 DEF MAP_GROW_FACTOR
  <2>2. Limit(h) \in Nat /\ Limit(h \div 2) \in Nat
    BY <1>3, LimitBounds
  <2> QED
    BY <2>1, <2>2 DEF MAP_GROW_FACTOR
<1> QED
  BY <1>7 DEF Dense

\* MSCMapSet's resize leaves the map dense.
LEMMA SetIsDense ==
  ASSUME NoWrap, IInv, DenseInv, pc = "ready", NEW k \in Key, NEW v \in Value,
         StartSet(k, v), UNCHANGED tableVars
  PROVE  DenseInv'
<1>1. /\ capacity \in 0 .. MaxCapacity /\ count \in Nat
      /\ capacity' = capacity /\ count' = count
  BY Counts DEF tableVars
<1>2. CASE Crowded
  <2>1. PICK d : d = AtLeastMin((capacity * MAP_GROW_FACTOR) % Word)
    OBVIOUS
  <2>2. pc' = "resize" /\ room' = d
    BY <1>2, <2>1 DEF StartSet, StartResize
  <2>3. Dense(d, count)
    BY <1>1, <1>2, <2>1, GrownIsDense DEF Crowded
  <2> QED
    BY <1>1, <2>2, <2>3 DEF DenseInv
<1>3. CASE ~Crowded
  BY <1>1, <1>3 DEF StartSet, DenseInv
<1> QED
  BY <1>2, <1>3

\* A removal shrinks the map as soon as it is not dense.
LEMMA RemoveIsDense ==
  ASSUME NoWrap, IInv, DenseInv, NEW k \in Key, MSCMapRemove(k)
  PROVE  DenseInv'
<1>1. /\ capacity \in 0 .. MaxCapacity /\ capacity \in Nat /\ count \in Nat
      /\ MinCapacity \in Nat /\ MaxCapacity \in Nat
      /\ pc = "ready" /\ Dense(capacity, count)
      /\ capacity \div MAP_GROW_FACTOR \in 0 .. MaxCapacity
  BY Counts DEF MSCMapRemove, Ready, DenseInv, MAP_GROW_FACTOR
<1>2. Limit(capacity \div MAP_GROW_FACTOR) \in Nat
  BY <1>1, LimitBounds
<1>3. CASE UNCHANGED <<tableVars, pc, resizeVars, changed>>
  BY <1>3 DEF DenseInv, tableVars, resizeVars
<1>4. ASSUME NEW x \in 0 .. capacity - 1, Hit(entries, capacity, k, x), RemoveAt(x)
      PROVE  DenseInv'
  <2>1. CASE Clear /\ UNCHANGED <<pc, resizeVars>>
    BY <1>1, <2>1 DEF Clear, DenseInv, Dense
  <2>2. CASE /\ count' = count - 1 /\ capacity' = capacity
             /\ IF Roomy(count - 1)
                THEN StartResize(AtLeastMin(capacity \div MAP_GROW_FACTOR))
                ELSE UNCHANGED <<pc, resizeVars>>
    <3>1. x \in Used(entries, capacity)
      BY <1>4, HashMapAssumption DEF Hit, Used
    <3>2. count > 0
      <4>1. count = Cardinality(Used(entries, capacity)) /\ IsFiniteSet(Used(entries, capacity))
        BY Counts
      <4> QED
        BY <1>1, <3>1, <4>1, FS_EmptySet
    <3>3. count - 1 \in Nat
      BY <1>1, <3>2
    <3>4. CASE Roomy(count - 1)
      <4>1. PICK d : d = AtLeastMin(capacity \div MAP_GROW_FACTOR)
        OBVIOUS
      <4>2. pc' = "resize" /\ room' = d
        BY <2>2, <3>4, <4>1 DEF StartResize
      <4>3. capacity > MinCapacity /\ (count - 1) + 1 >= Limit(capacity \div MAP_GROW_FACTOR)
        BY <1>1, <3>4 DEF Roomy, Dense
      <4>4. Dense(d, count - 1)
        BY <1>1, <3>3, <4>1, <4>3, ShrunkIsDense
      <4> QED
        BY <2>2, <4>2, <4>4 DEF DenseInv
    <3>5. CASE ~Roomy(count - 1)
      <4>1. pc' = "ready"
        BY <1>1, <2>2, <3>5 DEF resizeVars
      <4>2. Dense(capacity, count - 1)
        BY <1>1, <1>2, <3>3, <3>5 DEF Roomy, Dense
      <4> QED
        BY <2>2, <4>1, <4>2 DEF DenseInv
    <3> QED
      BY <3>4, <3>5
  <2> QED
    BY <1>4, <2>1, <2>2 DEF RemoveAt
<1> QED
  BY <1>3, <1>4 DEF MSCMapRemove

LEMMA DenseStep == ASSUME NoWrap, IInv, DenseInv, [Next]_vars PROVE DenseInv'
<1>1. ASSUME UNCHANGED <<tableVars, pc, room>> PROVE DenseInv'
  BY <1>1 DEF DenseInv, tableVars
<1>2. ASSUME NEW k \in Key, NEW v \in Value, MSCMapSet(k, v) PROVE DenseInv'
  BY <1>2, SetIsDense DEF MSCMapSet, Ready
<1>3. CASE SpreadEntry
  <2>1. CASE UNCHANGED <<pc, pending, resizeVars>>
    BY <1>1, <1>3, <2>1 DEF SpreadEntry, resizeVars
  <2>2. CASE /\ entries[spread].key # UNDEFINED_VAL
             /\ StartSet(entries[spread].key, entries[spread].value)
    <3>1. spread \in 0 .. capacity - 1 /\ entries[spread] \in Entry
      BY <1>3, Counts DEF SpreadEntry, IInv, TypeOK
    <3>2. entries[spread].key \in Key /\ entries[spread].value \in Value
      BY <2>2, <3>1 DEF Entry
    <3> QED
      BY <1>3, <2>2, <3>2, SetIsDense DEF SpreadEntry
  <2> QED
    BY <1>3, <2>1, <2>2 DEF SpreadEntry
<1>4. CASE insertEntries
  <2>1. /\ pc = "insert" /\ pc' = "ready" /\ capacity' = capacity
        /\ count' = count \/ count' = count + 1
    BY <1>4 DEF insertEntries
  <2>2. /\ count \in Nat /\ capacity \in Nat /\ MinCapacity \in Nat
        /\ capacity \div MAP_GROW_FACTOR \in 0 .. MaxCapacity
    BY Counts DEF MAP_GROW_FACTOR
  <2>3. Limit(capacity \div MAP_GROW_FACTOR) \in Nat
    BY <2>2, LimitBounds
  <2>4. Dense(capacity, count) /\ Dense(capacity, count + 1)
    BY <2>1, <2>2, <2>3 DEF DenseInv, Dense
  <2> QED
    BY <2>1, <2>4 DEF DenseInv
<1>5. CASE FinishResize
  BY <1>5 DEF FinishResize, DenseInv
<1>6. CASE map_clear
  BY <1>6, Counts DEF map_clear, Clear, Ready, DenseInv, Dense
<1>7. CASE \E k \in Key : map_subscript(k) \/ map_containsKey(k)
  BY <1>1, <1>7 DEF map_subscript, map_containsKey, resizeVars
<1>8. CASE StartSpread \/ FinishSpread \/ CopyEntry
  BY <1>1, <1>8 DEF StartSpread, FinishSpread, CopyEntry, resizeVars
<1>9. CASE Loop \/ UNCHANGED vars
  BY <1>1, <1>9 DEF Loop, StartLoop, map_iterate, EndLoop, vars, resizeVars
<1> QED
  BY <1>2, <1>3, <1>4, <1>5, <1>6, <1>7, <1>8, <1>9, RemoveIsDense
     DEF Next, Primitive, Continue

\* A map does not keep the memory of entries it lost: between operations its
\* load is at least the one that a map of half its capacity may have.
THEOREM NeverSparseBelowTheWord == NoWrap => (Spec => []NeverSparse)
<1> DEFINE Inv == IInv /\ DenseInv
<1> SUFFICES ASSUME NoWrap PROVE Spec => []NeverSparse
  OBVIOUS
<1>1. Init => Inv
  <2>1. ASSUME Init PROVE DenseInv
    BY <2>1, HashMapAssumption DEF Init, DenseInv, Dense
  <2> QED
    BY <2>1, InitIInv
<1>2. Inv /\ [Next]_vars => Inv'
  BY DenseStep, NextIInv
<1>3. Inv => NeverSparse
  BY DEF DenseInv, Dense, NeverSparse
<1> QED
  BY <1>1, <1>2, <1>3, PTL DEF Spec

------------------------------------------------------------------------------
(* Loops.                                                                   *)

\* The entries that the iterator has passed.
Behind ==
  {x \in Used(entries, capacity) :
     iter # NULL_VAL /\ IF loop > 0 THEN x <= iter ELSE iter <= x}

\* While nothing was added, removed or moved, a loop by single steps has been
\* given the entries behind its iterator, which is at one of them.
LoopInv ==
  /\ loop = NULL_VAL => ~twice
  /\ loop \in {1, -1} /\ ~changed /\ ~moved =>
       /\ ~twice
       /\ iter # NULL_VAL => iter \in Used(entries, capacity)
       /\ seen = {entries[x].key : x \in Behind}

\* Such a loop goes on to the nearest entry ahead, and no entry is between.
LEMMA IterateStep ==
  ASSUME NoWrap, IInv, LoopInv, map_iterate
  PROVE  LoopInv'
<1>1. /\ capacity \in Nat /\ entries \in [0 .. capacity - 1 -> Entry] /\ Sound(entries, capacity)
      /\ Used(entries, capacity) \subseteq 0 .. capacity - 1 /\ NULL_VAL \notin Int
  BY Counts, HashMapAssumption DEF Used
<1>2. /\ loop # NULL_VAL
      /\ UNCHANGED <<entries, capacity, loop, changed, moved>>
  BY DEF map_iterate, tableVars
<1>3. PICK x \in Ahead :
        /\ \A y \in Ahead : IF loop > 0 THEN x <= y ELSE y <= x
        /\ iter' = x
        /\ seen' = seen \union {entries[x].key}
        /\ twice' = (twice \/ entries[x].key \in seen)
  BY DEF map_iterate
<1>4. SUFFICES ASSUME loop \in {1, -1}, ~changed, ~moved
               PROVE  /\ ~twice'
                      /\ iter' \in Used(entries, capacity)
                      /\ seen' = {entries[y].key : y \in Behind'}
  BY <1>2 DEF LoopInv
<1>5. /\ ~twice /\ seen = {entries[y].key : y \in Behind}
      /\ iter # NULL_VAL => iter \in Used(entries, capacity)
  BY <1>4 DEF LoopInv
<1>6. x \in Used(entries, capacity) /\ x \in Int
  BY <1>1, <1>3 DEF Ahead
<1>7. x \notin Behind
  <2>1. CASE iter = NULL_VAL
    BY <2>1 DEF Behind
  <2>2. CASE iter # NULL_VAL
    <3>1. iter \in Int /\ From = iter + loop
      BY <1>1, <1>5, <2>2 DEF From
    <3>2. IF loop > 0 THEN x >= iter + loop ELSE x <= iter + loop
      BY <1>3, <3>1 DEF Ahead
    <3> QED
      BY <1>4, <1>6, <3>1, <3>2 DEF Behind
  <2> QED
    BY <2>1, <2>2
<1>8. \A y \in Used(entries, capacity) : y \in Ahead \/ y \in Behind
  <2>1. TAKE y \in Used(entries, capacity)
  <2>2. y \in 0 .. capacity - 1
    BY <1>1
  <2>3. count # 0 /\ ~(iter # NULL_VAL /\ iter >= capacity)
    BY <1>3 DEF Ahead
  <2>4. CASE iter = NULL_VAL
    <3>1. IF loop > 0 THEN y >= From ELSE y <= From
      BY <1>1, <1>4, <2>2, <2>4 DEF From
    <3> QED
      BY <2>3, <3>1 DEF Ahead
  <2>5. CASE iter # NULL_VAL
    <3>1. iter \in Int /\ From = iter + loop
      BY <1>1, <1>5, <2>5 DEF From
    <3>2. CASE loop = 1
      <4>1. y >= From \/ y <= iter
        BY <2>2, <3>1, <3>2
      <4> QED
        BY <2>3, <2>5, <3>2, <4>1 DEF Ahead, Behind
    <3>3. CASE loop = -1
      <4>1. y <= From \/ iter <= y
        BY <2>2, <3>1, <3>3
      <4> QED
        BY <2>3, <2>5, <3>3, <4>1 DEF Ahead, Behind
    <3> QED
      BY <1>4, <3>2, <3>3
  <2> QED
    BY <2>4, <2>5
<1>9. \A y \in Used(entries, capacity) : y \in Behind' <=> y \in Behind \/ y = x
  <2>1. TAKE y \in Used(entries, capacity)
  <2>2. y \in 0 .. capacity - 1 /\ x # NULL_VAL
    BY <1>1, <1>6
  <2>3. y \in Behind' <=> IF loop > 0 THEN y <= x ELSE x <= y
    BY <1>2, <1>3, <2>2 DEF Behind
  <2>4. ASSUME y \in Behind PROVE IF loop > 0 THEN y <= x ELSE x <= y
    <3>1. /\ iter \in Int /\ From = iter + loop
          /\ IF loop > 0 THEN y <= iter ELSE iter <= y
      BY <1>1, <1>5, <2>4 DEF From, Behind
    <3>2. IF loop > 0 THEN x >= iter + loop ELSE x <= iter + loop
      BY <1>3, <3>1 DEF Ahead
    <3> QED
      BY <1>4, <1>6, <2>2, <3>1, <3>2
  <2>5. ASSUME y \in Ahead, IF loop > 0 THEN y <= x ELSE x <= y PROVE y = x
    BY <1>3, <1>4, <1>6, <2>2, <2>5
  <2>6. IF loop > 0 THEN x <= x ELSE x <= x
    BY <1>6
  <2> QED
    BY <1>8, <2>3, <2>4, <2>5, <2>6
<1>10. entries[x].key \notin seen
  <2>1. ASSUME NEW y \in Behind PROVE entries[y].key # entries[x].key
    <3>1. y \in Used(entries, capacity) /\ y # x
      BY <1>7, <2>1 DEF Behind
    <3> QED
      BY <1>1, <1>6, <3>1, KeysDiffer
  <2> QED
    BY <1>5, <2>1
<1>11. Behind' = Behind \union {x}
  BY <1>2, <1>6, <1>9 DEF Behind
<1>12. seen' = {entries[y].key : y \in Behind'}
  BY <1>3, <1>5, <1>11
<1> QED
  BY <1>3, <1>5, <1>6, <1>10, <1>12

\* What the steps that leave the table or the loop alone are to the loop.
LEMMA LoopKept ==
  ASSUME LoopInv, UNCHANGED <<entries, capacity, loop, iter, seen, twice>>,
         loop = NULL_VAL \/ (changed' = changed /\ moved' = moved)
  PROVE  LoopInv'
<1>1. Behind' = Behind
  BY DEF Behind
<1> QED
  BY <1>1, HashMapAssumption DEF LoopInv

\* The steps that add, remove or move entries are noted.
LEMMA LoopNoted ==
  ASSUME LoopInv, UNCHANGED <<loop, iter, seen, twice>>,
         loop # NULL_VAL => changed' \/ moved'
  PROVE  LoopInv'
  BY HashMapAssumption DEF LoopInv

\* insertEntries of a key that is in the map leaves the keys where they are.
LEMMA LoopOverInsert ==
  ASSUME NoWrap, IInv, LoopInv, insertEntries
  PROVE  LoopInv'
<1>1. /\ pending \in [key : Key, value : Value] /\ capacity' = capacity
      /\ UNCHANGED <<loop, iter, seen, twice, moved>>
      /\ capacity \in Nat /\ entries \in [0 .. capacity - 1 -> Entry] /\ Sound(entries, capacity)
  BY Counts DEF insertEntries, IInv, TypeOK, MapInv, PhaseInv
<1>2. CASE capacity = 0 \/ Stuck(entries, capacity, pending.key)
  <2>1. count + 1 <= Limit(capacity) /\ pending.key \in Key
    BY <1>1 DEF insertEntries, IInv, MapInv, LoadInv, PhaseInv, Coming
  <2>2. capacity # 0
    BY <2>1, Counts
  <2> QED
    BY <1>2, <2>1, <2>2, LookupsEnd
<1>3. ASSUME NEW x \in 0 .. capacity - 1, Target(entries, capacity, pending.key, x),
             entries' = [entries EXCEPT ![x] = pending],
             IF Found(entries, capacity, pending.key)
             THEN UNCHANGED <<count, changed>>
             ELSE count' = count + 1 /\ changed' = (loop # NULL_VAL)
      PROVE  LoopInv'
  <2>1. CASE ~Found(entries, capacity, pending.key)
    BY <1>1, <1>3, <2>1, LoopNoted
  <2>2. CASE Found(entries, capacity, pending.key)
    <3>1. Hit(entries, capacity, pending.key, x) /\ pending.key # UNDEFINED_VAL
      BY <1>1, <1>3, <2>2, HashMapAssumption DEF Target, Gap, Found, Hit
    <3>2. \A y \in 0 .. capacity - 1 : entries'[y].key = entries[y].key
      BY <1>1, <1>3, <3>1 DEF Hit
    <3>3. Used(entries', capacity') = Used(entries, capacity)
      BY <1>1, <3>2 DEF Used
    <3>4. Behind' = Behind /\ Behind \subseteq 0 .. capacity - 1
      BY <1>1, <3>3 DEF Behind, Used
    <3>5. {entries'[y].key : y \in Behind'} = {entries[y].key : y \in Behind}
      BY <3>2, <3>4
    <3> QED
      BY <1>1, <1>3, <2>2, <3>3, <3>5 DEF LoopInv
  <2> QED
    BY <2>1, <2>2
<1> QED
  BY <1>2, <1>3 DEF insertEntries

LEMMA LoopInvStep ==
  ASSUME NoWrap, IInv, LoopInv, [Next]_vars
  PROVE  LoopInv'
<1>1. ASSUME UNCHANGED <<tableVars, loopVars>> PROVE LoopInv'
  BY <1>1, LoopKept DEF tableVars, loopVars
<1>2. CASE \E k \in Key : (\E v \in Value : MSCMapSet(k, v)) \/ map_subscript(k) \/ map_containsKey(k)
  BY <1>1, <1>2 DEF MSCMapSet, map_subscript, map_containsKey
<1>3. CASE StartSpread \/ SpreadEntry \/ FinishSpread \/ CopyEntry \/ UNCHANGED vars
  BY <1>1, <1>3 DEF StartSpread, SpreadEntry, FinishSpread, CopyEntry, vars
<1>4. ASSUME NEW k \in Key, MSCMapRemove(k) PROVE LoopInv'
  <2>1. UNCHANGED <<loop, iter, seen, twice, moved>>
    BY <1>4 DEF MSCMapRemove
  <2>2. (\E x \in 0 .. capacity - 1 : RemoveAt(x)) \/ UNCHANGED <<tableVars, changed>>
    BY <1>4 DEF MSCMapRemove
  <2>3. CASE UNCHANGED <<tableVars, changed>>
    BY <2>1, <2>3, LoopKept DEF tableVars
  <2>4. CASE changed' = (loop # NULL_VAL)
    BY <2>1, <2>4, LoopNoted
  <2> QED
    BY <2>2, <2>3, <2>4 DEF RemoveAt
<1>5. CASE map_clear
  <2>1. /\ UNCHANGED <<loop, iter, seen, twice, moved>>
        /\ changed' = (loop # NULL_VAL /\ (changed \/ count > 0))
        /\ entries' = EmptyArray(0) /\ capacity' = 0
    BY <1>5 DEF map_clear, Clear
  <2>2. CASE loop = NULL_VAL \/ changed \/ count > 0
    <3>1. loop # NULL_VAL => changed'
      BY <2>1, <2>2
    <3> QED
      BY <2>1, <3>1, LoopNoted
  <2>3. CASE loop # NULL_VAL /\ ~changed /\ ~(count > 0)
    <3>1. Used(entries, capacity) = {}
      <4>1. count \in Nat /\ count = Cardinality(Used(entries, capacity))
            /\ IsFiniteSet(Used(entries, capacity))
        BY Counts
      <4> QED
        BY <2>3, <4>1, FS_EmptySet
    <3>2. Used(entries', capacity') = {}
      BY <2>1, NewArray
    <3>3. Behind = {} /\ Behind' = {}
      BY <3>1, <3>2 DEF Behind
    <3> QED
      BY <2>1, <2>3, <3>1, <3>2, <3>3 DEF LoopInv
  <2> QED
    BY <2>2, <2>3
<1>6. CASE FinishResize
  BY <1>6, LoopNoted DEF FinishResize
<1>7. CASE EndLoop
  BY <1>7, HashMapAssumption DEF EndLoop, LoopInv
<1>8. ASSUME NEW step \in Steps, StartLoop(step) PROVE LoopInv'
  <2>1. ~twice' /\ iter' = NULL_VAL /\ seen' = {}
    BY <1>8 DEF StartLoop, LoopInv
  <2>2. Behind' = {}
    BY <2>1 DEF Behind
  <2> QED
    BY <2>1, <2>2 DEF LoopInv
<1> QED
  BY <1>2, <1>3, <1>4, <1>5, <1>6, <1>7, <1>8, IterateStep, LoopOverInsert
     DEF Next, Primitive, Continue, Loop

\* When such a loop finds nothing ahead, it has been given everything.
LEMMA LoopEnds ==
  ASSUME NoWrap, IInv, LoopInv, loop \in {1, -1}, ~changed, ~moved
  PROVE  EachOnce
<1>0. /\ capacity \in Nat /\ count = Cardinality(Used(entries, capacity))
      /\ IsFiniteSet(Used(entries, capacity))
  BY Counts
<1>1. /\ capacity \in Nat /\ Used(entries, capacity) \subseteq 0 .. capacity - 1
      /\ NULL_VAL \notin Int /\ loop # NULL_VAL
  BY <1>0, HashMapAssumption DEF Used
<1>2. /\ ~twice /\ seen = {entries[x].key : x \in Behind}
      /\ iter # NULL_VAL => iter \in Used(entries, capacity)
  BY DEF LoopInv
<1>3. ASSUME Ahead = {}, NEW y \in Used(entries, capacity) PROVE y \in Behind
  <2>1. y \in 0 .. capacity - 1
    BY <1>1
  <2>2. count # 0
    BY <1>0, <1>3, FS_EmptySet
  <2>3. ~(iter # NULL_VAL /\ iter >= capacity)
    BY <1>1, <1>2
  <2>4. ~(IF loop > 0 THEN y >= From ELSE y <= From)
    BY <1>3, <2>2, <2>3 DEF Ahead
  <2>5. iter # NULL_VAL
    BY <1>1, <2>1, <2>4 DEF From
  <2>6. iter \in Int /\ From = iter + loop
    BY <1>1, <1>2, <2>5 DEF From
  <2>7. IF loop > 0 THEN y <= iter ELSE iter <= y
    BY <2>1, <2>4, <2>6
  <2> QED
    BY <2>5, <2>7 DEF Behind
<1>4. ASSUME Ahead = {} PROVE seen = Keys(entries, capacity)
  <2>1. Behind = Used(entries, capacity)
    BY <1>3, <1>4 DEF Behind
  <2> QED
    BY <1>2, <2>1 DEF Keys
<1> QED
  BY <1>2, <1>4 DEF EachOnce

\* A loop over a map that its body does not change gets every entry once, in
\* either direction, whatever was removed from the map before.
THEOREM LoopsGiveEachOnce == NoWrap => (Spec => []LoopGivesEachOnce)
<1> DEFINE Inv == IInv /\ LoopInv
<1> SUFFICES ASSUME NoWrap PROVE Spec => []LoopGivesEachOnce
  OBVIOUS
<1>1. Init => Inv
  <2>1. ASSUME Init PROVE LoopInv
    BY <2>1, HashMapAssumption DEF Init, LoopInv
  <2> QED
    BY <2>1, InitIInv
<1>2. Inv /\ [Next]_vars => Inv'
  BY LoopInvStep, NextIInv
<1>3. Inv => LoopGivesEachOnce
  BY LoopEnds DEF LoopGivesEachOnce
<1> QED
  BY <1>1, <1>2, <1>3, PTL DEF Spec
=============================================================================
