------------------------------- MODULE HashMap -------------------------------
(****************************************************************************)
(* The map ("wala") of the Mosc virtual machine: an open-addressing hash    *)
(* table with linear probing and tombstones that grows before it is full,   *)
(* shrinks when entries are removed, can be spread into itself, and is      *)
(* iterated by slot index while a loop's body goes on changing it.          *)
(*                                                                          *)
(* A C function is one action up to MSCMapResize, whose loop is modelled    *)
(* turn by turn: nothing else can run between two turns, so the steps       *)
(* cannot be told from one long action, and each turn can be reasoned about *)
(* on its own. Keys stand for classes of equal values.                      *)
(****************************************************************************)
EXTENDS Integers, FiniteSets

CONSTANTS Key, Value,
          UNDEFINED_VAL, NULL_VAL, FALSE_VAL, TRUE_VAL,
          Hash,         \* hashValue of each key
          MinCapacity,  \* MAP_MIN_CAPACITY, 16 in the code
          Word,         \* 2^32: the arithmetic on capacities is modulo this
          MaxCapacity,  \* bound on the capacity of the map
          Steps         \* the steps of the loops a script runs over the map

ASSUME HashMapAssumption ==
  /\ UNDEFINED_VAL \notin Key
  /\ {FALSE_VAL, TRUE_VAL} \subseteq Value
  /\ FALSE_VAL # TRUE_VAL
  /\ NULL_VAL \notin Int
  /\ NULL_VAL \notin [key : Key, value : Value]
  /\ Hash \in [Key -> Nat]
  /\ MinCapacity \in Nat /\ MinCapacity >= 2
  /\ Word \in Nat /\ Word > 0
  /\ MaxCapacity \in Nat
  /\ Steps \subseteq Int \ {0}

VARIABLES
  capacity,  \* map->capacity
  count,     \* map->count
  entries,   \* map->entries
  pc,        \* what of the map's C code is running
  pending,   \* the entry MSCMapSet will insert, or NULL_VAL
  room,      \* the capacity of the array MSCMapResize fills
  array,     \* that array
  turn,      \* `i` of MSCMapResize
  spread,    \* `i` of MSCMapAddAll of the map to itself, or NULL_VAL
  failed,    \* an assertion failed: findEntry walked a whole array without a
             \* slot to insert at, or insertEntries has no array
  result,    \* what the last operation of the script returned
  loop,      \* the step of the script's loop over the map, or NULL_VAL
  iter,      \* the loop's iterator
  seen,      \* history: the keys the loop has been given
  twice,     \* history: it was given a key for the second time
  changed,   \* history: a key was added or removed since the loop started
  moved      \* history: the entries were moved since the loop started

tableVars == <<capacity, count, entries>>
resizeVars == <<room, array, turn>>
loopVars == <<loop, iter, seen, twice, changed, moved>>
vars == <<tableVars, pc, pending, resizeVars, spread, failed, result, loopVars>>

Entry == [key : Key \union {UNDEFINED_VAL}, value : Value]
Empty == [key |-> UNDEFINED_VAL, value |-> FALSE_VAL]

\* Fault: a removed entry leaves an empty slot.
Tombstone_empty == Empty

Tombstone == [key |-> UNDEFINED_VAL, value |-> TRUE_VAL]

EmptyArray(n) == [i \in 0 .. n - 1 |-> Empty]

\* Fault: an array may fill up.
MAP_LOAD_PERCENT_full == 100

MAP_LOAD_PERCENT == 90
MAP_GROW_FACTOR == 2

\* capacity * MAP_LOAD_PERCENT / 100 in uint32_t.
Limit(c) == ((c * MAP_LOAD_PERCENT) % Word) \div 100

\* Fault: the first array of a map is twice nothing.
AtLeastMin_not(c) == c

AtLeastMin(c) == IF c < MinCapacity THEN MinCapacity ELSE c

------------------------------------------------------------------------------
(* findEntry.                                                               *)

\* The walk starts at hash % capacity and goes round the array once: how many
\* turns it makes before it looks at slot x.
Turns(c, k, x) ==
  LET startIndex == Hash[k] % c
  IN  IF x >= startIndex THEN x - startIndex ELSE x - startIndex + c

\* The slots it has looked at by then.
Passed(c, k, x) == {y \in 0 .. c - 1 : Turns(c, k, y) < Turns(c, k, x)}

\* findEntry returns true and slot x: the walk meets k before an empty slot.
Hit(e, c, k, x) ==
  /\ e[x].key = k
  /\ \A y \in Passed(c, k, x) : e[y] # Empty /\ e[y].key # k

Found(e, c, k) == \E x \in 0 .. c - 1 : Hit(e, c, k, x)

\* Where findEntry has an absent key inserted: the first tombstone, or the
\* empty slot that ended the walk if it passed none.
Gap(e, c, k, x) ==
  /\ e[x].key = UNDEFINED_VAL
  /\ \A y \in Passed(c, k, x) : e[y].key # UNDEFINED_VAL

\* Fault: insertEntries does not look for the key first.
Target_gap(e, c, k, x) == Gap(e, c, k, x)

\* The slot insertEntries writes.
Target(e, c, k, x) == Hit(e, c, k, x) \/ (Gap(e, c, k, x) /\ ~Found(e, c, k))

\* findEntry's assertion fails: the walk met neither the key nor a gap.
Stuck(e, c, k) == c > 0 /\ \A x \in 0 .. c - 1 : ~Target(e, c, k, x)

Used(e, c) == {x \in 0 .. c - 1 : e[x].key # UNDEFINED_VAL}
Keys(e, c) == {e[x].key : x \in Used(e, c)}

------------------------------------------------------------------------------

\* MSCMapFrom.
Init ==
  /\ capacity = 0
  /\ count = 0
  /\ entries = EmptyArray(0)
  /\ pc = "ready"
  /\ pending = NULL_VAL
  /\ room = 0
  /\ array = EmptyArray(0)
  /\ turn = 0
  /\ spread = NULL_VAL
  /\ failed = FALSE
  /\ result = NULL_VAL
  /\ loop = NULL_VAL
  /\ iter = NULL_VAL
  /\ seen = {}
  /\ twice = FALSE
  /\ changed = FALSE
  /\ moved = FALSE

\* No C code of the map is running: the script may call a primitive.
Ready == pc = "ready" /\ spread = NULL_VAL /\ ~failed

------------------------------------------------------------------------------
(* MSCMapResize.                                                            *)

\* It allocates an array of c empty entries and starts to copy into it.
StartResize(c) ==
  /\ c <= MaxCapacity
  /\ pc' = "resize"
  /\ room' = c
  /\ array' = EmptyArray(c)
  /\ turn' = 0

\* Fault: the value alone is taken for the mark of an empty slot.
Skipped_false(entry) == entry.value = FALSE_VAL

\* Empty slots and tombstones are not copied.
Skipped(entry) == entry.key = UNDEFINED_VAL

\* One turn of the copying loop: insertEntries of a used entry.
CopyEntry ==
  /\ pc = "resize" /\ ~failed
  /\ turn < capacity
  /\ turn' = turn + 1
  /\ LET entry == entries[turn]
     IN  \/ /\ Skipped(entry)
            /\ UNCHANGED <<array, failed>>
         \/ /\ ~Skipped(entry)
            /\ \E x \in 0 .. room - 1 :
                 /\ Target(array, room, entry.key, x)
                 /\ array' = [array EXCEPT ![x] = entry]
            /\ UNCHANGED failed
         \/ /\ ~Skipped(entry)
            /\ Stuck(array, room, entry.key)
            /\ failed' = TRUE
            /\ UNCHANGED array
  /\ UNCHANGED <<tableVars, pc, pending, room, spread, result, loopVars>>

\* The new array replaces the old one, and the caller of MSCMapResize goes on:
\* MSCMapSet inserts its entry, MSCMapRemove returns.
FinishResize ==
  /\ pc = "resize" /\ ~failed
  /\ turn = capacity
  /\ entries' = array
  /\ capacity' = room
  /\ pc' = IF pending = NULL_VAL THEN "ready" ELSE "insert"
  /\ room' = 0
  /\ array' = EmptyArray(0)
  /\ turn' = 0
  /\ moved' = (loop # NULL_VAL)
  /\ UNCHANGED <<count, pending, spread, failed, result, loop, iter, seen,
                 twice, changed>>

------------------------------------------------------------------------------
(* MSCMapSet, MSCMapGet, MSCMapRemove, MSCMapClear.                         *)

\* Fault: room is made one entry too late.
Crowded_late == count > Limit(capacity)

Crowded == count + 1 > Limit(capacity)

\* MSCMapSet as far as the call of insertEntries: room is made first, even if
\* the key is there already.
StartSet(k, v) ==
  /\ pending' = [key |-> k, value |-> v]
  /\ \/ /\ Crowded
        /\ StartResize(AtLeastMin((capacity * MAP_GROW_FACTOR) % Word))
     \/ /\ ~Crowded
        /\ pc' = "insert"
        /\ UNCHANGED resizeVars

\* map[k] = v, a map literal's entry, MSCSetMapValue.
MSCMapSet(k, v) ==
  /\ Ready
  /\ StartSet(k, v)
  /\ UNCHANGED <<tableVars, spread, failed, result, loopVars>>

\* The rest of MSCMapSet: insertEntries and the count.
insertEntries ==
  /\ pc = "insert" /\ ~failed
  /\ \/ \E x \in 0 .. capacity - 1 :
          /\ Target(entries, capacity, pending.key, x)
          /\ entries' = [entries EXCEPT ![x] = pending]
          /\ IF Found(entries, capacity, pending.key)
             THEN UNCHANGED <<count, changed>>
             ELSE /\ count' = count + 1
                  /\ changed' = (loop # NULL_VAL)
          /\ UNCHANGED failed
     \/ /\ capacity = 0 \/ Stuck(entries, capacity, pending.key)
        /\ failed' = TRUE
        /\ UNCHANGED <<entries, count, changed>>
  /\ result' = IF spread = NULL_VAL THEN pending.value ELSE result
  /\ pc' = "ready"
  /\ pending' = NULL_VAL
  /\ UNCHANGED <<capacity, resizeVars, spread, loop, iter, seen, twice, moved>>

\* MSCMapGet: map[k], and MSCGetMapValue.
map_subscript(k) ==
  /\ Ready
  /\ \/ \E x \in 0 .. capacity - 1 :
          Hit(entries, capacity, k, x) /\ result' = entries[x].value
     \/ ~Found(entries, capacity, k) /\ result' = NULL_VAL
  /\ failed' = Stuck(entries, capacity, k)
  /\ UNCHANGED <<tableVars, pc, pending, resizeVars, spread, loopVars>>

\* map.bAkono(k), and MSCMapContainsKey.
map_containsKey(k) ==
  /\ Ready
  /\ result' = IF Found(entries, capacity, k) THEN TRUE_VAL ELSE FALSE_VAL
  /\ failed' = Stuck(entries, capacity, k)
  /\ UNCHANGED <<tableVars, pc, pending, resizeVars, spread, loopVars>>

\* Fault: the freed array keeps its capacity.
Clear_keepsCapacity ==
  /\ entries' = EmptyArray(0)
  /\ count' = 0
  /\ UNCHANGED capacity

\* MSCMapClear frees the array.
Clear ==
  /\ entries' = EmptyArray(0)
  /\ capacity' = 0
  /\ count' = 0

\* map.diossi().
map_clear ==
  /\ Ready
  /\ Clear
  /\ result' = NULL_VAL
  /\ changed' = (loop # NULL_VAL /\ (changed \/ count > 0))
  /\ UNCHANGED <<pc, pending, resizeVars, spread, failed, loop, iter, seen,
                 twice, moved>>

\* Fault: the map is never shrunk.
Roomy_not(n) == FALSE

\* n entries are few for the capacity.
Roomy(n) ==
  /\ capacity > MinCapacity
  /\ n < Limit(capacity \div MAP_GROW_FACTOR)

\* MSCMapRemove of the entry in slot x: a tombstone takes its place; the last
\* entry takes the array with it; a map that is getting empty is shrunk.
RemoveAt(x) ==
  /\ result' = entries[x].value
  /\ \/ /\ count = 1
        /\ Clear
        /\ UNCHANGED <<pc, resizeVars>>
     \/ /\ count # 1
        /\ entries' = [entries EXCEPT ![x] = Tombstone]
        /\ count' = count - 1
        /\ UNCHANGED capacity
        /\ IF Roomy(count - 1)
           THEN StartResize(AtLeastMin(capacity \div MAP_GROW_FACTOR))
           ELSE UNCHANGED <<pc, resizeVars>>
  /\ changed' = (loop # NULL_VAL)

\* map.aBoye(k), and MSCRemoveMapValue.
MSCMapRemove(k) ==
  /\ Ready
  /\ \/ \E x \in 0 .. capacity - 1 :
          Hit(entries, capacity, k, x) /\ RemoveAt(x)
     \/ /\ ~Found(entries, capacity, k)
        /\ result' = NULL_VAL
        /\ UNCHANGED <<tableVars, pc, resizeVars, changed>>
  /\ failed' = Stuck(entries, capacity, k)
  /\ UNCHANGED <<pending, spread, loop, iter, seen, twice, moved>>

------------------------------------------------------------------------------
(* MSCMapAddAll of the map to itself: { ...map } into map.                  *)

StartSpread ==
  /\ Ready
  /\ spread' = 0
  /\ UNCHANGED <<tableVars, pc, pending, resizeVars, failed, result, loopVars>>

\* One turn: other->capacity and other->entries are read anew, after the
\* MSCMapSet of the turn before may have replaced both.
SpreadEntry ==
  /\ pc = "ready" /\ spread # NULL_VAL /\ ~failed
  /\ spread < capacity
  /\ spread' = spread + 1
  /\ \/ /\ entries[spread].key = UNDEFINED_VAL
        /\ UNCHANGED <<pc, pending, resizeVars>>
     \/ /\ entries[spread].key # UNDEFINED_VAL
        /\ StartSet(entries[spread].key, entries[spread].value)
  /\ UNCHANGED <<tableVars, failed, result, loopVars>>

FinishSpread ==
  /\ pc = "ready" /\ spread # NULL_VAL /\ ~failed
  /\ spread >= capacity
  /\ spread' = NULL_VAL
  /\ UNCHANGED <<tableVars, pc, pending, resizeVars, failed, result, loopVars>>

------------------------------------------------------------------------------
(* A loop of the script over the map. Its body is any number of the actions *)
(* above. The iterator goes straight from map_iterate to iteratorValue.     *)

StartLoop(step) ==
  /\ Ready
  /\ loop = NULL_VAL
  /\ loop' = step
  /\ iter' = NULL_VAL
  /\ seen' = {}
  /\ UNCHANGED <<tableVars, pc, pending, resizeVars, spread, failed, result,
                 twice, changed, moved>>

\* Fault: the iterator is not advanced.
From_same ==
  CASE iter # NULL_VAL -> iter
    [] iter = NULL_VAL /\ loop < 0 -> capacity - 1
    [] OTHER -> 0

\* Where map_iterate starts to look for a used entry.
From ==
  CASE iter # NULL_VAL -> iter + loop
    [] iter = NULL_VAL /\ loop < 0 -> capacity - 1
    [] OTHER -> 0

\* The entries map_iterate may stop at; it stops at the nearest.
Ahead ==
  IF count = 0 \/ (iter # NULL_VAL /\ iter >= capacity)
  THEN {}
  ELSE {x \in Used(entries, capacity) : IF loop > 0 THEN x >= From ELSE x <= From}

map_iterate ==
  /\ Ready
  /\ loop # NULL_VAL
  /\ \E x \in Ahead :
       /\ \A y \in Ahead : IF loop > 0 THEN x <= y ELSE y <= x
       /\ iter' = x
       /\ seen' = seen \union {entries[x].key}
       /\ twice' = (twice \/ entries[x].key \in seen)
  /\ UNCHANGED <<tableVars, pc, pending, resizeVars, spread, failed, result,
                 loop, changed, moved>>

\* map_iterate returns false, or the body leaves the loop.
EndLoop ==
  /\ Ready
  /\ loop # NULL_VAL
  /\ loop' = NULL_VAL
  /\ iter' = NULL_VAL
  /\ seen' = {}
  /\ twice' = FALSE
  /\ changed' = FALSE
  /\ moved' = FALSE
  /\ UNCHANGED <<tableVars, pc, pending, resizeVars, spread, failed, result>>

------------------------------------------------------------------------------

Primitive ==
  \/ \E k \in Key :
       \/ \E v \in Value : MSCMapSet(k, v)
       \/ map_subscript(k)
       \/ map_containsKey(k)
       \/ MSCMapRemove(k)
  \/ map_clear
  \/ StartSpread

\* The rest of a C function that has started.
Continue ==
  \/ CopyEntry
  \/ FinishResize
  \/ insertEntries
  \/ SpreadEntry
  \/ FinishSpread

Loop ==
  \/ \E step \in Steps : StartLoop(step)
  \/ map_iterate
  \/ EndLoop

Next == Primitive \/ Continue \/ Loop

Spec == Init /\ [][Next]_vars

\* C code that has started is not suspended.
FairSpec == Spec /\ WF_vars(Continue)

------------------------------------------------------------------------------
(* Properties.                                                              *)

TypeOK ==
  /\ capacity \in 0 .. MaxCapacity
  /\ count \in Nat
  /\ entries \in [0 .. capacity - 1 -> Entry]
  /\ pc \in {"ready", "resize", "insert"}
  /\ pending \in [key : Key, value : Value] \union {NULL_VAL}
  /\ room \in 0 .. MaxCapacity
  /\ array \in [0 .. room - 1 -> Entry]
  /\ turn \in 0 .. capacity
  /\ spread \in Nat \union {NULL_VAL}
  /\ failed \in BOOLEAN
  /\ result \in Value \union {NULL_VAL}
  /\ loop \in Steps \union {NULL_VAL}
  /\ iter \in Nat \union {NULL_VAL}
  /\ seen \in SUBSET Key
  /\ twice \in BOOLEAN
  /\ changed \in BOOLEAN
  /\ moved \in BOOLEAN

\* findEntry comes to every entry from its key's hash: no removal, resize or
\* re-used tombstone cuts an entry off or leaves a second one for its key.
Sound(e, c) == \A x \in Used(e, c) : Hit(e, c, e[x].key, x)
EveryEntryFound == Sound(entries, capacity)

\* map.hakan is the number of entries, also when a key was set twice or
\* removed twice, and while the entries move.
CountIsExact == count = Cardinality(Used(entries, capacity))

\* findEntry's assertion, "Map should have tombstones or empty entries.": in a
\* release build an insertion after it failed writes through a null pointer.
AlwaysRoom == ~failed

\* The map gives memory back: between operations a map that grew has at least
\* the entries that its half could not have kept, one aside.
NeverSparse ==
  pc = "ready" /\ capacity > MinCapacity =>
    count >= Limit(capacity \div MAP_GROW_FACTOR)

\* A C function of the map that was called returns, MSCMapAddAll of a map to
\* itself too, which inserts into the array that it walks.
CallsReturn == ~Ready ~> Ready

\* What a loop by single steps has got so far from a map it leaves alone is
\* right: nothing twice, and everything when map_iterate says it is over.
EachOnce ==
  /\ ~twice
  /\ Ahead = {} => seen = Keys(entries, capacity)

\* A loop whose body adds and removes no key, and does not make the map move
\* its entries, is given every entry exactly once, in either direction.
LoopGivesEachOnce ==
  Ready /\ loop \in {1, -1} /\ ~changed /\ ~moved => EachOnce

\* A loop whose body adds and removes no key is given every entry exactly
\* once. Setting a key that is in the map may move all entries.
EntriesAppearOnce ==
  Ready /\ loop \in {1, -1} /\ ~changed => EachOnce

------------------------------------------------------------------------------
(* The inductive invariant, for maps whose capacities stay where the product *)
(* with MAP_LOAD_PERCENT fits the word.                                      *)

NoWrap == MaxCapacity * MAP_LOAD_PERCENT < Word

\* What belongs to a C call is there while it runs, and only then.
PhaseInv ==
  /\ capacity = 0 \/ capacity >= MinCapacity
  /\ pc = "resize" => room >= MinCapacity
  /\ pc # "resize" => turn = 0 /\ room = 0
  /\ pc = "ready" => pending = NULL_VAL
  /\ pc = "insert" => pending # NULL_VAL

\* Room is made before an entry needs it.
Coming == IF pending = NULL_VAL THEN 0 ELSE 1
LoadInv ==
  /\ count <= Limit(capacity)
  /\ pc = "insert" => count + Coming <= Limit(capacity)
  /\ pc = "resize" => count + Coming <= Limit(room)

\* The new array holds the entries of the old one below `turn`, all of them in
\* reach.
Copied == {x \in Used(entries, capacity) : x < turn}
CopyInv ==
  /\ Sound(array, room)
  /\ {array[x] : x \in Used(array, room)} = {entries[y] : y \in Copied}
  /\ Cardinality(Used(array, room)) = Cardinality(Copied)

\* The argument that insertions find room and lookups find entries: of the C
\* code, it is about every write to the entries, the count and the capacity.
MapInv ==
  /\ PhaseInv
  /\ EveryEntryFound
  /\ CountIsExact
  /\ LoadInv
  /\ CopyInv
  /\ AlwaysRoom
=============================================================================
