--------------------------- MODULE SlotTableProofs ---------------------------
(***************************************************************************)
(* Proofs about base/SlotAllocator.h for every set of objects, every bound *)
(* and every order of Alloc() and Free().                                  *)
(***************************************************************************)
EXTENDS SlotTable, SlotAllocatorProofs

\* The invariant makes the lemmas about allocators apply.
LEMMA TableWellFormed ==
    ASSUME TypeOK, HeapIsFreeList
    PROVE  WellFormed(table)
<1>1. table.size \in Nat
  BY SlotTableAssumption DEF TypeOK
<1>2. table.slots = [i \in Index(table) |-> table.slots[i]]
  BY DEF TypeOK
<1>3. table.heap = [i \in Index(table) |-> IF table.slots[i] = NULL THEN 1 ELSE 0]
  BY DEF TypeOK, HeapIsFreeList
<1>4. table = [size |-> table.size, slots |-> table.slots, heap |-> table.heap]
  BY DEF TypeOK
<1> QED
  BY <1>1, <1>2, <1>3, <1>4, Zenon DEF WellFormed

\* And follows from what those lemmas say of the table after a step.
LEMMA TableTypes ==
    ASSUME NEW a, WellFormed(a), a.size <= MaxSlots,
           \A s \in Live(a) : At(a, s) \in Object
    PROVE  /\ a = [size |-> a.size, slots |-> a.slots, heap |-> a.heap]
           /\ a.size \in 0 .. MaxSlots
           /\ a.slots \in [Index(a) -> Object \cup {NULL}]
           /\ a.heap \in [Index(a) -> Nat]
           /\ \A s \in Index(a) : a.heap[s] = IF a.slots[s] = NULL THEN 1 ELSE 0
<1>1. a.size \in 0 .. MaxSlots /\ Index(a) \subseteq Nat
  BY SlotTableAssumption DEF WellFormed, Index
<1>2. ASSUME NEW i \in Index(a) PROVE a.slots[i] \in Object \cup {NULL}
  BY <1>1, LiveIsAt DEF Live
<1>3. a.slots \in [Index(a) -> Object \cup {NULL}]
  BY <1>2 DEF WellFormed
<1>4. /\ a.heap \in [Index(a) -> Nat]
      /\ \A s \in Index(a) : a.heap[s] = IF a.slots[s] = NULL THEN 1 ELSE 0
  BY DEF WellFormed
<1>5. a = [size |-> a.size, slots |-> a.slots, heap |-> a.heap]
  BY DEF WellFormed
<1> QED
  BY <1>1, <1>3, <1>4, <1>5, Zenon

\* At() reads slots_ where there is something to read.
LEMMA LiveObjects ==
    ASSUME NEW a, WellFormed(a)
    PROVE  \A s \in Live(a) : s \in Int /\ At(a, s) = a.slots[s]
  BY LiveIsIndex, LiveIsAt

-------------------------------------------------------------------------------
(***************************************************************************)
(* Alloc() stores the new object in a slot that held none, touches no      *)
(* other slot, and leaves heap_ the free list.                             *)
(***************************************************************************)
LEMMA AllocStep ==
    ASSUME TypeOK, HeapIsFreeList, NEW o \in Object, DoAlloc(o)
    PROVE  /\ TypeOK' /\ HeapIsFreeList'
           /\ AllocSlot(table) \in 0 .. MaxSlots - 1
           /\ AllocSlot(table) \notin Live(table)
           /\ Live(table') = Live(table) \cup {AllocSlot(table)}
           /\ table'.slots[AllocSlot(table)] = o
           /\ \A s \in Live(table) : table'.slots[s] = table.slots[s]
           /\ table'.size > table.size => Live(table) = Index(table)
<1> DEFINE n == AllocSlot(table)
<1>1. WellFormed(table) /\ o # NULL /\ MaxSlots \in Nat
  BY TableWellFormed, SlotTableAssumption
<1>2. table' = Alloc(table, o) /\ n < MaxSlots
  BY DEF DoAlloc
<1>3. /\ WellFormed(table')
      /\ n \in 0 .. table.size /\ n \notin Live(table)
      /\ Live(table') = Live(table) \cup {n}
      /\ At(table', n) = o
      /\ \A s \in Int : s # n => At(table', s) = At(table, s)
      /\ \/ table'.size = table.size
         \/ /\ table'.size = table.size + 1
            /\ n = table.size
            /\ Live(table) = Index(table)
  BY <1>1, <1>2, AllocFacts
<1> HIDE DEF n
<1>4. table.size \in 0 .. MaxSlots
  BY DEF TypeOK
<1>5. n \in 0 .. MaxSlots - 1 /\ table'.size <= MaxSlots
  BY <1>1, <1>2, <1>3, <1>4
<1>6. \A s \in Live(table) : s \in Int /\ s # n /\ At(table, s) \in Object
                             /\ At(table, s) = table.slots[s]
  BY <1>1, <1>3, LiveObjects DEF Live, TypeOK
<1>7. \A s \in Live(table') : At(table', s) \in Object
  BY <1>3, <1>6
<1>8. TypeOK' /\ HeapIsFreeList'
  BY <1>3, <1>5, <1>7, TableTypes DEF TypeOK, HeapIsFreeList
<1>9. \A s \in Live(table') : At(table', s) = table'.slots[s]
  BY <1>3, LiveObjects
<1>10. table'.slots[n] = o /\ \A s \in Live(table) : table'.slots[s] = table.slots[s]
  BY <1>3, <1>6, <1>9
<1>11. table'.size > table.size => Live(table) = Index(table)
  BY <1>3, <1>4
<1> QED
  BY <1>3, <1>5, <1>8, <1>10, <1>11 DEF n

(***************************************************************************)
(* Free() empties its slot, touches no other slot, does nothing the second *)
(* time, and leaves heap_ the free list.                                   *)
(***************************************************************************)
LEMMA FreeStep ==
    ASSUME TypeOK, HeapIsFreeList, NEW s \in Index(table), DoFree(s)
    PROVE  /\ TypeOK' /\ HeapIsFreeList'
           /\ s \in 0 .. MaxSlots - 1
           /\ Live(table') = Live(table) \ {s}
           /\ \A t \in Live(table) \ {s} : table'.slots[t] = table.slots[t]
           /\ table'.size = table.size
<1>1. WellFormed(table) /\ MaxSlots \in Nat /\ table.size \in 0 .. MaxSlots
  BY TableWellFormed, SlotTableAssumption DEF TypeOK
<1>2. table' = Free(table, s)
  BY DEF DoFree
<1>3. /\ WellFormed(table')
      /\ Live(table') = Live(table) \ {s}
      /\ \A t \in Int : t # s => At(table', t) = At(table, t)
      /\ table'.size = table.size
  BY <1>1, <1>2, FreeFacts
<1>4. \A t \in Live(table) : t \in Int /\ At(table, t) \in Object
                             /\ At(table, t) = table.slots[t]
  BY <1>1, LiveObjects DEF Live, TypeOK
<1>5. \A t \in Live(table') : At(table', t) \in Object
  BY <1>3, <1>4
<1>6. TypeOK' /\ HeapIsFreeList'
  BY <1>1, <1>3, <1>5, TableTypes DEF TypeOK, HeapIsFreeList
<1>7. \A t \in Live(table') : At(table', t) = table'.slots[t]
  BY <1>3, LiveObjects
<1>8. s \in 0 .. MaxSlots - 1
  BY <1>1 DEF Index
<1> QED
  BY <1>3, <1>4, <1>6, <1>7, <1>8

-------------------------------------------------------------------------------
(***************************************************************************)
(* The inductive invariant: the types, and heap_ is the free list.  The    *)
(* second part is what makes Alloc() hand out only empty slots.            *)
(***************************************************************************)
THEOREM Invariance == Spec => [](TypeOK /\ HeapIsFreeList)
<1>1. Init => TypeOK /\ HeapIsFreeList
  BY SlotTableAssumption
     DEF Init, EmptyAllocator, TypeOK, HeapIsFreeList, Index
<1>2. TypeOK /\ HeapIsFreeList /\ [Next]_table => (TypeOK /\ HeapIsFreeList)'
  <2> SUFFICES ASSUME TypeOK, HeapIsFreeList, [Next]_table
               PROVE  (TypeOK /\ HeapIsFreeList)'
    OBVIOUS
  <2>1. CASE \E o \in Object : DoAlloc(o)
    BY <2>1, AllocStep
  <2>2. CASE \E s \in Index(table) : DoFree(s)
    BY <2>2, FreeStep
  <2>3. CASE UNCHANGED table
    BY <2>3 DEF TypeOK, HeapIsFreeList, Index
  <2> QED
    BY <2>1, <2>2, <2>3 DEF Next
<1> QED
  BY <1>1, <1>2, PTL DEF Spec

\* slots_ and heap_ have the same length and hold what they should.
THEOREM TypeTheorem == Spec => []TypeOK
  BY Invariance, PTL

(***************************************************************************)
(* slots_ grows only in an Alloc() that finds every slot taken: the vector *)
(* is never longer than the most objects that were live at one time.       *)
(***************************************************************************)
THEOREM Growth == Spec => GrowsOnlyWhenFull
<1>1. TypeOK /\ HeapIsFreeList /\ [Next]_table
        => [table'.size > table.size => Live(table) = Index(table)]_table
  <2> SUFFICES ASSUME TypeOK, HeapIsFreeList, Next, table'.size > table.size
               PROVE  Live(table) = Index(table)
    OBVIOUS
  <2>1. CASE \E o \in Object : DoAlloc(o)
    BY <2>1, AllocStep
  <2>2. CASE \E s \in Index(table) : DoFree(s)
    <3>1. table'.size = table.size
      BY <2>2, FreeStep
    <3> QED
      BY <3>1 DEF TypeOK
  <2> QED
    BY <2>1, <2>2 DEF Next
<1> QED
  BY <1>1, Invariance, PTL DEF Spec, GrowsOnlyWhenFull

(***************************************************************************)
(* SlotAllocator implements SlotPool: Alloc() never hands out the number   *)
(* of a live object, and no call disturbs the object in another slot.      *)
(***************************************************************************)
THEOREM Refinement == Spec => ImplementsPool
<1> DEFINE pool == [s \in Live(table) |-> table.slots[s]]
<1>1. Init => Pool!Init
  BY DEF Init, EmptyAllocator, Pool!Init, Live, Index
<1>2. TypeOK /\ HeapIsFreeList /\ [Next]_table => [Pool!Next]_pool
  <2> SUFFICES ASSUME TypeOK, HeapIsFreeList, [Next]_table
               PROVE  [Pool!Next]_pool
    OBVIOUS
  <2>1. ASSUME NEW o \in Object, DoAlloc(o) PROVE Pool!Next
    <3> DEFINE n == AllocSlot(table)
    <3>1. /\ n \in 0 .. MaxSlots - 1
          /\ n \notin Live(table)
          /\ Live(table') = Live(table) \cup {n}
          /\ table'.slots[n] = o
          /\ \A s \in Live(table) : table'.slots[s] = table.slots[s]
      BY <2>1, AllocStep
    <3> HIDE DEF n
    <3>2. n \in (0 .. MaxSlots - 1) \ DOMAIN pool
      BY <3>1
    <3>3. pool' = [t \in DOMAIN pool \cup {n} |-> IF t = n THEN o ELSE pool[t]]
      BY <3>1
    <3>4. Pool!Alloc(o)
      BY <3>2, <3>3 DEF Pool!Alloc
    <3> QED
      BY <3>4, <2>1 DEF Pool!Next
  <2>2. ASSUME NEW s \in Index(table), DoFree(s) PROVE Pool!Next
    <3>1. /\ s \in 0 .. MaxSlots - 1
          /\ Live(table') = Live(table) \ {s}
          /\ \A t \in Live(table) \ {s} : table'.slots[t] = table.slots[t]
      BY <2>2, FreeStep
    <3>2. pool' = [t \in DOMAIN pool \ {s} |-> pool[t]]
      BY <3>1
    <3>3. Pool!Free(s)
      BY <3>2 DEF Pool!Free
    <3> QED
      BY <3>1, <3>3 DEF Pool!Next
  <2>3. CASE UNCHANGED table
    BY <2>3 DEF Live, Index
  <2> QED
    BY <2>1, <2>2, <2>3 DEF Next
<1> QED
  BY <1>1, <1>2, Invariance, PTL DEF Spec, ImplementsPool, Pool!Spec
==============================================================================
