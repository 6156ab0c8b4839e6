------------------------------ MODULE SlotTable ------------------------------
(***************************************************************************)
(* One SlotAllocator (base/SlotAllocator.h) driven by an arbitrary client: *)
(* Alloc at any time, Free of any slot inside the vector, also of one that *)
(* was freed before.                                                       *)
(***************************************************************************)
EXTENDS SlotAllocator

CONSTANTS Object,     \* the objects clients store
          MaxSlots    \* bound on slots_.size()

ASSUME SlotTableAssumption == /\ NULL \notin Object
                              /\ MaxSlots \in Nat

VARIABLE table

Init == table = EmptyAllocator

DoAlloc(o) ==
    /\ AllocSlot(table) < MaxSlots
    /\ table' = Alloc(table, o)

DoFree(s) == table' = Free(table, s)

Next == \/ \E o \in Object : DoAlloc(o)
        \/ \E s \in Index(table) : DoFree(s)

Spec == Init /\ [][Next]_table

-------------------------------------------------------------------------------
\* slots_ and heap_ are indexed alike, and the vector stays within its bound.
TypeOK ==
    /\ table = [size |-> table.size, slots |-> table.slots, heap |-> table.heap]
    /\ table.size \in 0 .. MaxSlots
    /\ table.slots \in [Index(table) -> Object \cup {NULL}]
    /\ table.heap \in [Index(table) -> Nat]

(***************************************************************************)
(* heap_ is exactly the free list: a NULL slot is on it once and a live    *)
(* slot never, whatever the order of Alloc() and (repeated) Free().  A     *)
(* slot that is missing leaks, a slot that is there twice is handed out    *)
(* twice.                                                                  *)
(***************************************************************************)
HeapIsFreeList ==
    \A s \in Index(table) :
        table.heap[s] = IF table.slots[s] = NULL THEN 1 ELSE 0

(***************************************************************************)
(* slots_ grows only in an Alloc() that finds every slot taken, so that    *)
(* the vector is never longer than the most objects ever live at once.     *)
(***************************************************************************)
GrowsOnlyWhenFull ==
    [][table'.size > table.size => Live(table) = Index(table)]_table

\* The allocator seen through the promise of SlotPool.
Pool == INSTANCE SlotPool
            WITH Slot <- 0 .. MaxSlots - 1,
                 pool <- [s \in Live(table) |-> table.slots[s]]

(***************************************************************************)
(* Alloc() and Free() implement SlotPool: no live slot is handed out again *)
(* and no operation disturbs the object of another slot.                   *)
(***************************************************************************)
ImplementsPool == Pool!Spec
==============================================================================
