---------------------------- MODULE SlotAllocator ----------------------------
(***************************************************************************)
(* base/SlotAllocator.h: the template SlotAllocator<T> that numbers the    *)
(* file descriptors and file handles of KernelProxy and the inodes of      *)
(* MemMount and AppEngineMount.                                            *)
(*                                                                         *)
(* An allocator is a value, so that the modules that embed one, two or     *)
(* three of them can thread it through their own actions:                  *)
(*   size    slots_.size()                                                 *)
(*   slots   slots_: the object each slot points to, or NULL               *)
(*   heap    heap_, as a multiset: how often each slot is on it.  The      *)
(*           order std::push_heap and std::pop_heap keep inside the vector *)
(*           is left out; heap_.front() under the comparator desc (i < j)  *)
(*           is the LARGEST freed slot.                                    *)
(***************************************************************************)
EXTENDS Integers, FiniteSetsExt

CONSTANT NULL

Index(a) == 0 .. a.size - 1

EmptyAllocator == [size  |-> 0,
                   slots |-> [i \in {} |-> NULL],
                   heap  |-> [i \in {} |-> 0]]

\* T* At(int slot)
At(a, slot) == IF slot < 0 \/ slot >= a.size THEN NULL ELSE a.slots[slot]

\* The slots that wait on heap_, and heap_.front() when there is one.
OnHeap(a) == {i \in Index(a) : a.heap[i] > 0}
HeapFront(a) == Max(OnHeap(a))

\* Mutant: the index is taken before the push_back.
AllocSlot_Last(a) == IF OnHeap(a) = {} THEN a.size - 1 ELSE HeapFront(a)

\* The index Alloc() returns.
AllocSlot(a) == IF OnHeap(a) = {} THEN a.size ELSE HeapFront(a)

\* Mutant: the popped slot stays on the heap.
Alloc_NoPop(a, obj) ==
    IF OnHeap(a) = {}
    THEN [size  |-> a.size + 1,
          slots |-> [i \in 0 .. a.size |->
                        IF i = a.size THEN obj ELSE a.slots[i]],
          heap  |-> [i \in 0 .. a.size |->
                        IF i = a.size THEN 0 ELSE a.heap[i]]]
    ELSE [a EXCEPT !.slots[HeapFront(a)] = obj]

\* Mutant: the vector grows although freed slots wait on the heap.
Alloc_AlwaysGrow(a, obj) ==
    [size  |-> a.size + 1,
     slots |-> [i \in 0 .. a.size |-> IF i = a.size THEN obj ELSE a.slots[i]],
     heap  |-> [i \in 0 .. a.size |-> IF i = a.size THEN 0 ELSE a.heap[i]]]

\* The allocator after Alloc(), with obj the object `new T' made and the
\* caller filled in.
Alloc(a, obj) ==
    IF OnHeap(a) = {}
    THEN [size  |-> a.size + 1,
          slots |-> [i \in 0 .. a.size |->
                        IF i = a.size THEN obj ELSE a.slots[i]],
          heap  |-> [i \in 0 .. a.size |->
                        IF i = a.size THEN 0 ELSE a.heap[i]]]
    ELSE [size  |-> a.size,
          slots |-> [a.slots EXCEPT ![HeapFront(a)] = obj],
          heap  |-> [a.heap EXCEPT ![HeapFront(a)] = @ - 1]]

\* Mutant: the check for an already freed slot is dropped.
Free_NoNullCheck(a, slot) ==
    [a EXCEPT !.slots[slot] = NULL, !.heap[slot] = @ + 1]

\* void Free(int slot); the callers pass a slot inside the vector.
Free(a, slot) ==
    IF a.slots[slot] = NULL
    THEN a
    ELSE [size  |-> a.size,
          slots |-> [a.slots EXCEPT ![slot] = NULL],
          heap  |-> [a.heap EXCEPT ![slot] = @ + 1]]

\* Not code of its own: the caller writes through the pointer At() gave it.
Update(a, slot, obj) == [a EXCEPT !.slots[slot] = obj]

\* The slots that hold an object.
Live(a) == {i \in Index(a) : a.slots[i] # NULL}
==============================================================================
