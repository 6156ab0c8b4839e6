------------------------------- MODULE SlotPool -------------------------------
(***************************************************************************)
(* What a SlotAllocator promises its clients: a map from slot numbers to   *)
(* objects in which a new object never takes the number of a live one, and *)
(* in which freeing a slot affects no other slot.  Nothing is said about   *)
(* the vector, the heap or which free number is chosen.                    *)
(***************************************************************************)
EXTENDS Integers

CONSTANTS Slot, Object

VARIABLE pool

Init == pool = [s \in {} |-> 0]

\* A fresh object gets any number that is not in use.
Alloc(o) ==
    \E s \in Slot \ DOMAIN pool :
        pool' = [t \in DOMAIN pool \cup {s} |-> IF t = s THEN o ELSE pool[t]]

\* Freeing forgets exactly one slot; freeing a free slot does nothing.
Free(s) ==
    pool' = [t \in DOMAIN pool \ {s} |-> pool[t]]

Next == \/ \E o \in Object : Alloc(o)
        \/ \E s \in Slot : Free(s)

Spec == Init /\ [][Next]_pool
==============================================================================
