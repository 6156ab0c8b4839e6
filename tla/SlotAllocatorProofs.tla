------------------------- MODULE SlotAllocatorProofs -------------------------
(***************************************************************************)
(* What Alloc(), Free() and a write through At() do to any allocator whose *)
(* heap_ is its free list, whatever it holds.  The proofs about the        *)
(* modules that embed allocators rest on these lemmas.                     *)
(***************************************************************************)
EXTENDS SlotAllocator, WellFoundedInduction, FiniteSetTheorems, TLAPS

(***************************************************************************)
(* slots_ and heap_ are indexed alike, and heap_ is exactly the free list. *)
(***************************************************************************)
WellFormed(a) ==
    /\ a = [size |-> a.size, slots |-> a.slots, heap |-> a.heap]
    /\ a.size \in Nat
    /\ a.slots = [i \in Index(a) |-> a.slots[i]]
    /\ a.heap = [i \in Index(a) |-> IF a.slots[i] = NULL THEN 1 ELSE 0]

(***************************************************************************)
(* Induction, as the provers can use it: a nonempty set of numbers has a   *)
(* least element.                                                          *)
(***************************************************************************)
LEMMA LeastExists ==
    ASSUME NEW T \in SUBSET Nat, T # {}
    PROVE  \E x \in T : \A y \in T : x <= y
<1> DEFINE R == OpToRel(<, Nat)
<1>1. PICK x \in T : \A y \in T : ~ (<<y, x>> \in R)
  <2>1. IsWellFoundedOn(R, Nat)
    BY NatLessThanWellFounded
  <2> HIDE DEF R
  <2> QED
    BY <2>1, WFMin, Zenon
<1>2. \A y \in T : ~ (y < x)
  BY <1>1 DEF OpToRel
<1> HIDE DEF R
<1> QED
  BY <1>1, <1>2

(***************************************************************************)
(* A nonempty set of slots below n has a largest element, so heap_.front() *)
(* of a nonempty heap_ is well defined.                                    *)
(***************************************************************************)
LEMMA MaxExists ==
    ASSUME NEW n \in Nat, NEW S \in SUBSET (0 .. n - 1), S # {}
    PROVE  \E m \in S : \A k \in S : m >= k
<1> DEFINE T == {k \in Nat : n - k \in S}
<1>1. T # {}
  <2>1. PICK s \in S : TRUE
    OBVIOUS
  <2>2. n - s \in Nat /\ n - (n - s) = s
    BY <2>1
  <2> QED
    BY <2>1, <2>2
<1>2. PICK x \in T : \A y \in T : x <= y
  <2>1. T \in SUBSET Nat
    OBVIOUS
  <2> HIDE DEF T
  <2> QED
    BY <1>1, <2>1, LeastExists
<1>3. n - x \in S /\ x \in Nat
  BY <1>2
<1>4. ASSUME NEW k \in S PROVE n - x >= k
  <2>1. k \in 0 .. n - 1
    BY <1>4
  <2>2. n - k \in Nat /\ n - (n - k) = k
    BY <2>1
  <2>3. n - k \in T
    BY <1>4, <2>2
  <2>4. x <= n - k
    BY <1>2, <2>3
  <2> HIDE DEF T
  <2> QED
    BY <1>3, <2>1, <2>4
<1> QED
  BY <1>3, <1>4

(***************************************************************************)
(* heap_.front() is one of the slots on the heap.                          *)
(***************************************************************************)
LEMMA FrontOnHeap ==
    ASSUME NEW a, a.size \in Nat, OnHeap(a) # {}
    PROVE  HeapFront(a) \in OnHeap(a)
<1>1. OnHeap(a) \in SUBSET (0 .. a.size - 1)
  BY DEF OnHeap, Index
<1>2. \E m \in OnHeap(a) : \A k \in OnHeap(a) : m >= k
  BY <1>1, MaxExists
<1> QED
  BY <1>2 DEF HeapFront, Max


\* At() answers exactly for the live slots.
LEMMA LiveIsAt ==
    ASSUME NEW a, WellFormed(a), NEW s \in Int
    PROVE  /\ s \in Live(a) <=> At(a, s) # NULL
           /\ s \in Live(a) => s \in Index(a) /\ At(a, s) = a.slots[s]
  BY DEF WellFormed, Live, At, Index

LEMMA LiveIsIndex ==
    ASSUME NEW a, WellFormed(a)
    PROVE  Live(a) \subseteq Index(a) /\ Index(a) \subseteq Nat
  BY DEF WellFormed, Live, Index

LEMMA EmptyWellFormed ==
    WellFormed(EmptyAllocator) /\ Live(EmptyAllocator) = {}
  BY DEF WellFormed, EmptyAllocator, Index, Live

(***************************************************************************)
(* Alloc() stores the object in a slot that held none and touches no other *)
(* slot; the vector grows by one, and only when every slot is taken.       *)
(***************************************************************************)
LEMMA AllocFacts ==
    ASSUME NEW a, WellFormed(a), NEW obj, obj # NULL
    PROVE  /\ WellFormed(Alloc(a, obj))
           /\ AllocSlot(a) \in 0 .. a.size
           /\ AllocSlot(a) \notin Live(a)
           /\ Live(Alloc(a, obj)) = Live(a) \cup {AllocSlot(a)}
           /\ At(Alloc(a, obj), AllocSlot(a)) = obj
           /\ \A s \in Int : s # AllocSlot(a) => At(Alloc(a, obj), s) = At(a, s)
           /\ \/ Alloc(a, obj).size = a.size
              \/ /\ Alloc(a, obj).size = a.size + 1
                 /\ AllocSlot(a) = a.size
                 /\ Live(a) = Index(a)
<1> DEFINE b == Alloc(a, obj)
           n == AllocSlot(a)
<1>1. /\ a.size \in Nat
      /\ a.slots = [i \in 0 .. a.size - 1 |-> a.slots[i]]
      /\ a.heap = [i \in 0 .. a.size - 1 |-> IF a.slots[i] = NULL THEN 1 ELSE 0]
      /\ a = [size |-> a.size, slots |-> a.slots, heap |-> a.heap]
  BY DEF WellFormed, Index
<1>2. CASE OnHeap(a) = {}
  <2>1. /\ n = a.size
        /\ b = [size  |-> a.size + 1,
                slots |-> [i \in 0 .. a.size |->
                              IF i = a.size THEN obj ELSE a.slots[i]],
                heap  |-> [i \in 0 .. a.size |->
                              IF i = a.size THEN 0 ELSE a.heap[i]]]
    BY <1>2 DEF Alloc, AllocSlot
  <2> HIDE DEF b, n
  <2>2. \A s \in 0 .. a.size - 1 : a.slots[s] # NULL /\ a.heap[s] = 0
    BY <1>1, <1>2 DEF OnHeap, Index
  <2>3. /\ 0 .. b.size - 1 = 0 .. a.size
        /\ 0 .. a.size = (0 .. a.size - 1) \cup {a.size}
        /\ a.size \notin 0 .. a.size - 1
    BY <1>1, <2>1
  <2>4. /\ b.size = a.size + 1
        /\ b.slots = [i \in 0 .. a.size |-> IF i = a.size THEN obj ELSE a.slots[i]]
        /\ b.heap = [i \in 0 .. a.size |-> IF i = a.size THEN 0 ELSE a.heap[i]]
    BY <2>1
  <2>5. \A i \in 0 .. a.size : b.slots[i] # NULL /\ b.heap[i] = 0
    BY <2>2, <2>3, <2>4
  <2>6. WellFormed(b)
    <3>1. b = [size |-> b.size, slots |-> b.slots, heap |-> b.heap]
      BY <2>1
    <3>2. b.slots = [i \in Index(b) |-> b.slots[i]]
      BY <2>3, <2>4 DEF Index
    <3>3. b.heap = [i \in Index(b) |-> IF b.slots[i] = NULL THEN 1 ELSE 0]
      BY <2>3, <2>4, <2>5 DEF Index
    <3>4. b.size \in Nat
      BY <1>1, <2>4
    <3> QED
      BY <3>1, <3>2, <3>3, <3>4, Zenon DEF WellFormed
  <2>7. Live(a) = 0 .. a.size - 1
    BY <2>2 DEF Live, Index
  <2>8. Live(b) = 0 .. a.size
    BY <2>3, <2>5 DEF Live, Index
  <2>9. At(b, n) = obj /\ \A s \in Int : s # n => At(b, s) = At(a, s)
    BY <1>1, <2>1, <2>4 DEF At
  <2>10. n \in 0 .. a.size
    BY <1>1, <2>1
  <2> QED
    BY <2>1, <2>3, <2>4, <2>6, <2>7, <2>8, <2>9, <2>10 DEF b, n, Index
<1>3. CASE OnHeap(a) # {}
  <2>1. n = HeapFront(a) /\ n \in OnHeap(a)
    BY <1>1, <1>3, FrontOnHeap DEF AllocSlot
  <2>2. n \in 0 .. a.size - 1 /\ a.slots[n] = NULL /\ a.heap[n] = 1
    BY <1>1, <2>1 DEF OnHeap, Index
  <2>3. b = [size |-> a.size, slots |-> [a.slots EXCEPT ![n] = obj],
             heap |-> [a.heap EXCEPT ![n] = 0]]
    <3>1. a.heap[n] - 1 = 0
      BY <2>2
    <3>2. b = [size |-> a.size, slots |-> [a.slots EXCEPT ![n] = obj],
               heap |-> [a.heap EXCEPT ![n] = a.heap[n] - 1]]
      BY <1>3, <2>1, Zenon DEF Alloc
    <3> QED
      BY <3>1, <3>2, Zenon
  <2> HIDE DEF b, n
  <2>4. /\ b.size = a.size
        /\ b.slots = [i \in 0 .. a.size - 1 |-> IF i = n THEN obj ELSE a.slots[i]]
        /\ b.heap = [i \in 0 .. a.size - 1 |-> IF i = n THEN 0 ELSE a.heap[i]]
    BY <1>1, <2>2, <2>3
  <2>5. WellFormed(b)
    <3>1. b = [size |-> b.size, slots |-> b.slots, heap |-> b.heap]
      BY <2>3
    <3>2. b.slots = [i \in Index(b) |-> b.slots[i]]
      BY <2>4 DEF Index
    <3>3. b.heap = [i \in Index(b) |-> IF b.slots[i] = NULL THEN 1 ELSE 0]
      BY <1>1, <2>4 DEF Index
    <3>4. b.size \in Nat
      BY <1>1, <2>4
    <3> QED
      BY <3>1, <3>2, <3>3, <3>4, Zenon DEF WellFormed
  <2>6. Live(b) = Live(a) \cup {n} /\ n \notin Live(a)
    BY <2>2, <2>4 DEF Live, Index
  <2>7. At(b, n) = obj /\ \A s \in Int : s # n => At(b, s) = At(a, s)
    BY <1>1, <2>2, <2>4 DEF At
  <2>8. n \in 0 .. a.size
    BY <1>1, <2>2
  <2> QED
    BY <2>4, <2>5, <2>6, <2>7, <2>8 DEF b, n
<1> QED
  BY <1>2, <1>3

(***************************************************************************)
(* Free() empties its slot and touches no other; the second time it does   *)
(* nothing at all.                                                         *)
(***************************************************************************)
LEMMA FreeFacts ==
    ASSUME NEW a, WellFormed(a), NEW s \in Index(a)
    PROVE  /\ WellFormed(Free(a, s))
           /\ Live(Free(a, s)) = Live(a) \ {s}
           /\ At(Free(a, s), s) = NULL
           /\ \A t \in Int : t # s => At(Free(a, s), t) = At(a, t)
           /\ Free(a, s).size = a.size
<1> DEFINE b == Free(a, s)
<1>1. /\ a.size \in Nat
      /\ a.slots = [i \in 0 .. a.size - 1 |-> a.slots[i]]
      /\ a.heap = [i \in 0 .. a.size - 1 |-> IF a.slots[i] = NULL THEN 1 ELSE 0]
      /\ s \in 0 .. a.size - 1
  BY DEF WellFormed, Index
<1>2. CASE a.slots[s] = NULL
  <2>1. b = a
    BY <1>2 DEF Free
  <2>2. s \notin Live(a)
    BY <1>2 DEF Live
  <2>3. At(a, s) = NULL
    BY <1>1, <1>2 DEF At
  <2> QED
    BY <2>1, <2>2, <2>3
<1>3. CASE a.slots[s] # NULL
  <2>1. b = [size |-> a.size, slots |-> [a.slots EXCEPT ![s] = NULL],
             heap |-> [a.heap EXCEPT ![s] = 1]]
    <3>1. a.heap[s] + 1 = 1
      BY <1>1, <1>3
    <3>2. b = [size |-> a.size, slots |-> [a.slots EXCEPT ![s] = NULL],
               heap |-> [a.heap EXCEPT ![s] = a.heap[s] + 1]]
      BY <1>3, Zenon DEF Free
    <3> QED
      BY <3>1, <3>2, Zenon
  <2> HIDE DEF b
  <2>2. /\ b.size = a.size
        /\ b.slots = [i \in 0 .. a.size - 1 |-> IF i = s THEN NULL ELSE a.slots[i]]
        /\ b.heap = [i \in 0 .. a.size - 1 |-> IF i = s THEN 1 ELSE a.heap[i]]
    BY <1>1, <2>1
  <2>3. WellFormed(b)
    <3>1. b = [size |-> b.size, slots |-> b.slots, heap |-> b.heap]
      BY <2>1
    <3>2. b.slots = [i \in Index(b) |-> b.slots[i]]
      BY <2>2 DEF Index
    <3>3. b.heap = [i \in Index(b) |-> IF b.slots[i] = NULL THEN 1 ELSE 0]
      BY <1>1, <2>2 DEF Index
    <3>4. b.size \in Nat
      BY <1>1, <2>2
    <3> QED
      BY <3>1, <3>2, <3>3, <3>4, Zenon DEF WellFormed
  <2>4. Live(b) = Live(a) \ {s}
    BY <1>1, <2>2 DEF Live, Index
  <2>5. At(b, s) = NULL /\ \A t \in Int : t # s => At(b, t) = At(a, t)
    BY <1>1, <2>2 DEF At
  <2> QED
    BY <2>2, <2>3, <2>4, <2>5 DEF b
<1> QED
  BY <1>2, <1>3

(***************************************************************************)
(* Writing through the pointer of a live slot changes just that object.    *)
(***************************************************************************)
LEMMA UpdateFacts ==
    ASSUME NEW a, WellFormed(a), NEW s \in Live(a), NEW obj, obj # NULL
    PROVE  /\ WellFormed(Update(a, s, obj))
           /\ Live(Update(a, s, obj)) = Live(a)
           /\ At(Update(a, s, obj), s) = obj
           /\ \A t \in Int : t # s => At(Update(a, s, obj), t) = At(a, t)
           /\ Update(a, s, obj).size = a.size
<1> DEFINE b == Update(a, s, obj)
<1>1. /\ a.size \in Nat
      /\ a.slots = [i \in 0 .. a.size - 1 |-> a.slots[i]]
      /\ a.heap = [i \in 0 .. a.size - 1 |-> IF a.slots[i] = NULL THEN 1 ELSE 0]
      /\ a = [size |-> a.size, slots |-> a.slots, heap |-> a.heap]
      /\ s \in 0 .. a.size - 1 /\ a.slots[s] # NULL
  BY DEF WellFormed, Index, Live
<1>2. b = [size |-> a.size, slots |-> [a.slots EXCEPT ![s] = obj], heap |-> a.heap]
  <2>1. PICK sz, sl, hp : a = [size |-> sz, slots |-> sl, heap |-> hp]
    BY <1>1
  <2>2. b = [a EXCEPT !.slots = [a.slots EXCEPT ![s] = obj]]
    BY DEF Update
  <2> QED
    BY <2>1, <2>2
<1> HIDE DEF b
<1>3. /\ b.size = a.size
      /\ b.slots = [i \in 0 .. a.size - 1 |-> IF i = s THEN obj ELSE a.slots[i]]
      /\ b.heap = a.heap
  BY <1>1, <1>2
<1>4. WellFormed(b)
  <2>1. b = [size |-> b.size, slots |-> b.slots, heap |-> b.heap]
    BY <1>2
  <2>2. b.slots = [i \in Index(b) |-> b.slots[i]]
    BY <1>3 DEF Index
  <2>3. b.heap = [i \in Index(b) |-> IF b.slots[i] = NULL THEN 1 ELSE 0]
    BY <1>1, <1>3 DEF Index
  <2>4. b.size \in Nat
    BY <1>1, <1>3
  <2> QED
    BY <2>1, <2>2, <2>3, <2>4, Zenon DEF WellFormed
<1>5. Live(b) = Live(a)
  BY <1>1, <1>3 DEF Live, Index
<1>6. At(b, s) = obj /\ \A t \in Int : t # s => At(b, t) = At(a, t)
  BY <1>1, <1>3 DEF At
<1> QED
  BY <1>3, <1>4, <1>5, <1>6 DEF b

\* Whatever is written, the vector keeps its size.
LEMMA UpdateSize ==
    ASSUME NEW a, WellFormed(a), NEW s, NEW obj
    PROVE  Update(a, s, obj).size = a.size
<1>1. a = [size |-> a.size, slots |-> a.slots, heap |-> a.heap]
  BY DEF WellFormed
<1>2. PICK sz, sl, hp : a = [size |-> sz, slots |-> sl, heap |-> hp]
  BY <1>1
<1>3. Update(a, s, obj) = [a EXCEPT !.slots = [a.slots EXCEPT ![s] = obj]]
  BY DEF Update
<1> QED
  BY <1>2, <1>3

-------------------------------------------------------------------------------
(* Increasing sequences of numbers, which the proofs about strings cite.   *)

LEMMA Increasing ==
    ASSUME NEW n \in Nat, NEW e \in [0 .. n -> Nat],
           \A k \in 1 .. n : e[k - 1] < e[k],
           NEW j \in 0 .. n, NEW k \in 0 .. n, j < k
    PROVE  e[j] < e[k]
<1> DEFINE T == {i \in j + 1 .. n : ~ (e[j] < e[i])}
<1>1. T = {}
  <2> SUFFICES ASSUME T # {} PROVE FALSE
    OBVIOUS
  <2>1. PICK i \in T : \A y \in T : i <= y
    <3>1. T \in SUBSET Nat
      OBVIOUS
    <3> HIDE DEF T
    <3> QED
      BY <3>1, LeastExists
  <2>2. i \in j + 1 .. n /\ ~ (e[j] < e[i])
    BY <2>1
  <2>3. i \in 1 .. n /\ i \in 0 .. n /\ i - 1 \in 0 .. n
    BY <2>2
  <2>4. CASE i = j + 1
    <3>1. i - 1 = j
      BY <2>4
    <3> QED
      BY <2>2, <2>3, <3>1
  <2>5. CASE i # j + 1
    <3>1. i - 1 \in j + 1 .. n /\ ~ (i <= i - 1)
      BY <2>2, <2>5
    <3>2. e[j] < e[i - 1]
      BY <2>1, <3>1
    <3> HIDE DEF T
    <3>3. PICK x, y, z : x = e[j] /\ y = e[i - 1] /\ z = e[i]
      OBVIOUS
    <3>4. x \in Nat /\ y \in Nat /\ z \in Nat /\ x < y /\ y < z
      BY <2>3, <3>2, <3>3
    <3>5. x < z
      BY <3>4
    <3> QED
      BY <2>2, <3>3, <3>5
  <2> QED
    BY <2>4, <2>5
<1>2. k \in j + 1 .. n
  OBVIOUS
<1>3. k \notin T
  BY <1>1
<1> QED
  BY <1>2, <1>3

\* The increasing sequence of the members of a set is InOrder() of it.
Rising(a, n) == /\ n \in Nat /\ a \in [1 .. n -> Nat]
                /\ \A j, k \in 1 .. n : j < k => a[j] < a[k]

LEMMA CardRising ==
    ASSUME NEW a, NEW n, Rising(a, n), NEW m \in 0 .. n
    PROVE  Cardinality({a[k] : k \in 1 .. m}) = m
<1>1. n \in Nat /\ m \in Nat /\ \A k \in 1 .. m : k \in 1 .. n
  BY DEF Rising
<1>2. PICK S, f : S = {a[k] : k \in 1 .. m} /\ f = [k \in 1 .. m |-> a[k]]
  OBVIOUS
<1>3. \A j, k \in 1 .. m : a[j] = a[k] => j = k
  <2> SUFFICES ASSUME NEW j \in 1 .. m, NEW k \in 1 .. m, j # k PROVE a[j] # a[k]
    OBVIOUS
  <2>1. j \in 1 .. n /\ k \in 1 .. n /\ a[j] \in Nat /\ a[k] \in Nat
    BY <1>1 DEF Rising
  <2>2. j < k \/ k < j
    BY <2>1
  <2>3. a[j] < a[k] \/ a[k] < a[j]
    BY <2>1, <2>2 DEF Rising
  <2>4. PICK x, y : x = a[j] /\ y = a[k]
    OBVIOUS
  <2>5. x # y
    BY <2>1, <2>3, <2>4
  <2> QED
    BY <2>4, <2>5
<1>4. f \in Bijection(1 .. m, S)
  <2>1. f \in [1 .. m -> S]
    BY <1>2
  <2>2. \A j, k \in 1 .. m : f[j] = f[k] => j = k
    BY <1>2, <1>3
  <2>3. \A x \in S : \E k \in 1 .. m : f[k] = x
    BY <1>2
  <2> QED
    BY <2>1, <2>2, <2>3 DEF Bijection, Injection, Surjection, IsInjective
<1>5. ExistsBijection(1 .. m, S)
  BY <1>4 DEF ExistsBijection
<1>6. IsFiniteSet(1 .. m) /\ Cardinality(1 .. m) = m
  <2>1. IsFiniteSet(1 .. m) /\ Cardinality(1 .. m) = IF 1 > m THEN 0 ELSE m - 1 + 1
    BY <1>1, FS_Interval
  <2> QED
    BY <1>1, <2>1
<1> QED
  BY <1>2, <1>5, <1>6, FS_Bijection

-------------------------------------------------------------------------------
(* Loops, which the code has and the modules write as recursive functions.  *)

\* w holds the values of a loop of n rounds, round k of which turns v into
\* F[k][v].
Does(V, x, n, F, w) == /\ w \in [0 .. n -> V] /\ w[0] = x
                       /\ \A k \in 1 .. n : w[k] = F[k][w[k - 1]]

LEMMA LoopExists ==
    ASSUME NEW V, NEW x \in V, NEW n \in Nat, NEW F \in [1 .. n -> [V -> V]]
    PROVE  \E w : Does(V, x, n, F, w)
<1> DEFINE T == {m \in 0 .. n : ~ \E w : Does(V, x, m, F, w)}
<1>1. T = {}
  <2> SUFFICES ASSUME T # {} PROVE FALSE
    OBVIOUS
  <2>1. PICK m \in T : \A y \in T : m <= y
    <3>1. T \in SUBSET Nat
      OBVIOUS
    <3> HIDE DEF T
    <3> QED
      BY <3>1, LeastExists
  <2>2. m \in 0 .. n /\ ~ \E w : Does(V, x, m, F, w)
    BY <2>1
  <2>3. m # 0
    <3>1. [k \in 0 .. 0 |-> x] \in [0 .. 0 -> V] /\ 1 .. 0 = {}
      OBVIOUS
    <3>2. Does(V, x, 0, F, [k \in 0 .. 0 |-> x])
      BY <3>1 DEF Does
    <3> QED
      BY <2>2, <3>2
  <2>4. m - 1 \in 0 .. n /\ ~ (m <= m - 1) /\ m \in 1 .. n
    BY <2>2, <2>3
  <2>5. PICK u : Does(V, x, m - 1, F, u)
    BY <2>1, <2>4
  <2> HIDE DEF T
  <2>6. u \in [0 .. m - 1 -> V] /\ u[m - 1] \in V /\ F[m] \in [V -> V]
    BY <2>4, <2>5 DEF Does
  <2>7. PICK w : w = [k \in 0 .. m |-> IF k = m THEN F[m][u[m - 1]] ELSE u[k]]
    OBVIOUS
  <2>8. /\ w \in [0 .. m -> V] /\ w[m] = F[m][u[m - 1]]
        /\ \A k \in 0 .. m - 1 : w[k] = u[k]
    BY <2>4, <2>6, <2>7
  <2>9. w[0] = x
    BY <2>4, <2>5, <2>8 DEF Does
  <2>10. \A k \in 1 .. m : w[k] = F[k][w[k - 1]]
    <3> SUFFICES ASSUME NEW k \in 1 .. m PROVE w[k] = F[k][w[k - 1]]
      OBVIOUS
    <3>1. k - 1 \in 0 .. m - 1 /\ w[k - 1] = u[k - 1]
      BY <2>4, <2>8
    <3>2. CASE k = m
      BY <2>8, <3>1, <3>2
    <3>3. CASE k # m
      <4>1. k \in 1 .. m - 1 /\ k \in 0 .. m - 1
        BY <2>4, <3>3
      <4>2. u[k] = F[k][u[k - 1]]
        BY <2>5, <4>1 DEF Does
      <4> QED
        BY <2>8, <3>1, <4>1, <4>2
    <3> QED
      BY <3>2, <3>3
  <2> QED
    BY <2>2, <2>8, <2>9, <2>10 DEF Does
<1>2. n \in 0 .. n
  OBVIOUS
<1> QED
  BY <1>1, <1>2
==============================================================================
