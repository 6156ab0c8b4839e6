-------------------------- MODULE KernelProxyProofs --------------------------
(***************************************************************************)
(* Proofs about base/KernelProxy.cc over memory/MemMount.cc, for every set *)
(* of names and every number of inodes and descriptors, and the proof that *)
(* the calls implement FileTree.                                           *)
(***************************************************************************)
EXTENDS KernelProxyTree, SlotAllocatorProofs, SequenceTheorems, FiniteSetTheorems

-------------------------------------------------------------------------------
(* The loop of GetSlot().                                                  *)

\* One round of it: from slot to the child of that name.
WalkStep(fs, slot, name) ==
    IF slot < 0 THEN slot
    ELSE IF At(fs, slot) = NULL THEN CRASHED
    ELSE IF ~ At(fs, slot).is_dir THEN NOT_FOUND
    ELSE FindChild(fs, slot, name)

\* w holds the slots of the first n rounds.
IsWalk(fs, path, n, w) ==
    w = [k \in 0 .. n |-> IF k = 0 THEN 0 ELSE WalkStep(fs, w[k - 1], path[k])]

\* The slot the loop ends with.
WalkEnd(fs, path) == (CHOOSE w : IsWalk(fs, path, Len(path), w))[Len(path)]

LEMMA GetSlotIsWalk ==
    ASSUME NEW fs, NEW path
    PROVE  GetSlot(fs, path) = IF WalkEnd(fs, path) = 0 /\ Len(path) > 1
                               THEN NOT_FOUND ELSE WalkEnd(fs, path)
  BY Zenon DEF GetSlot, WalkEnd, IsWalk, WalkStep

LEMMA WalkExists ==
    ASSUME NEW fs, NEW path, NEW n \in Nat
    PROVE  \E w : IsWalk(fs, path, n, w)
<1> DEFINE T == {m \in Nat : ~ \E w : IsWalk(fs, path, m, w)}
<1> SUFFICES ASSUME T # {} PROVE FALSE
  OBVIOUS
<1>1. PICK m \in T : \A y \in T : m <= y
  <2>1. T \in SUBSET Nat
    OBVIOUS
  <2> HIDE DEF T
  <2> QED
    BY <2>1, LeastExists
<1>2. m \in Nat /\ ~ \E w : IsWalk(fs, path, m, w)
  BY <1>1
<1>3. m # 0
  <2> DEFINE w == [k \in 0 .. 0 |-> 0]
  <2>1. IsWalk(fs, path, 0, w)
    BY DEF IsWalk
  <2> QED
    BY <1>2, <2>1
<1>4. m - 1 \in Nat /\ ~ (m <= m - 1)
  BY <1>2, <1>3
<1>5. PICK u : IsWalk(fs, path, m - 1, u)
  BY <1>1, <1>4
<1> HIDE DEF T
<1> DEFINE v == [k \in 0 .. m |-> IF k = m THEN WalkStep(fs, u[m - 1], path[m])
                                  ELSE u[k]]
<1>6. \A k \in 0 .. m - 1 :
          u[k] = IF k = 0 THEN 0 ELSE WalkStep(fs, u[k - 1], path[k])
  BY <1>5 DEF IsWalk
<1>7. v[m] = WalkStep(fs, u[m - 1], path[m]) /\ \A k \in 0 .. m - 1 : v[k] = u[k]
  BY <1>2
<1>8. \A k \in 0 .. m :
          v[k] = IF k = 0 THEN 0 ELSE WalkStep(fs, v[k - 1], path[k])
  <2> SUFFICES ASSUME NEW k \in 0 .. m
               PROVE  v[k] = IF k = 0 THEN 0 ELSE WalkStep(fs, v[k - 1], path[k])
    OBVIOUS
  <2> HIDE DEF v
  <2>1. CASE k = m
    <3>1. m - 1 \in 0 .. m - 1
      BY <1>4
    <3> QED
      BY <1>3, <1>7, <2>1, <3>1
  <2>2. CASE k = 0
    BY <1>3, <1>2, <1>6, <1>7, <2>2
  <2>3. CASE k # 0 /\ k # m
    <3>1. k \in 0 .. m - 1 /\ k - 1 \in 0 .. m - 1
      BY <1>2, <2>3
    <3> QED
      BY <1>6, <1>7, <2>3, <3>1
  <2> QED
    BY <2>1, <2>2, <2>3
<1>9. IsWalk(fs, path, m, v)
  <2>1. v = [k \in 0 .. m |-> v[k]]
    OBVIOUS
  <2> HIDE DEF v
  <2> QED
    BY <1>8, <2>1 DEF IsWalk
<1> QED
  BY <1>2, <1>9

\* What the loop has done after k rounds depends on the first k names only.
LEMMA WalksAgree ==
    ASSUME NEW fs, NEW p, NEW q, NEW n \in Nat, NEW m \in Nat, n <= m,
           \A k \in 1 .. n : p[k] = q[k],
           NEW u, IsWalk(fs, p, n, u), NEW v, IsWalk(fs, q, m, v)
    PROVE  u[n] = v[n]
<1> DEFINE T == {k \in 0 .. n : u[k] # v[k]}
<1>1. \A k \in 0 .. n : u[k] = IF k = 0 THEN 0 ELSE WalkStep(fs, u[k - 1], p[k])
  BY DEF IsWalk
<1>2. \A k \in 0 .. n : v[k] = IF k = 0 THEN 0 ELSE WalkStep(fs, v[k - 1], q[k])
  BY DEF IsWalk
<1>3. T = {}
  <2> SUFFICES ASSUME T # {} PROVE FALSE
    OBVIOUS
  <2>1. PICK k \in T : \A y \in T : k <= y
    <3>1. T \in SUBSET Nat
      OBVIOUS
    <3> HIDE DEF T
    <3> QED
      BY <3>1, LeastExists
  <2>2. k \in 0 .. n /\ u[k] # v[k]
    BY <2>1
  <2>3. k # 0
    BY <1>1, <1>2, <2>2
  <2>4. k - 1 \in 0 .. n /\ ~ (k <= k - 1) /\ k \in 1 .. n
    BY <2>2, <2>3
  <2>5. u[k - 1] = v[k - 1]
    BY <2>1, <2>4
  <2> QED
    BY <1>1, <1>2, <2>2, <2>3, <2>4, <2>5
<1> QED
  BY <1>3

\* The walk to a path is the walk to its parent and one more round.
LEMMA WalkEndStep ==
    ASSUME NEW fs, NEW S, NEW path \in Seq(S)
    PROVE  /\ path = <<>> => WalkEnd(fs, path) = 0
           /\ path # <<>> => WalkEnd(fs, path) =
                  WalkStep(fs, WalkEnd(fs, ParentPath(path)), path[Len(path)])
<1> DEFINE n == Len(path)
<1>1. n \in Nat
  OBVIOUS
<1>2. PICK v : v = CHOOSE w : IsWalk(fs, path, n, w)
  OBVIOUS
<1>3. IsWalk(fs, path, n, v) /\ WalkEnd(fs, path) = v[n]
  BY <1>1, <1>2, WalkExists DEF WalkEnd
<1>4. CASE path = <<>>
  <2>1. n = 0
    BY <1>4
  <2> QED
    BY <1>3, <1>4, <2>1 DEF IsWalk
<1>5. CASE path # <<>>
  <2> DEFINE p == ParentPath(path)
  <2>1. n - 1 \in Nat /\ n \in 0 .. n /\ n # 0
    BY <1>1, <1>5
  <2>2. Len(p) = n - 1 /\ \A k \in 1 .. n - 1 : p[k] = path[k]
    <3>1. /\ Len(SubSeq(path, 1, n - 1)) = IF 1 <= n - 1 THEN n - 1 - 1 + 1 ELSE 0
          /\ \A i \in 1 .. n - 1 - 1 + 1 : SubSeq(path, 1, n - 1)[i] = path[1 + i - 1]
      <4>1. 1 \in 1 .. n + 1 /\ n - 1 \in 1 - 1 .. n
        BY <2>1
      <4> QED
        BY <4>1, SubSeqProperties
    <3>2. p = SubSeq(path, 1, n - 1)
      BY <1>5 DEF ParentPath
    <3>3. n - 1 - 1 + 1 = n - 1 /\ \A i \in 1 .. n - 1 : 1 + i - 1 = i
      BY <2>1
    <3>4. Len(p) = IF 1 <= n - 1 THEN n - 1 ELSE 0
      BY <3>1, <3>2, <3>3, Zenon
    <3>5. \A k \in 1 .. n - 1 : p[k] = path[k]
      BY <3>1, <3>2, <3>3, Zenon
    <3> HIDE DEF p, n
    <3> QED
      BY <2>1, <3>4, <3>5
  <2> HIDE DEF p, n
  <2>3. PICK u : u = CHOOSE w : IsWalk(fs, p, Len(p), w)
    OBVIOUS
  <2>4. IsWalk(fs, p, n - 1, u) /\ WalkEnd(fs, p) = u[n - 1]
    BY <2>1, <2>2, <2>3, WalkExists DEF WalkEnd
  <2>5. u[n - 1] = v[n - 1]
    <3>1. n - 1 <= n
      BY <2>1, <1>1
    <3> QED
      BY <1>1, <1>3, <2>1, <2>2, <2>4, <3>1, WalksAgree
  <2>6. v[n] = WalkStep(fs, v[n - 1], path[n])
    BY <1>3, <2>1 DEF IsWalk
  <2> QED
    BY <1>3, <1>5, <2>4, <2>5, <2>6 DEF p, n
<1> QED
  BY <1>4, <1>5

-------------------------------------------------------------------------------
(* children_.remove().                                                     *)

\* kept holds what is left of the first 0, 1, .., n children.
IsKept(children, slot, n, kept) ==
    kept = [i \in 0 .. n |-> IF i = 0 THEN <<>>
                             ELSE IF children[i] = slot THEN kept[i - 1]
                             ELSE Append(kept[i - 1], children[i])]

LEMMA WithoutIsKept ==
    ASSUME NEW children, NEW slot
    PROVE  Without(children, slot) =
             (CHOOSE kept : IsKept(children, slot, Len(children), kept))[Len(children)]
  BY Zenon DEF Without, IsKept

LEMMA KeptExists ==
    ASSUME NEW children, NEW slot, NEW n \in Nat
    PROVE  \E kept : IsKept(children, slot, n, kept)
<1> DEFINE T == {m \in Nat : ~ \E kept : IsKept(children, slot, m, kept)}
           next(s, i) == IF children[i] = slot THEN s ELSE Append(s, children[i])
<1> SUFFICES ASSUME T # {} PROVE FALSE
  OBVIOUS
<1>1. PICK m \in T : \A y \in T : m <= y
  <2>1. T \in SUBSET Nat
    OBVIOUS
  <2> HIDE DEF T
  <2> QED
    BY <2>1, LeastExists
<1>2. m \in Nat /\ ~ \E kept : IsKept(children, slot, m, kept)
  BY <1>1
<1>3. m # 0
  <2> DEFINE w == [k \in 0 .. 0 |-> <<>>]
  <2>1. IsKept(children, slot, 0, w)
    BY DEF IsKept
  <2> QED
    BY <1>2, <2>1
<1>4. m - 1 \in Nat /\ ~ (m <= m - 1)
  BY <1>2, <1>3
<1>5. PICK u : IsKept(children, slot, m - 1, u)
  BY <1>1, <1>4
<1> HIDE DEF T
<1> DEFINE v == [k \in 0 .. m |-> IF k = m THEN next(u[m - 1], m) ELSE u[k]]
<1>6. \A k \in 0 .. m - 1 : u[k] = IF k = 0 THEN <<>> ELSE next(u[k - 1], k)
  BY <1>5 DEF IsKept
<1> HIDE DEF next
<1>7. v[m] = next(u[m - 1], m) /\ \A k \in 0 .. m - 1 : v[k] = u[k]
  BY <1>2
<1>8. \A k \in 0 .. m : v[k] = IF k = 0 THEN <<>> ELSE next(v[k - 1], k)
  <2> SUFFICES ASSUME NEW k \in 0 .. m
               PROVE  v[k] = IF k = 0 THEN <<>> ELSE next(v[k - 1], k)
    OBVIOUS
  <2> HIDE DEF v
  <2>1. CASE k = m
    <3>1. m - 1 \in 0 .. m - 1
      BY <1>4
    <3> QED
      BY <1>3, <1>7, <2>1, <3>1
  <2>2. CASE k = 0
    BY <1>3, <1>2, <1>6, <1>7, <2>2
  <2>3. CASE k # 0 /\ k # m
    <3>1. k \in 0 .. m - 1 /\ k - 1 \in 0 .. m - 1
      BY <1>2, <2>3
    <3> QED
      BY <1>6, <1>7, <2>3, <3>1
  <2> QED
    BY <2>1, <2>2, <2>3
<1>9. IsKept(children, slot, m, v)
  <2>1. v = [k \in 0 .. m |-> v[k]]
    OBVIOUS
  <2> HIDE DEF v
  <2> QED
    BY <1>8, <2>1 DEF IsKept, next
<1> QED
  BY <1>2, <1>9

\* All but the removed child are left, once each when no child was there twice.
LEMMA WithoutFacts ==
    ASSUME NEW S, NEW children \in Seq(S), NEW slot
    PROVE  LET left == Without(children, slot)
           IN  /\ left \in Seq(S)
               /\ \A i \in 1 .. Len(left) :
                      /\ left[i] # slot
                      /\ \E k \in 1 .. Len(children) : children[k] = left[i]
               /\ \A k \in 1 .. Len(children) :
                      children[k] # slot =>
                          \E i \in 1 .. Len(left) : left[i] = children[k]
               /\ (\A i, j \in 1 .. Len(children) : children[i] = children[j] => i = j)
                  => \A i, j \in 1 .. Len(left) : left[i] = left[j] => i = j
<1> DEFINE n == Len(children)
           differ == \A i, j \in 1 .. n : children[i] = children[j] => i = j
<1>1. n \in Nat
  OBVIOUS
<1>2. PICK kept : kept = CHOOSE k : IsKept(children, slot, n, k)
  OBVIOUS
<1>3. IsKept(children, slot, n, kept) /\ Without(children, slot) = kept[n]
  BY <1>1, <1>2, KeptExists, WithoutIsKept
<1>4. \A k \in 0 .. n :
          kept[k] = IF k = 0 THEN <<>>
                    ELSE IF children[k] = slot THEN kept[k - 1]
                    ELSE Append(kept[k - 1], children[k])
  BY <1>3 DEF IsKept
<1> DEFINE from(k) == \A i \in 1 .. Len(kept[k]) :
                          /\ kept[k][i] # slot
                          /\ \E c \in 1 .. k : children[c] = kept[k][i]
           all(k) == \A c \in 1 .. k :
                         children[c] # slot =>
                             \E i \in 1 .. Len(kept[k]) : kept[k][i] = children[c]
           once(k) == \A i, j \in 1 .. Len(kept[k]) : kept[k][i] = kept[k][j] => i = j
           good(k) == kept[k] \in Seq(S) /\ from(k) /\ all(k) /\ (differ => once(k))
           T == {k \in 0 .. n : ~ good(k)}
<1>5. T = {}
  <2> SUFFICES ASSUME T # {} PROVE FALSE
    OBVIOUS
  <2>1. PICK k \in T : \A y \in T : k <= y
    <3>1. T \in SUBSET Nat
      OBVIOUS
    <3> HIDE DEF T
    <3> QED
      BY <3>1, LeastExists
  <2>2. k \in 0 .. n /\ ~ good(k)
    BY <2>1
  <2>3. k # 0
    <3>1. CASE k = 0
      <4>1. kept[k] = <<>> /\ 1 .. k = {}
        BY <1>4, <2>2, <3>1
      <4>2. good(k)
        BY <4>1
      <4> QED
        BY <2>2, <4>2
    <3> QED
      BY <3>1
  <2>4. k - 1 \in 0 .. n /\ ~ (k <= k - 1) /\ k \in 1 .. n
    BY <2>2, <2>3
  <2>5. good(k - 1)
    BY <2>1, <2>4
  <2> HIDE DEF T
  <2> DEFINE old == kept[k - 1]
             new == kept[k]
  <2>6. 1 .. k = (1 .. k - 1) \cup {k}
    BY <2>4
  <2>7. CASE children[k] = slot
    <3>1. new = old
      BY <1>4, <2>2, <2>3, <2>7
    <3>2. from(k) /\ all(k) /\ (differ => once(k)) /\ kept[k] \in Seq(S)
      BY <2>5, <2>6, <2>7, <3>1
    <3> QED
      BY <2>2, <3>2
  <2>8. CASE children[k] # slot
    <3>1. new = Append(old, children[k]) /\ old \in Seq(S) /\ children[k] \in S
      <4>1. new = Append(old, children[k])
        BY <1>4, <2>2, <2>3, <2>8
      <4>2. old \in Seq(S)
        BY <2>5
      <4>3. children[k] \in S
        BY <2>4
      <4> QED
        BY <4>1, <4>2, <4>3
    <3>2. /\ Len(old) \in Nat /\ Len(new) = Len(old) + 1 /\ new \in Seq(S)
          /\ \A i \in 1 .. Len(old) : new[i] = old[i]
          /\ new[Len(old) + 1] = children[k]
      BY <3>1
    <3>3. 1 .. Len(new) = (1 .. Len(old)) \cup {Len(old) + 1}
      BY <3>2
    <3>4. from(k - 1) /\ all(k - 1) /\ (differ => once(k - 1))
      BY <2>5
    <3> HIDE DEF old, new
    <3>5. \A i \in 1 .. Len(new) : /\ new[i] # slot
                                   /\ \E c \in 1 .. k : children[c] = new[i]
      <4>1. ASSUME NEW i \in 1 .. Len(old)
            PROVE  new[i] # slot /\ \E c \in 1 .. k : children[c] = new[i]
        <5>1. new[i] = old[i] /\ old[i] # slot
          BY <3>2, <3>4 DEF old
        <5>2. PICK c \in 1 .. k - 1 : children[c] = old[i]
          BY <3>4 DEF old
        <5> QED
          BY <2>6, <5>1, <5>2
      <4>2. new[Len(old) + 1] # slot /\ \E c \in 1 .. k : children[c] = new[Len(old) + 1]
        BY <2>6, <2>8, <3>2
      <4> QED
        BY <3>3, <4>1, <4>2
    <3>6. \A c \in 1 .. k : children[c] # slot =>
                                \E i \in 1 .. Len(new) : new[i] = children[c]
      <4>1. ASSUME NEW c \in 1 .. k - 1, children[c] # slot
            PROVE  \E i \in 1 .. Len(new) : new[i] = children[c]
        <5>1. PICK i \in 1 .. Len(old) : old[i] = children[c]
          BY <3>4, <4>1 DEF old
        <5> QED
          BY <3>2, <3>3, <5>1
      <4>2. \E i \in 1 .. Len(new) : new[i] = children[k]
        BY <3>2, <3>3
      <4> QED
        BY <2>6, <4>1, <4>2
    <3>7. ASSUME differ
          PROVE  \A i, j \in 1 .. Len(new) : new[i] = new[j] => i = j
      <4>1. \A i \in 1 .. Len(old) : new[i] # children[k]
        <5> SUFFICES ASSUME NEW i \in 1 .. Len(old) PROVE old[i] # children[k]
          BY <3>2
        <5>1. PICK c \in 1 .. k - 1 : children[c] = old[i]
          BY <3>4 DEF old
        <5>2. c \in 1 .. n /\ c # k
          BY <2>4, <1>1
        <5> QED
          BY <2>4, <3>7, <5>1, <5>2
      <4> QED
        BY <3>2, <3>3, <3>4, <3>7, <4>1 DEF old
    <3>8. good(k)
      BY <3>2, <3>5, <3>6, <3>7 DEF new
    <3> QED
      BY <2>2, <3>8
  <2> QED
    BY <2>7, <2>8
<1>6. good(n)
  BY <1>1, <1>5
<1> HIDE DEF n
<1> QED
  BY <1>3, <1>6 DEF n

\* The same, as an operator of the list before and the list after.
Thinned(old, new, slot) ==
    /\ \A i \in 1 .. Len(new) :
           new[i] # slot /\ \E k \in 1 .. Len(old) : old[k] = new[i]
    /\ \A k \in 1 .. Len(old) :
           old[k] # slot => \E i \in 1 .. Len(new) : new[i] = old[k]
    /\ (\A i, j \in 1 .. Len(old) : old[i] = old[j] => i = j)
       => \A i, j \in 1 .. Len(new) : new[i] = new[j] => i = j

LEMMA WithoutThins ==
    ASSUME NEW S, NEW children \in Seq(S), NEW slot
    PROVE  Thinned(children, Without(children, slot), slot)
  BY WithoutFacts DEF Thinned

-------------------------------------------------------------------------------
(* Looking a path up in a tree of inodes.                                  *)

NodeType == [name : Names \cup {"/"}, is_dir : BOOLEAN,
             parent : -1 .. MaxNodes - 1,
             children : Seq(0 .. MaxNodes - 1), use_count : Nat]

\* slots_ holds inodes.
Typed(a) == /\ WellFormed(a)
            /\ a.size <= MaxNodes
            /\ \A s \in Live(a) : At(a, s) \in NodeType

LEMMA NodeNotNull == \A n \in NodeType : n # NULL
  BY NullAssumption DEF NodeType

LEMMA Elements ==
    ASSUME NEW S, NEW s \in Seq(S)
    PROVE  Len(s) \in Nat /\ DOMAIN s = 1 .. Len(s) /\ \A i \in 1 .. Len(s) : s[i] \in S
  OBVIOUS

\* Where FindChild() stops, or that it does not.
LEMMA FindChildFacts ==
    ASSUME NEW a, Typed(a), NEW d \in Live(a), NEW name
    PROVE  LET ch == At(a, d).children
           IN  \/ /\ FindChild(a, d, name) = NOT_FOUND
                  /\ \A i \in 1 .. Len(ch) : /\ At(a, ch[i]) # NULL
                                             /\ At(a, ch[i]).name # name
               \/ /\ FindChild(a, d, name) = CRASHED
                  /\ \E i \in 1 .. Len(ch) : At(a, ch[i]) = NULL
               \/ \E i \in 1 .. Len(ch) : /\ FindChild(a, d, name) = ch[i]
                                          /\ At(a, ch[i]) # NULL
                                          /\ At(a, ch[i]).name = name
<1> DEFINE ch == At(a, d).children
           stops == {i \in 1 .. Len(ch) : \/ At(a, ch[i]) = NULL
                                          \/ At(a, ch[i]).name = name}
           c == FindChild(a, d, name)
<1>1. ch \in Seq(0 .. MaxNodes - 1)
  BY DEF Typed, NodeType
<1>2. stops \in SUBSET Nat
  BY <1>1
<1>3. c = IF stops = {} THEN NOT_FOUND
          ELSE IF At(a, ch[Min(stops)]) = NULL THEN CRASHED
          ELSE ch[Min(stops)]
  BY Zenon DEF FindChild
<1>4. CASE stops = {}
  <2>1. c = NOT_FOUND
    BY <1>3, <1>4
  <2>2. \A i \in 1 .. Len(ch) : At(a, ch[i]) # NULL /\ At(a, ch[i]).name # name
    BY <1>4
  <2> QED
    BY <2>1, <2>2
<1>5. CASE stops # {}
  <2>1. \E x \in stops : \A y \in stops : x <= y
    <3> HIDE DEF stops
    <3> QED
      BY <1>2, <1>5, LeastExists
  <2>2. Min(stops) \in stops
    <3> HIDE DEF stops
    <3> QED
      BY <2>1 DEF Min
  <2>3. PICK i : i = Min(stops)
    OBVIOUS
  <2>4. /\ i \in 1 .. Len(ch)
        /\ At(a, ch[i]) = NULL \/ At(a, ch[i]).name = name
    BY <2>2, <2>3
  <2>5. c = IF At(a, ch[i]) = NULL THEN CRASHED ELSE ch[i]
    BY <1>3, <1>5, <2>3
  <2> HIDE DEF stops, c, ch
  <2> QED
    BY <2>4, <2>5 DEF c, ch
<1> QED
  BY <1>4, <1>5

\* A round of the loop ends at a slot inside the bounds or at an error.
LEMMA WalkStepType ==
    ASSUME NEW a, Typed(a), NEW slot \in -2 .. MaxNodes - 1, NEW name
    PROVE  WalkStep(a, slot, name) \in -2 .. MaxNodes - 1
<1>1. -1 \in -2 .. MaxNodes - 1 /\ -2 \in -2 .. MaxNodes - 1
  BY KernelProxyAssumption
<1>2. CASE slot < 0 \/ At(a, slot) = NULL \/ ~ At(a, slot).is_dir
  BY <1>1, <1>2 DEF WalkStep, CRASHED, NOT_FOUND
<1>3. CASE ~ (slot < 0) /\ At(a, slot) # NULL /\ At(a, slot).is_dir
  <2>1. slot \in Live(a)
    BY <1>3, LiveIsAt DEF Typed
  <2>2. WalkStep(a, slot, name) = FindChild(a, slot, name)
    BY <1>3 DEF WalkStep
  <2>3. At(a, slot).children \in Seq(0 .. MaxNodes - 1)
    BY <2>1 DEF Typed, NodeType
  <2>4. \A i \in 1 .. Len(At(a, slot).children) :
            At(a, slot).children[i] \in 0 .. MaxNodes - 1
    BY <2>3, Elements
  <2>5. \A x \in 0 .. MaxNodes - 1 : x \in -2 .. MaxNodes - 1
    BY KernelProxyAssumption
  <2>6. \/ FindChild(a, slot, name) = -1 \/ FindChild(a, slot, name) = -2
        \/ \E i \in 1 .. Len(At(a, slot).children) :
               FindChild(a, slot, name) = At(a, slot).children[i]
    BY <2>1, FindChildFacts DEF CRASHED, NOT_FOUND
  <2> QED
    BY <1>1, <2>2, <2>4, <2>5, <2>6
<1> QED
  BY <1>2, <1>3

LEMMA WalkIsWalk ==
    ASSUME NEW fs, NEW S, NEW path \in Seq(S)
    PROVE  \E w : IsWalk(fs, path, Len(path), w) /\ WalkEnd(fs, path) = w[Len(path)]
<1>1. Len(path) \in Nat
  OBVIOUS
<1>2. PICK v : v = CHOOSE w : IsWalk(fs, path, Len(path), w)
  OBVIOUS
<1>3. IsWalk(fs, path, Len(path), v) /\ WalkEnd(fs, path) = v[Len(path)]
  BY <1>1, <1>2, WalkExists DEF WalkEnd
<1> QED
  BY <1>3

LEMMA GetSlotType ==
    ASSUME NEW a, Typed(a), NEW S, NEW path \in Seq(S)
    PROVE  GetSlot(a, path) \in -2 .. MaxNodes - 1
<1> DEFINE n == Len(path)
<1>0. n \in Nat
  OBVIOUS
<1>1. PICK w : IsWalk(a, path, n, w) /\ WalkEnd(a, path) = w[n]
  BY WalkIsWalk
<1>2. \A k \in 0 .. n : w[k] = IF k = 0 THEN 0 ELSE WalkStep(a, w[k - 1], path[k])
  BY <1>1 DEF IsWalk
<1> DEFINE T == {k \in 0 .. n : w[k] \notin -2 .. MaxNodes - 1}
<1>3. T = {}
  <2> SUFFICES ASSUME T # {} PROVE FALSE
    OBVIOUS
  <2>1. PICK k \in T : \A y \in T : k <= y
    <3>1. T \in SUBSET Nat
      OBVIOUS
    <3> HIDE DEF T
    <3> QED
      BY <3>1, LeastExists
  <2>2. k \in 0 .. n /\ w[k] \notin -2 .. MaxNodes - 1
    BY <2>1
  <2>3. k # 0
    BY <1>2, <2>2, KernelProxyAssumption
  <2>4. k - 1 \in 0 .. n /\ ~ (k <= k - 1)
    BY <2>2, <2>3
  <2>5. w[k - 1] \in -2 .. MaxNodes - 1
    BY <2>1, <2>4
  <2>6. w[k] = WalkStep(a, w[k - 1], path[k])
    BY <1>2, <2>2, <2>3
  <2> QED
    BY <2>2, <2>5, <2>6, WalkStepType
<1>4. WalkEnd(a, path) \in -2 .. MaxNodes - 1
  BY <1>0, <1>1, <1>3
<1>5. -1 \in -2 .. MaxNodes - 1
  BY KernelProxyAssumption
<1> QED
  BY <1>4, <1>5, GetSlotIsWalk DEF NOT_FOUND

-------------------------------------------------------------------------------
(* Trees.                                                                  *)

Kids(a, d) == At(a, d).children
IsKid(a, d, s) == \E i \in 1 .. Len(Kids(a, d)) : Kids(a, d)[i] = s
Linked(a, s) == \E d \in Live(a) : IsKid(a, d, s)

\* NoDanglingChild and TreeWellFormed in the form in which every call keeps
\* them: each child is an inode that knows its parent and differs from its
\* siblings by its name, every directory is reached, and files have no children.
KidsOK(a, d) ==
    \A i \in 1 .. Len(Kids(a, d)) :
        /\ Kids(a, d)[i] \in Live(a) \ {0}
        /\ At(a, Kids(a, d)[i]).parent = d
        /\ \A j \in 1 .. Len(Kids(a, d)) :
               At(a, Kids(a, d)[i]).name = At(a, Kids(a, d)[j]).name => i = j

Tree(a) ==
    /\ 0 \in Live(a) /\ At(a, 0).is_dir
    /\ \A d \in Live(a) : KidsOK(a, d)
    /\ \A s \in Live(a) : At(a, s).is_dir => s = 0 \/ Linked(a, s)
    /\ \A s \in Live(a) : ~ At(a, s).is_dir => Kids(a, s) = <<>>

\* A round from a directory finds its child of that name, if it has one.
LEMMA WalkStepInTree ==
    ASSUME NEW a, Typed(a), Tree(a), NEW slot \in Live(a) \cup {NOT_FOUND}, NEW name
    PROVE  LET c == WalkStep(a, slot, name)
           IN  \/ /\ c = NOT_FOUND
                  /\ slot \in Live(a) /\ At(a, slot).is_dir =>
                         \A i \in 1 .. Len(Kids(a, slot)) :
                             At(a, Kids(a, slot)[i]).name # name
               \/ /\ c \in Live(a) \ {0} /\ slot \in Live(a) /\ At(a, slot).is_dir
                  /\ IsKid(a, slot, c) /\ At(a, c).name = name
<1> DEFINE c == WalkStep(a, slot, name)
<1>0. Live(a) \subseteq Nat
  BY LiveIsIndex DEF Typed
<1>1. CASE slot = NOT_FOUND
  <2>1. c = NOT_FOUND /\ slot \notin Live(a)
    BY <1>0, <1>1 DEF WalkStep, NOT_FOUND
  <2> QED
    BY <2>1
<1>2. CASE slot \in Live(a) /\ ~ At(a, slot).is_dir
  <2>1. ~ (slot < 0) /\ At(a, slot) # NULL
    BY <1>0, <1>2, NodeNotNull DEF Typed
  <2>2. c = NOT_FOUND
    BY <1>2, <2>1 DEF WalkStep
  <2> QED
    BY <1>2, <2>2
<1>3. CASE slot \in Live(a) /\ At(a, slot).is_dir
  <2>1. ~ (slot < 0) /\ At(a, slot) # NULL
    BY <1>0, <1>3, NodeNotNull DEF Typed
  <2>2. c = FindChild(a, slot, name)
    BY <1>3, <2>1 DEF WalkStep
  <2>3. \A i \in 1 .. Len(Kids(a, slot)) :
            Kids(a, slot)[i] \in Live(a) \ {0} /\ At(a, Kids(a, slot)[i]) # NULL
    BY <1>3, NodeNotNull DEF Tree, Typed, KidsOK
  <2>4. \/ /\ c = NOT_FOUND
           /\ \A i \in 1 .. Len(Kids(a, slot)) : At(a, Kids(a, slot)[i]).name # name
        \/ \E i \in 1 .. Len(Kids(a, slot)) : /\ c = Kids(a, slot)[i]
                                              /\ At(a, Kids(a, slot)[i]).name = name
    BY <1>3, <2>2, <2>3, FindChildFacts DEF Kids
  <2> HIDE DEF c
  <2>5. ASSUME NEW i \in 1 .. Len(Kids(a, slot)), c = Kids(a, slot)[i],
               At(a, Kids(a, slot)[i]).name = name
        PROVE  c \in Live(a) \ {0} /\ IsKid(a, slot, c) /\ At(a, c).name = name
    BY <2>3, <2>5 DEF IsKid
  <2> QED
    BY <1>3, <2>4, <2>5 DEF c
<1> QED
  BY <1>1, <1>2, <1>3

LEMMA WalkInTree ==
    ASSUME NEW a, Typed(a), Tree(a), NEW S, NEW path \in Seq(S)
    PROVE  /\ WalkEnd(a, path) \in Live(a) \cup {NOT_FOUND}
           /\ path # <<>> => WalkEnd(a, path) # 0
           /\ GetSlot(a, path) = WalkEnd(a, path)
<1> DEFINE n == Len(path)
           ok(x, k) == x \in Live(a) \cup {NOT_FOUND} /\ (k # 0 => x # 0)
<1>0. n \in Nat /\ (path # <<>> => n # 0)
  OBVIOUS
<1>1. PICK w : IsWalk(a, path, n, w) /\ WalkEnd(a, path) = w[n]
  BY WalkIsWalk
<1>2. \A k \in 0 .. n : w[k] = IF k = 0 THEN 0 ELSE WalkStep(a, w[k - 1], path[k])
  BY <1>1 DEF IsWalk
<1> DEFINE T == {k \in 0 .. n : ~ ok(w[k], k)}
<1>3. T = {}
  <2> SUFFICES ASSUME T # {} PROVE FALSE
    OBVIOUS
  <2>1. PICK k \in T : \A y \in T : k <= y
    <3>1. T \in SUBSET Nat
      OBVIOUS
    <3> HIDE DEF T
    <3> QED
      BY <3>1, LeastExists
  <2>2. k \in 0 .. n /\ ~ ok(w[k], k)
    BY <2>1
  <2>3. k # 0
    BY <1>2, <2>2 DEF Tree
  <2>4. k - 1 \in 0 .. n /\ ~ (k <= k - 1)
    BY <2>2, <2>3
  <2>5. w[k - 1] \in Live(a) \cup {NOT_FOUND}
    BY <2>1, <2>4
  <2>6. w[k] = WalkStep(a, w[k - 1], path[k])
    BY <1>2, <2>2, <2>3
  <2>7. NOT_FOUND # 0
    BY DEF NOT_FOUND
  <2>8. w[k] = NOT_FOUND \/ w[k] \in Live(a) \ {0}
    BY <2>5, <2>6, WalkStepInTree
  <2> QED
    BY <2>2, <2>7, <2>8
<1>4. ok(WalkEnd(a, path), n)
  BY <1>0, <1>1, <1>3
<1>5. GetSlot(a, path) = WalkEnd(a, path)
  <2>1. n > 1 => WalkEnd(a, path) # 0
    BY <1>0, <1>4
  <2> QED
    BY <2>1, GetSlotIsWalk
<1> QED
  BY <1>0, <1>4, <1>5

LEMMA ParentPathType ==
    ASSUME NEW S, NEW path \in Seq(S)
    PROVE  ParentPath(path) \in Seq(S)
<1>1. CASE path = <<>>
  BY <1>1 DEF ParentPath
<1>2. CASE path # <<>>
  <2>1. Len(path) \in Nat /\ Len(path) # 0
    BY <1>2
  <2>2. 1 \in 1 .. Len(path) + 1 /\ Len(path) - 1 \in 1 - 1 .. Len(path)
    BY <2>1
  <2>3. SubSeq(path, 1, Len(path) - 1) \in Seq(S)
    BY <2>2, SubSeqProperties
  <2> QED
    BY <1>2, <2>3 DEF ParentPath
<1> QED
  BY <1>1, <1>2

\* GetSlot() of a path finds the child of its parent of that name, and nothing
\* when there is none; it never meets a freed inode.
LEMMA GetSlotInTree ==
    ASSUME NEW a, Typed(a), Tree(a), NEW S, NEW path \in Seq(S)
    PROVE  LET s == GetSlot(a, path)
               p == GetParentSlot(a, path)
               last == path[Len(path)]
           IN  /\ p \in Live(a) \cup {NOT_FOUND}
               /\ s \in Live(a) \cup {NOT_FOUND}
               /\ path = <<>> => s = 0 /\ p = 0
               /\ path # <<>> =>
                      \/ /\ s = NOT_FOUND
                         /\ p \in Live(a) /\ At(a, p).is_dir =>
                                \A i \in 1 .. Len(Kids(a, p)) :
                                    At(a, Kids(a, p)[i]).name # last
                      \/ /\ s \in Live(a) \ {0} /\ p \in Live(a) /\ At(a, p).is_dir
                         /\ IsKid(a, p, s) /\ At(a, s).name = last
<1> DEFINE p == GetParentSlot(a, path)
<1>1. ParentPath(path) \in Seq(S)
  BY ParentPathType
<1>2. p = WalkEnd(a, ParentPath(path)) /\ p \in Live(a) \cup {NOT_FOUND}
  BY <1>1, WalkInTree DEF GetParentSlot
<1>3. GetSlot(a, path) = WalkEnd(a, path)
      /\ GetSlot(a, path) \in Live(a) \cup {NOT_FOUND}
  BY WalkInTree
<1>4. CASE path = <<>>
  <2>1. ParentPath(path) = path
    BY <1>4 DEF ParentPath
  <2> QED
    BY <1>2, <1>3, <1>4, <2>1, WalkEndStep
<1>5. CASE path # <<>>
  <2>1. GetSlot(a, path) = WalkStep(a, p, path[Len(path)])
    BY <1>2, <1>3, <1>5, WalkEndStep
  <2> HIDE DEF p
  <2> QED
    BY <1>2, <1>3, <1>5, <2>1, WalkStepInTree DEF p
<1> QED
  BY <1>4, <1>5

-------------------------------------------------------------------------------
(* The calls of MemMount, one slot at a time.                              *)

LEMMA UpdateNode ==
    ASSUME NEW a, Typed(a), NEW s \in Live(a), NEW node \in NodeType
    PROVE  LET b == Update(a, s, node)
           IN  /\ Typed(b) /\ Live(b) = Live(a) /\ b.size = a.size
               /\ At(b, s) = node
               /\ \A t \in Live(a) : t # s => At(b, t) = At(a, t)
<1> DEFINE b == Update(a, s, node)
<1>1. node # NULL /\ Live(a) \subseteq Int
  BY NodeNotNull, LiveIsIndex DEF Typed
<1>2. /\ WellFormed(b) /\ b.size = a.size
      /\ Live(b) = Live(a) /\ At(b, s) = node
      /\ \A t \in Int : t # s => At(b, t) = At(a, t)
  BY <1>1, UpdateFacts DEF Typed
<1> HIDE DEF b
<1>3. \A t \in Live(b) : At(b, t) \in NodeType
  BY <1>1, <1>2 DEF Typed
<1>4. Typed(b)
  BY <1>2, <1>3 DEF Typed
<1> QED
  BY <1>1, <1>2, <1>4 DEF b

LEMMA FreeNode ==
    ASSUME NEW a, Typed(a), NEW s \in Live(a)
    PROVE  LET b == Free(a, s)
           IN  /\ Typed(b) /\ Live(b) = Live(a) \ {s} /\ b.size = a.size
               /\ \A t \in Live(b) : At(b, t) = At(a, t)
<1> DEFINE b == Free(a, s)
<1>1. s \in Index(a) /\ Live(a) \subseteq Int
  BY LiveIsIndex DEF Typed
<1>2. /\ WellFormed(b) /\ b.size = a.size /\ Live(b) = Live(a) \ {s}
      /\ \A t \in Int : t # s => At(b, t) = At(a, t)
  BY <1>1, FreeFacts DEF Typed
<1> HIDE DEF b
<1>3. \A t \in Live(b) : At(b, t) = At(a, t)
  BY <1>1, <1>2
<1>4. Typed(b)
  BY <1>2, <1>3 DEF Typed
<1> QED
  BY <1>2, <1>3, <1>4 DEF b

\* How the tree b comes from the tree a: with another use count,
Recounts(a, b, s) ==
    /\ s \in Live(a) /\ Live(b) = Live(a)
    /\ \E n \in Nat : At(b, s) = [At(a, s) EXCEPT !.use_count = n]
    /\ \A t \in Live(a) : t # s => At(b, t) = At(a, t)
\* with a new inode,
Adds(a, b, dir, s, node) ==
    /\ dir \in Live(a) /\ s \notin Live(a) /\ Live(b) = Live(a) \cup {s}
    /\ At(b, s) = node
    /\ At(b, dir) = [At(a, dir) EXCEPT !.children = Append(@, s)]
    /\ \A t \in Live(a) : t # dir => At(b, t) = At(a, t)
\* without an entry,
Drops(a, b, dir, s) ==
    /\ dir \in Live(a) /\ Live(b) = Live(a)
    /\ At(b, dir) = [At(a, dir) EXCEPT !.children = Without(@, s)]
    /\ \A t \in Live(a) : t # dir => At(b, t) = At(a, t)
\* or without an inode.
Frees(a, b, s) ==
    /\ s \in Live(a) /\ Live(b) = Live(a) \ {s}
    /\ \A t \in Live(b) : At(b, t) = At(a, t)

LEMMA RecountNode ==
    ASSUME NEW a, Typed(a), NEW s \in Live(a), NEW n \in Nat
    PROVE  LET b == Update(a, s, [At(a, s) EXCEPT !.use_count = n])
           IN  /\ Typed(b) /\ Recounts(a, b, s) /\ b.size = a.size
               /\ At(b, s) = [At(a, s) EXCEPT !.use_count = n]
<1> DEFINE node == [At(a, s) EXCEPT !.use_count = n]
<1>1. node \in NodeType
  BY DEF Typed, NodeType
<1>2. PICK v : v = node
  OBVIOUS
<1>3. PICK b : b = Update(a, s, v)
  OBVIOUS
<1>4. /\ Typed(b) /\ Live(b) = Live(a) /\ b.size = a.size /\ At(b, s) = v
      /\ \A t \in Live(a) : t # s => At(b, t) = At(a, t)
  BY <1>1, <1>2, <1>3, UpdateNode
<1>5. Recounts(a, b, s)
  BY <1>2, <1>4, Zenon DEF Recounts
<1> QED
  BY <1>2, <1>3, <1>4, <1>5, Zenon

LEMMA NewChildFacts ==
    ASSUME NEW a, Typed(a), NEW dir \in Live(a), At(a, dir).is_dir,
           NEW path \in Seq(Names), path # <<>>, NEW is_dir \in BOOLEAN,
           NEW count \in Nat,
           NewChild(a, path, dir, is_dir, count).fs.size <= MaxNodes
    PROVE  LET r == NewChild(a, path, dir, is_dir, count)
           IN  /\ Typed(r.fs) /\ r.err = "OK" /\ r.slot \in 0 .. MaxNodes - 1
               /\ Adds(a, r.fs, dir, r.slot,
                       MemNode(path[Len(path)], is_dir, dir, count))
<1> DEFINE s == AllocSlot(a)
           node == MemNode(path[Len(path)], is_dir, dir, count)
           m == Alloc(a, node)
           old == At(a, dir)
           new == [old EXCEPT !.children = Append(@, s)]
           b == Update(m, dir, new)
<1>1. dir \in Index(a) /\ Live(a) \subseteq Int /\ a.size \in Nat /\ a.size <= MaxNodes
  BY LiveIsIndex DEF Typed, WellFormed
<1>2. dir \in 0 .. MaxNodes - 1
  BY <1>1, KernelProxyAssumption DEF Index
<1>3. node \in NodeType
  <2>1. path[Len(path)] \in Names
    <3>1. Len(path) \in 1 .. Len(path)
      OBVIOUS
    <3> QED
      BY <3>1, Elements
  <2>2. <<>> \in Seq(0 .. MaxNodes - 1) /\ dir \in -1 .. MaxNodes - 1
    BY <1>2
  <2> QED
    BY <2>1, <2>2 DEF MemNode, NodeType
<1>4. node # NULL /\ old \in NodeType
  BY <1>3, NodeNotNull DEF Typed
<1>5. /\ WellFormed(m) /\ s \in 0 .. a.size /\ s \notin Live(a)
      /\ Live(m) = Live(a) \cup {s} /\ At(m, s) = node
      /\ \A t \in Int : t # s => At(m, t) = At(a, t)
  BY <1>4, AllocFacts DEF Typed
<1> HIDE DEF node, m, s
<1>6. dir # s /\ At(m, dir) = old
  BY <1>1, <1>5
<1>7. NewChild(a, path, dir, is_dir, count) = Result(b, s, "OK")
  BY <1>6, Zenon DEF NewChild, AddChild, node, m, s
<1>8. b.size = m.size
  BY <1>5, UpdateSize
<1>9. m.size <= MaxNodes
  BY <1>7, <1>8 DEF Result
<1>10. s \in 0 .. MaxNodes - 1
  <2>1. s \in Index(m) /\ m.size \in Nat
    BY <1>5, LiveIsIndex DEF WellFormed
  <2> QED
    BY <1>9, <2>1, KernelProxyAssumption DEF Index
<1>11. Typed(m)
  <2>1. \A t \in Live(m) : At(m, t) \in NodeType
    BY <1>1, <1>3, <1>5 DEF Typed
  <2> QED
    BY <1>5, <1>9, <2>1 DEF Typed
<1>12. new \in NodeType
  <2>1. old.children \in Seq(0 .. MaxNodes - 1)
    BY <1>4 DEF NodeType
  <2>2. Append(old.children, s) \in Seq(0 .. MaxNodes - 1)
    BY <1>10, <2>1
  <2>3. PICK ch : ch = Append(old.children, s)
    OBVIOUS
  <2>4. [old EXCEPT !.children = ch] \in NodeType
    BY <1>4, <2>2, <2>3 DEF NodeType
  <2> QED
    BY <2>3, <2>4
<1>13. dir \in Live(m)
  BY <1>5
<1> HIDE DEF new, old
<1>14. /\ Typed(b) /\ Live(b) = Live(m) /\ At(b, dir) = new
       /\ \A t \in Live(m) : t # dir => At(b, t) = At(m, t)
  BY <1>11, <1>12, <1>13, UpdateNode
<1> HIDE DEF b
<1>15. Adds(a, b, dir, s, node)
  BY <1>1, <1>5, <1>6, <1>14 DEF Adds, new, old
<1> QED
  BY <1>7, <1>10, <1>14, <1>15 DEF Result, node

LEMMA RemoveChildFacts ==
    ASSUME NEW a, Typed(a), NEW dir \in Live(a), At(a, dir).is_dir, NEW s
    PROVE  LET b == RemoveChild(a, dir, s)
           IN  Typed(b) /\ b.size = a.size /\ Drops(a, b, dir, s)
<1> DEFINE old == At(a, dir)
           new == [old EXCEPT !.children = Without(@, s)]
<1>1. old \in NodeType /\ old.children \in Seq(0 .. MaxNodes - 1)
  BY DEF Typed, NodeType
<1>2. Without(old.children, s) \in Seq(0 .. MaxNodes - 1)
  BY <1>1, WithoutFacts
<1>3. new \in NodeType
  <2>1. PICK ch : ch = Without(old.children, s)
    OBVIOUS
  <2>2. [old EXCEPT !.children = ch] \in NodeType
    BY <1>1, <1>2, <2>1 DEF NodeType
  <2> QED
    BY <2>1, <2>2
<1>4. RemoveChild(a, dir, s) = Update(a, dir, new)
  BY Zenon DEF RemoveChild
<1>5. PICK v : v = new
  OBVIOUS
<1>6. PICK b : b = Update(a, dir, v)
  OBVIOUS
<1>7. /\ Typed(b) /\ Live(b) = Live(a) /\ b.size = a.size /\ At(b, dir) = v
      /\ \A t \in Live(a) : t # dir => At(b, t) = At(a, t)
  BY <1>3, <1>5, <1>6, UpdateNode
<1>8. Drops(a, b, dir, s)
  BY <1>5, <1>7 DEF Drops
<1> QED
  BY <1>4, <1>5, <1>6, <1>7, <1>8, Zenon

-------------------------------------------------------------------------------
(* What each of these does to a tree.                                      *)

\* Children of a node that differ by name differ.
LEMMA KidsDiffer ==
    ASSUME NEW a, NEW d, KidsOK(a, d)
    PROVE  \A i, j \in 1 .. Len(Kids(a, d)) : Kids(a, d)[i] = Kids(a, d)[j] => i = j
  BY DEF KidsOK

\* A linked inode is a child of its parent_ and of no other.
LEMMA LinkedByParent ==
    ASSUME NEW a, \A d \in Live(a) : KidsOK(a, d), NEW s, NEW d \in Live(a),
           IsKid(a, d, s)
    PROVE  s \in Live(a) \ {0} /\ At(a, s).parent = d /\ Linked(a, s)
  BY DEF KidsOK, IsKid, Linked

\* Recounting changes no entry.
LEMMA RecountsTree ==
    ASSUME NEW a, Typed(a), Tree(a), NEW b, NEW s, Recounts(a, b, s)
    PROVE  /\ Tree(b)
           /\ \A t : Linked(b, t) <=> Linked(a, t)
<1>1. PICK n \in Nat : At(b, s) = [At(a, s) EXCEPT !.use_count = n]
  BY DEF Recounts
<1>2. At(a, s) \in NodeType /\ s \in Live(a) /\ Live(b) = Live(a)
  BY DEF Typed, Recounts
<1>3. /\ At(b, s).children = At(a, s).children
      /\ At(b, s).name = At(a, s).name /\ At(b, s).parent = At(a, s).parent
      /\ At(b, s).is_dir = At(a, s).is_dir
  BY <1>1, <1>2 DEF NodeType
<1>4. \A t \in Live(a) :
          /\ At(b, t).children = At(a, t).children
          /\ At(b, t).name = At(a, t).name /\ At(b, t).parent = At(a, t).parent
          /\ At(b, t).is_dir = At(a, t).is_dir
  BY <1>3 DEF Recounts
<1>5. \A t : Linked(b, t) <=> Linked(a, t)
  BY <1>2, <1>4 DEF Linked, IsKid, Kids
<1>6. ASSUME NEW d \in Live(b) PROVE KidsOK(b, d)
  <2>1. KidsOK(a, d) /\ Kids(b, d) = Kids(a, d)
    BY <1>2, <1>4 DEF Tree, Kids
  <2>2. \A i \in 1 .. Len(Kids(b, d)) :
            /\ Kids(b, d)[i] \in Live(b) \ {0}
            /\ At(b, Kids(b, d)[i]).parent = At(a, Kids(b, d)[i]).parent
            /\ At(b, Kids(b, d)[i]).name = At(a, Kids(b, d)[i]).name
    BY <1>2, <1>4, <2>1 DEF KidsOK
  <2> QED
    BY <2>1, <2>2 DEF KidsOK
<1>7. \A t \in Live(b) : At(b, t).is_dir => t = 0 \/ Linked(b, t)
  BY <1>2, <1>4, <1>5 DEF Tree
<1>8. \A t \in Live(b) : ~ At(b, t).is_dir => Kids(b, t) = <<>>
  BY <1>2, <1>4 DEF Tree, Kids
<1>9. 0 \in Live(b) /\ At(b, 0).is_dir
  BY <1>2, <1>4 DEF Tree
<1> QED
  BY <1>5, <1>6, <1>7, <1>8, <1>9 DEF Tree

\* A new name in a directory makes a tree again.
LEMMA AddsTree ==
    ASSUME NEW a, Typed(a), Tree(a), NEW b, NEW dir, NEW s,
           NEW node \in NodeType, Adds(a, b, dir, s, node),
           At(a, dir).is_dir, node.children = <<>>, node.parent = dir,
           \A i \in 1 .. Len(Kids(a, dir)) : At(a, Kids(a, dir)[i]).name # node.name
    PROVE  /\ Tree(b)
           /\ Linked(b, s)
           /\ \A t \in Live(a) : Linked(b, t) <=> Linked(a, t)
<1>1. /\ dir \in Live(a) /\ s \notin Live(a) /\ dir # s
      /\ Live(b) = Live(a) \cup {s} /\ At(b, s) = node
      /\ \A t \in Live(a) : t # dir => At(b, t) = At(a, t)
  BY DEF Adds
<1>2. At(a, dir) \in NodeType /\ Kids(a, dir) \in Seq(0 .. MaxNodes - 1)
  BY <1>1 DEF Typed, NodeType, Kids
<1>3. /\ Kids(b, dir) = Append(Kids(a, dir), s)
      /\ At(b, dir).name = At(a, dir).name /\ At(b, dir).parent = At(a, dir).parent
      /\ At(b, dir).is_dir = At(a, dir).is_dir
  <2>1. PICK ch : ch = Append(At(a, dir).children, s)
    OBVIOUS
  <2>2. At(b, dir) = [At(a, dir) EXCEPT !.children = ch]
    BY <2>1 DEF Adds
  <2> QED
    BY <1>2, <2>1, <2>2 DEF NodeType, Kids
<1>4. \A t \in Live(a) :
          /\ At(b, t).name = At(a, t).name /\ At(b, t).parent = At(a, t).parent
          /\ At(b, t).is_dir = At(a, t).is_dir
          /\ t # dir => Kids(b, t) = Kids(a, t)
  BY <1>1, <1>3 DEF Kids
<1> DEFINE n == Len(Kids(a, dir))
<1>5. /\ n \in Nat /\ Len(Kids(b, dir)) = n + 1
      /\ \A i \in 1 .. n : Kids(b, dir)[i] = Kids(a, dir)[i]
      /\ Kids(b, dir)[n + 1] = s
      /\ 1 .. n + 1 = (1 .. n) \cup {n + 1}
  <2>1. PICK ch : ch = Kids(a, dir)
    OBVIOUS
  <2>2. /\ Len(ch) \in Nat /\ Len(Append(ch, s)) = Len(ch) + 1
        /\ \A i \in 1 .. Len(ch) : Append(ch, s)[i] = ch[i]
        /\ Append(ch, s)[Len(ch) + 1] = s
    BY <1>2, <2>1, AppendProperties
  <2>3. \A k \in Nat : 1 .. k + 1 = (1 .. k) \cup {k + 1}
    OBVIOUS
  <2> QED
    BY <1>3, <2>1, <2>2, <2>3, Zenon
<1>6. \A d \in Live(a) : KidsOK(a, d)
  BY DEF Tree
<1>7. Kids(b, s) = <<>>
  BY <1>1 DEF Kids
<1> HIDE DEF n
<1>8. KidsOK(b, dir)
  <2>1. ASSUME NEW i \in 1 .. n + 1
        PROVE  /\ Kids(b, dir)[i] \in Live(b) \ {0}
               /\ At(b, Kids(b, dir)[i]).parent = dir
    <3>1. CASE i \in 1 .. n
      BY <1>1, <1>4, <1>5, <1>6, <3>1 DEF KidsOK, n
    <3>2. CASE i = n + 1
      BY <1>1, <1>5, <3>2 DEF Tree
    <3> QED
      BY <1>5, <3>1, <3>2
  <2>2. ASSUME NEW i \in 1 .. n + 1, NEW j \in 1 .. n + 1,
               At(b, Kids(b, dir)[i]).name = At(b, Kids(b, dir)[j]).name
        PROVE  i = j
    <3>1. \A k \in 1 .. n : /\ Kids(a, dir)[k] \in Live(a)
                            /\ At(b, Kids(b, dir)[k]).name = At(a, Kids(a, dir)[k]).name
      BY <1>1, <1>4, <1>5, <1>6 DEF KidsOK, n
    <3>2. At(b, Kids(b, dir)[n + 1]).name = node.name
      BY <1>1, <1>5
    <3>3. \A k \in 1 .. n : At(b, Kids(b, dir)[k]).name # node.name
      BY <3>1 DEF n
    <3>4. CASE i \in 1 .. n /\ j \in 1 .. n
      BY <1>1, <1>6, <2>2, <3>1, <3>4 DEF KidsOK, n
    <3> QED
      BY <1>5, <2>2, <3>2, <3>3, <3>4
  <2> QED
    BY <1>5, <2>1, <2>2 DEF KidsOK
<1>9. ASSUME NEW d \in Live(b), d # dir PROVE KidsOK(b, d)
  <2>1. CASE d = s
    BY <1>7, <2>1 DEF KidsOK
  <2>2. CASE d \in Live(a)
    <3>1. Kids(b, d) = Kids(a, d) /\ KidsOK(a, d)
      BY <1>4, <1>6, <1>9, <2>2
    <3>2. \A i \in 1 .. Len(Kids(b, d)) :
              /\ Kids(b, d)[i] \in Live(b) \ {0}
              /\ At(b, Kids(b, d)[i]).parent = At(a, Kids(b, d)[i]).parent
              /\ At(b, Kids(b, d)[i]).name = At(a, Kids(b, d)[i]).name
      BY <1>1, <1>4, <3>1 DEF KidsOK
    <3> QED
      BY <3>1, <3>2 DEF KidsOK
  <2> QED
    BY <1>1, <2>1, <2>2
<1>10. IsKid(b, dir, s)
  BY <1>5 DEF IsKid
<1>11. ASSUME NEW t \in Live(a), NEW d \in Live(b)
       PROVE  IsKid(b, d, t) <=> d \in Live(a) /\ IsKid(a, d, t)
  <2>1. CASE d = dir
    BY <1>1, <1>5, <2>1 DEF IsKid, n
  <2>2. CASE d = s
    BY <1>1, <1>7, <2>2 DEF IsKid
  <2>3. CASE d \in Live(a) /\ d # dir
    BY <1>4, <2>3 DEF IsKid
  <2> QED
    BY <1>1, <2>1, <2>2, <2>3
<1>12. Linked(b, s)
  BY <1>1, <1>10 DEF Linked
<1>13. \A t \in Live(a) : Linked(b, t) <=> Linked(a, t)
  BY <1>1, <1>11 DEF Linked
<1>14. \A t \in Live(b) : At(b, t).is_dir => t = 0 \/ Linked(b, t)
  BY <1>1, <1>4, <1>12, <1>13 DEF Tree
<1>15. \A t \in Live(b) : ~ At(b, t).is_dir => Kids(b, t) = <<>>
  BY <1>1, <1>4, <1>7 DEF Tree
<1>16. 0 \in Live(b) /\ At(b, 0).is_dir
  BY <1>1, <1>4 DEF Tree
<1> QED
  BY <1>8, <1>9, <1>12, <1>13, <1>14, <1>15, <1>16 DEF Tree

\* A tree, but for x, which may be a directory without an entry.
Forest(a, x) ==
    /\ 0 \in Live(a) /\ At(a, 0).is_dir
    /\ \A d \in Live(a) : KidsOK(a, d)
    /\ \A s \in Live(a) : At(a, s).is_dir => s \in {0, x} \/ Linked(a, s)
    /\ \A s \in Live(a) : ~ At(a, s).is_dir => Kids(a, s) = <<>>

\* Taking an entry away unlinks its inode and no other.
LEMMA DropsForest ==
    ASSUME NEW a, Typed(a), Tree(a), NEW b, NEW dir, NEW s, Drops(a, b, dir, s),
           IsKid(a, dir, s), At(a, dir).is_dir
    PROVE  /\ Forest(b, s)
           /\ ~ Linked(b, s)
           /\ \A t \in Live(a) \ {s} : Linked(b, t) <=> Linked(a, t)
           /\ \A t \in Live(a) : /\ At(b, t).is_dir = At(a, t).is_dir
                                 /\ At(b, t).use_count = At(a, t).use_count
           /\ \A t \in Live(a) \ {dir} : At(b, t) = At(a, t)
<1>1. /\ dir \in Live(a) /\ Live(b) = Live(a)
      /\ \A t \in Live(a) : t # dir => At(b, t) = At(a, t)
  BY DEF Drops
<1>2. At(a, dir) \in NodeType /\ Kids(a, dir) \in Seq(0 .. MaxNodes - 1)
  BY <1>1 DEF Typed, NodeType, Kids
<1>3. /\ Kids(b, dir) = Without(Kids(a, dir), s)
      /\ At(b, dir).name = At(a, dir).name /\ At(b, dir).parent = At(a, dir).parent
      /\ At(b, dir).is_dir = At(a, dir).is_dir
      /\ At(b, dir).use_count = At(a, dir).use_count
  <2>1. PICK ch : ch = Without(At(a, dir).children, s)
    OBVIOUS
  <2>2. At(b, dir) = [At(a, dir) EXCEPT !.children = ch]
    BY <2>1 DEF Drops
  <2> QED
    BY <1>2, <2>1, <2>2 DEF NodeType, Kids
<1>4. \A t \in Live(a) :
          /\ At(b, t).name = At(a, t).name /\ At(b, t).parent = At(a, t).parent
          /\ At(b, t).is_dir = At(a, t).is_dir
          /\ At(b, t).use_count = At(a, t).use_count
          /\ t # dir => Kids(b, t) = Kids(a, t)
  BY <1>1, <1>3 DEF Kids
<1>5. \A d \in Live(a) : KidsOK(a, d)
  BY DEF Tree
<1>6. LET old == Kids(a, dir)
          new == Kids(b, dir)
      IN  /\ \A i \in 1 .. Len(new) :
                 new[i] # s /\ \E k \in 1 .. Len(old) : old[k] = new[i]
          /\ \A k \in 1 .. Len(old) :
                 old[k] # s => \E i \in 1 .. Len(new) : new[i] = old[k]
          /\ \A i, j \in 1 .. Len(new) : new[i] = new[j] => i = j
  <2>1. \A i, j \in 1 .. Len(Kids(a, dir)) : Kids(a, dir)[i] = Kids(a, dir)[j] => i = j
    BY <1>1, <1>5, KidsDiffer
  <2>2. PICK S : Kids(a, dir) \in Seq(S)
    BY <1>2 DEF NodeType, Kids
  <2>3. Thinned(Kids(a, dir), Kids(b, dir), s)
    BY <1>3, <2>2, WithoutThins
  <2> QED
    BY <2>1, <2>3 DEF Thinned
<1>7. KidsOK(b, dir)
  <2>1. ASSUME NEW i \in 1 .. Len(Kids(b, dir))
        PROVE  /\ Kids(b, dir)[i] \in Live(b) \ {0}
               /\ At(b, Kids(b, dir)[i]).parent = dir
    <3>1. PICK k \in 1 .. Len(Kids(a, dir)) : Kids(a, dir)[k] = Kids(b, dir)[i]
      BY <1>6
    <3> QED
      BY <1>1, <1>4, <1>5, <3>1 DEF KidsOK
  <2>2. ASSUME NEW i \in 1 .. Len(Kids(b, dir)), NEW j \in 1 .. Len(Kids(b, dir)),
               At(b, Kids(b, dir)[i]).name = At(b, Kids(b, dir)[j]).name
        PROVE  i = j
    <3>1. PICK k \in 1 .. Len(Kids(a, dir)) : Kids(a, dir)[k] = Kids(b, dir)[i]
      BY <1>6
    <3>2. PICK l \in 1 .. Len(Kids(a, dir)) : Kids(a, dir)[l] = Kids(b, dir)[j]
      BY <1>6
    <3>3. At(a, Kids(a, dir)[k]).name = At(a, Kids(a, dir)[l]).name
      BY <1>1, <1>4, <2>1, <2>2, <3>1, <3>2
    <3>4. k = l
      BY <1>1, <1>5, <3>3 DEF KidsOK
    <3> QED
      BY <1>6, <3>1, <3>2, <3>4
  <2> QED
    BY <2>1, <2>2 DEF KidsOK
<1>8. ASSUME NEW d \in Live(b), d # dir PROVE KidsOK(b, d)
  <2>1. Kids(b, d) = Kids(a, d) /\ KidsOK(a, d)
    BY <1>1, <1>4, <1>5, <1>8
  <2>2. \A i \in 1 .. Len(Kids(b, d)) :
            /\ Kids(b, d)[i] \in Live(b) \ {0}
            /\ At(b, Kids(b, d)[i]).parent = At(a, Kids(b, d)[i]).parent
            /\ At(b, Kids(b, d)[i]).name = At(a, Kids(b, d)[i]).name
    BY <1>1, <1>4, <2>1 DEF KidsOK
  <2> QED
    BY <2>1, <2>2 DEF KidsOK
<1>9. ~ Linked(b, s)
  <2> SUFFICES ASSUME NEW d \in Live(b), IsKid(b, d, s) PROVE FALSE
    BY DEF Linked
  <2>1. CASE d = dir
    BY <1>6, <2>1 DEF IsKid
  <2>2. CASE d # dir
    <3>1. IsKid(a, d, s)
      BY <1>1, <1>4, <2>2 DEF IsKid
    <3> QED
      BY <1>1, <1>5, <2>2, <3>1, LinkedByParent
  <2> QED
    BY <2>1, <2>2
<1>10. ASSUME NEW t \in Live(a) \ {s}, NEW d \in Live(a)
       PROVE  IsKid(b, d, t) <=> IsKid(a, d, t)
  <2>1. CASE d = dir
    BY <1>6, <2>1 DEF IsKid
  <2>2. CASE d # dir
    BY <1>4, <2>2 DEF IsKid
  <2> QED
    BY <2>1, <2>2
<1>11. \A t \in Live(a) \ {s} : Linked(b, t) <=> Linked(a, t)
  BY <1>1, <1>10 DEF Linked
<1>12. Forest(b, s)
  <2>1. \A t \in Live(b) : At(b, t).is_dir => t \in {0, s} \/ Linked(b, t)
    BY <1>1, <1>4, <1>11 DEF Tree
  <2>2. \A t \in Live(b) : ~ At(b, t).is_dir => Kids(b, t) = <<>>
    BY <1>1, <1>4 DEF Tree
  <2>3. 0 \in Live(b) /\ At(b, 0).is_dir
    BY <1>1, <1>4 DEF Tree
  <2> QED
    BY <1>7, <1>8, <2>1, <2>2, <2>3 DEF Forest
<1> QED
  BY <1>1, <1>4, <1>9, <1>11, <1>12

\* An inode without entry and children can go.
LEMMA FreesTree ==
    ASSUME NEW a, NEW b, NEW s, Forest(a, s), Frees(a, b, s), s # 0,
           ~ Linked(a, s), Kids(a, s) = <<>>
    PROVE  /\ Tree(b)
           /\ \A t \in Live(b) : Linked(b, t) <=> Linked(a, t)
<1>1. /\ s \in Live(a) /\ Live(b) = Live(a) \ {s}
      /\ \A t \in Live(b) : At(b, t) = At(a, t) /\ Kids(b, t) = Kids(a, t)
  BY DEF Frees, Kids
<1>2. ASSUME NEW d \in Live(b) PROVE KidsOK(b, d)
  <2>1. KidsOK(a, d) /\ Kids(b, d) = Kids(a, d) /\ d \in Live(a)
    BY <1>1 DEF Forest
  <2>2. \A i \in 1 .. Len(Kids(a, d)) : Kids(a, d)[i] # s
    BY <2>1 DEF Linked, IsKid
  <2>3. \A i \in 1 .. Len(Kids(b, d)) :
            /\ Kids(b, d)[i] \in Live(b) \ {0}
            /\ At(b, Kids(b, d)[i]) = At(a, Kids(b, d)[i])
    BY <1>1, <2>1, <2>2 DEF KidsOK
  <2> QED
    BY <2>1, <2>3 DEF KidsOK
<1>3. \A t \in Live(b) : Linked(b, t) <=> Linked(a, t)
  BY <1>1 DEF Linked, IsKid
<1>4. \A t \in Live(b) : At(b, t).is_dir => t = 0 \/ Linked(b, t)
  BY <1>1, <1>3 DEF Forest
<1>5. \A t \in Live(b) : ~ At(b, t).is_dir => Kids(b, t) = <<>>
  BY <1>1 DEF Forest
<1>6. 0 \in Live(b) /\ At(b, 0).is_dir
  BY <1>1 DEF Forest
<1> QED
  BY <1>2, <1>3, <1>4, <1>5, <1>6 DEF Tree

-------------------------------------------------------------------------------
(* The calls of the mount, in any tree.                                    *)

LEMMA PathType ==
    ASSUME NEW path \in Paths
    PROVE  path \in Seq(Names)
<1>1. PICK n \in 0 .. MaxDepth : path \in [1 .. n -> Names]
  BY DEF Paths
<1>2. n \in Nat
  BY KernelProxyAssumption
<1> QED
  BY <1>1, <1>2

\* At() of what GetSlot() returns is an inode or NULL.
LEMMA SlotLive ==
    ASSUME NEW a, Typed(a), NEW s \in -2 .. MaxNodes - 1, At(a, s) # NULL
    PROVE  s \in Live(a) /\ s \in 0 .. MaxNodes - 1 /\ At(a, s) \in NodeType
<1>1. s \in Int
  BY KernelProxyAssumption
<1>2. s \in Live(a)
  BY <1>1, LiveIsAt DEF Typed
<1>3. s \in Nat
  BY <1>2, LiveIsIndex DEF Typed
<1> QED
  BY <1>2, <1>3, KernelProxyAssumption DEF Typed

LEMMA GetNodeFacts ==
    ASSUME NEW a, Typed(a), NEW path \in Seq(Names)
    PROVE  LET r == GetNode(a, path)
           IN  /\ r.fs = a /\ r.slot = GetSlot(a, path)
               /\ r.err \in {"OK", "ENOENT", "CRASH"}
               /\ r.err = "OK" => r.slot \in Live(a) /\ r.slot \in 0 .. MaxNodes - 1
               /\ r.err = "CRASH" => GetSlot(a, path) = CRASHED
<1>1. GetSlot(a, path) \in -2 .. MaxNodes - 1
  BY GetSlotType
<1>2. CASE GetSlot(a, path) = CRASHED
  BY <1>2 DEF GetNode, Result
<1>3. CASE GetSlot(a, path) # CRASHED /\ At(a, GetSlot(a, path)) = NULL
  BY <1>3 DEF GetNode, Result
<1>4. CASE GetSlot(a, path) # CRASHED /\ At(a, GetSlot(a, path)) # NULL
  BY <1>1, <1>4, SlotLive DEF GetNode, Result
<1> QED
  BY <1>2, <1>3, <1>4

\* Creat() and Mkdir() make a child of the parent of a path that names nothing,
\* or change nothing.
MakesChild(a, path, is_dir, count, r) ==
    LET dir == GetParentSlot(a, path)
    IN  /\ path # <<>> /\ r = NewChild(a, path, dir, is_dir, count)
        /\ GetSlot(a, path) # CRASHED /\ At(a, GetSlot(a, path)) = NULL
        /\ dir \in Live(a) /\ At(a, dir).is_dir

LEMMA CreatFacts ==
    ASSUME NEW a, Typed(a), NEW path \in Seq(Names), path # <<>>
    PROVE  LET r == Creat(a, path)
           IN  \/ MakesChild(a, path, FALSE, 1, r)
               \/ /\ r.fs = a /\ r.slot = NOT_FOUND /\ r.err # "OK"
                  /\ r.err = "CRASH" => \/ GetSlot(a, path) = CRASHED
                                        \/ GetParentSlot(a, path) = CRASHED
<1> DEFINE dir == GetParentSlot(a, path)
           child == GetSlot(a, path)
<1>1. dir \in -2 .. MaxNodes - 1
  BY ParentPathType, GetSlotType DEF GetParentSlot
<1>2. At(a, dir) # NULL => dir \in Live(a)
  BY <1>1, SlotLive
<1> HIDE DEF dir, child
<1>3. Creat(a, path) =
        IF dir = CRASHED                 THEN Result(a, NOT_FOUND, "CRASH")
        ELSE IF dir = NOT_FOUND          THEN Result(a, NOT_FOUND, "ENOTDIR")
        ELSE IF At(a, dir) = NULL        THEN Result(a, NOT_FOUND, "EINVAL")
        ELSE IF ~ At(a, dir).is_dir      THEN Result(a, NOT_FOUND, "ENOTDIR")
        ELSE IF child = CRASHED          THEN Result(a, NOT_FOUND, "CRASH")
        ELSE IF At(a, child) # NULL      THEN Result(a, NOT_FOUND, "EEXIST")
        ELSE NewChild(a, path, dir, FALSE, 1)
  BY Zenon DEF Creat, dir, child
<1>4. CASE /\ dir # CRASHED /\ dir # NOT_FOUND /\ At(a, dir) # NULL
           /\ At(a, dir).is_dir /\ child # CRASHED /\ At(a, child) = NULL
  <2>1. Creat(a, path) = NewChild(a, path, dir, FALSE, 1)
    BY <1>3, <1>4
  <2> QED
    BY <1>2, <1>4, <2>1 DEF MakesChild, dir, child
<1>5. CASE ~ (/\ dir # CRASHED /\ dir # NOT_FOUND /\ At(a, dir) # NULL
              /\ At(a, dir).is_dir /\ child # CRASHED /\ At(a, child) = NULL)
  <2>1. PICK e \in {"CRASH", "ENOTDIR", "EINVAL", "EEXIST"} :
            /\ Creat(a, path) = Result(a, NOT_FOUND, e)
            /\ e = "CRASH" => dir = CRASHED \/ child = CRASHED
    BY <1>3, <1>5
  <2>2. /\ Creat(a, path).fs = a /\ Creat(a, path).slot = NOT_FOUND
        /\ Creat(a, path).err = e /\ e # "OK"
    BY <2>1 DEF Result
  <2> QED
    BY <2>1, <2>2 DEF dir, child
<1> QED
  BY <1>4, <1>5

LEMMA MkdirFacts ==
    ASSUME NEW a, Typed(a), NEW path \in Seq(Names)
    PROVE  LET r == Mkdir(a, path)
               p == GetParentSlot(a, path)
           IN  \/ MakesChild(a, path, TRUE, 0, r)
               \/ /\ r.fs = a /\ r.slot = NOT_FOUND /\ r.err # "OK"
                  /\ r.err = "CRASH" => \/ GetSlot(a, path) = CRASHED \/ p = CRASHED
                                        \/ p # NOT_FOUND /\ At(a, p) = NULL
<1> DEFINE dir == GetParentSlot(a, path)
           child == GetSlot(a, path)
<1>1. dir \in -2 .. MaxNodes - 1
  BY ParentPathType, GetSlotType DEF GetParentSlot
<1>2. At(a, dir) # NULL => dir \in Live(a)
  BY <1>1, SlotLive
<1>3. path = <<>> => dir = child
  BY DEF GetParentSlot, ParentPath
<1> HIDE DEF dir, child
<1>4. Mkdir(a, path) =
        IF child = CRASHED               THEN Result(a, NOT_FOUND, "CRASH")
        ELSE IF At(a, child) # NULL      THEN Result(a, NOT_FOUND, "EEXIST")
        ELSE IF dir = NOT_FOUND          THEN Result(a, NOT_FOUND, "ENOENT")
        ELSE IF dir = CRASHED            THEN Result(a, NOT_FOUND, "CRASH")
        ELSE IF At(a, dir) = NULL        THEN Result(a, NOT_FOUND, "CRASH")
        ELSE IF ~ At(a, dir).is_dir      THEN Result(a, NOT_FOUND, "ENOTDIR")
        ELSE NewChild(a, path, dir, TRUE, 0)
  BY Zenon DEF Mkdir, dir, child
<1>5. CASE /\ dir # CRASHED /\ dir # NOT_FOUND /\ At(a, dir) # NULL
           /\ At(a, dir).is_dir /\ child # CRASHED /\ At(a, child) = NULL
  <2>1. Mkdir(a, path) = NewChild(a, path, dir, TRUE, 0)
    BY <1>4, <1>5
  <2> QED
    BY <1>2, <1>3, <1>5, <2>1 DEF MakesChild, dir, child
<1>6. CASE ~ (/\ dir # CRASHED /\ dir # NOT_FOUND /\ At(a, dir) # NULL
              /\ At(a, dir).is_dir /\ child # CRASHED /\ At(a, child) = NULL)
  <2>1. PICK e \in {"CRASH", "ENOTDIR", "ENOENT", "EEXIST"} :
            /\ Mkdir(a, path) = Result(a, NOT_FOUND, e)
            /\ e = "CRASH" => \/ dir = CRASHED \/ child = CRASHED
                              \/ dir # NOT_FOUND /\ At(a, dir) = NULL
    BY <1>4, <1>6
  <2>2. /\ Mkdir(a, path).fs = a /\ Mkdir(a, path).slot = NOT_FOUND
        /\ Mkdir(a, path).err = e /\ e # "OK"
    BY <2>1 DEF Result
  <2> QED
    BY <2>1, <2>2 DEF dir, child
<1> QED
  BY <1>5, <1>6

\* Ref() counts up, but a directory only to the bound.
LEMMA RefFacts ==
    ASSUME NEW a, Typed(a), NEW s \in Live(a)
    PROVE  LET b == Ref(a, s)
           IN  /\ Typed(b) /\ b.size = a.size
               /\ \/ b = a /\ At(a, s).is_dir
                  \/ /\ Recounts(a, b, s)
                     /\ At(b, s).use_count = At(a, s).use_count + 1
<1> DEFINE old == At(a, s)
           b == Ref(a, s)
<1>1. old \in NodeType /\ old # NULL /\ old.use_count + 1 \in Nat
  BY NodeNotNull DEF Typed, NodeType
<1>2. CASE old.is_dir /\ old.use_count = MaxDirUse
  <2>1. b = a
    BY <1>1, <1>2 DEF Ref
  <2> QED
    BY <1>2, <2>1
<1>3. CASE ~ (old.is_dir /\ old.use_count = MaxDirUse)
  <2>1. b = Update(a, s, [old EXCEPT !.use_count = old.use_count + 1])
    BY <1>1, <1>3 DEF Ref
  <2>2. PICK n : n = old.use_count + 1
    OBVIOUS
  <2>3. PICK c : c = Update(a, s, [old EXCEPT !.use_count = n])
    OBVIOUS
  <2>4. /\ Typed(c) /\ Recounts(a, c, s) /\ c.size = a.size
        /\ At(c, s) = [old EXCEPT !.use_count = n]
    BY <1>1, <2>2, <2>3, RecountNode
  <2>5. At(c, s).use_count = n
    BY <1>1, <2>4 DEF NodeType
  <2>6. b = c
    BY <2>1, <2>2, <2>3, Zenon
  <2> QED
    BY <2>2, <2>4, <2>5, <2>6
<1> QED
  BY <1>2, <1>3

\* Unref() leaves directories alone, counts a file down, and frees it when
\* nothing is left.
LEMMA UnrefFacts ==
    ASSUME NEW a, Typed(a), NEW s \in Live(a)
    PROVE  LET b == Unref(a, s)
           IN  /\ Typed(b) /\ b.size = a.size
               /\ \/ b = a /\ At(a, s).is_dir
                  \/ /\ ~ At(a, s).is_dir /\ At(a, s).use_count > 1
                     /\ Recounts(a, b, s)
                     /\ At(b, s).use_count = At(a, s).use_count - 1
                  \/ /\ ~ At(a, s).is_dir /\ At(a, s).use_count <= 1
                     /\ Frees(a, b, s)
<1> DEFINE old == At(a, s)
           b == Unref(a, s)
<1>1. old \in NodeType /\ old # NULL /\ old.use_count \in Nat
  BY NodeNotNull DEF Typed, NodeType
<1>2. CASE old.is_dir
  <2>1. b = a
    BY <1>1, <1>2 DEF Unref
  <2> QED
    BY <1>2, <2>1
<1>3. CASE ~ old.is_dir /\ old.use_count - 1 > 0
  <2>1. b = Update(a, s, [old EXCEPT !.use_count = old.use_count - 1])
    BY <1>1, <1>3 DEF Unref
  <2>2. PICK n : n = old.use_count - 1
    OBVIOUS
  <2>3. n \in Nat /\ old.use_count > 1
    BY <1>1, <1>3, <2>2
  <2>4. PICK c : c = Update(a, s, [old EXCEPT !.use_count = n])
    OBVIOUS
  <2>5. /\ Typed(c) /\ Recounts(a, c, s) /\ c.size = a.size
        /\ At(c, s) = [old EXCEPT !.use_count = n]
    BY <2>3, <2>4, RecountNode
  <2>6. At(c, s).use_count = n
    BY <1>1, <2>5 DEF NodeType
  <2>7. b = c
    BY <2>1, <2>2, <2>4, Zenon
  <2> QED
    BY <1>3, <2>2, <2>3, <2>5, <2>6, <2>7
<1>4. CASE ~ old.is_dir /\ ~ (old.use_count - 1 > 0)
  <2>1. b = Free(a, s)
    BY <1>1, <1>4 DEF Unref
  <2>2. Typed(b) /\ b.size = a.size /\ Frees(a, b, s)
    BY <2>1, FreeNode DEF Frees
  <2>3. old.use_count <= 1
    BY <1>1, <1>4
  <2> QED
    BY <1>4, <2>2, <2>3
<1> QED
  BY <1>2, <1>3, <1>4

\* RemoveChild() of a live node makes a typed tree, a directory or not.
LEMMA RemoveChildType ==
    ASSUME NEW a, Typed(a), NEW dir \in Live(a), NEW s
    PROVE  LET b == RemoveChild(a, dir, s)
           IN  /\ Typed(b) /\ b.size = a.size /\ Live(b) = Live(a)
               /\ \A t \in Live(a) : At(b, t).is_dir = At(a, t).is_dir
<1>1. CASE At(a, dir).is_dir
  <2>1. PICK b : b = RemoveChild(a, dir, s)
    OBVIOUS
  <2>2. Typed(b) /\ b.size = a.size /\ Drops(a, b, dir, s)
    BY <1>1, <2>1, RemoveChildFacts
  <2>3. At(a, dir) \in NodeType
    BY DEF Typed
  <2>4. PICK ch : ch = Without(At(a, dir).children, s)
    OBVIOUS
  <2>5. At(b, dir) = [At(a, dir) EXCEPT !.children = ch]
    BY <2>2, <2>4 DEF Drops
  <2>6. At(b, dir).is_dir = At(a, dir).is_dir
    BY <2>3, <2>5 DEF NodeType
  <2> QED
    BY <2>1, <2>2, <2>6 DEF Drops
<1>2. CASE ~ At(a, dir).is_dir
  <2>1. RemoveChild(a, dir, s) = a
    BY <1>2 DEF RemoveChild
  <2> QED
    BY <2>1
<1> QED
  BY <1>1, <1>2

LEMMA UnlinkFacts ==
    ASSUME NEW a, Typed(a), NEW path \in Seq(Names)
    PROVE  LET r == Unlink(a, path)
               s == GetSlot(a, path)
               dir == GetParentSlot(a, path)
           IN  \/ /\ r.fs = a /\ r.err # "OK"
                  /\ r.err = "CRASH" => s = CRASHED \/ dir = CRASHED
               \/ /\ r.err = "OK" /\ Typed(r.fs) /\ r.fs.size = a.size
                  /\ s \in Live(a) /\ dir \in Live(a) /\ ~ At(a, s).is_dir
                  /\ r.fs = Unref(RemoveChild(a, dir, s), s)
<1> DEFINE s == GetSlot(a, path)
           dir == GetParentSlot(a, path)
           r == Unlink(a, path)
<1>1. s \in -2 .. MaxNodes - 1 /\ dir \in -2 .. MaxNodes - 1
  BY ParentPathType, GetSlotType DEF GetParentSlot
<1> HIDE DEF s, dir
<1>2. r = IF s = CRASHED               THEN Result(a, s, "CRASH")
          ELSE IF At(a, s) = NULL      THEN Result(a, s, "ENOENT")
          ELSE IF dir = CRASHED        THEN Result(a, s, "CRASH")
          ELSE IF At(a, dir) = NULL    THEN Result(a, s, "EBUSY")
          ELSE IF At(a, s).is_dir      THEN Result(a, s, "EISDIR")
          ELSE Result(Unref(RemoveChild(a, dir, s), s), s, "OK")
  BY Zenon DEF Unlink, s, dir
<1> HIDE DEF r
<1>3. CASE /\ s # CRASHED /\ At(a, s) # NULL /\ dir # CRASHED /\ At(a, dir) # NULL
           /\ ~ At(a, s).is_dir
  <2>1. r = Result(Unref(RemoveChild(a, dir, s), s), s, "OK")
    BY <1>2, <1>3
  <2>2. r.fs = Unref(RemoveChild(a, dir, s), s) /\ r.err = "OK"
    BY <2>1 DEF Result
  <2>3. s \in Live(a) /\ dir \in Live(a)
    BY <1>1, <1>3, SlotLive
  <2>4. PICK m : m = RemoveChild(a, dir, s)
    OBVIOUS
  <2>5. Typed(m) /\ m.size = a.size /\ Live(m) = Live(a)
    BY <2>3, <2>4, RemoveChildType
  <2>6. Typed(r.fs) /\ r.fs.size = a.size
    BY <2>2, <2>3, <2>4, <2>5, UnrefFacts
  <2> QED
    BY <1>3, <2>2, <2>3, <2>6 DEF r, s, dir
<1>4. CASE ~ (/\ s # CRASHED /\ At(a, s) # NULL /\ dir # CRASHED /\ At(a, dir) # NULL
              /\ ~ At(a, s).is_dir)
  <2>1. PICK e \in {"CRASH", "ENOENT", "EBUSY", "EISDIR"} :
            /\ r = Result(a, s, e)
            /\ e = "CRASH" => s = CRASHED \/ dir = CRASHED
    BY <1>2, <1>4
  <2>2. r.fs = a /\ r.err = e /\ e # "OK"
    BY <2>1 DEF Result
  <2> QED
    BY <2>1, <2>2 DEF r, s, dir
<1> QED
  BY <1>3, <1>4

LEMMA RmdirFacts ==
    ASSUME NEW a, Typed(a), NEW s \in Live(a)
    PROVE  LET r == Rmdir(a, s)
               dir == At(a, s).parent
           IN  \/ /\ r.fs = a /\ r.err # "OK"
                  /\ r.err = "CRASH" => At(a, s).is_dir /\ s # 0 /\ At(a, dir) = NULL
               \/ /\ r.err = "OK" /\ Typed(r.fs) /\ r.fs.size = a.size
                  /\ Live(r.fs) = Live(a) \ {s}
                  /\ At(a, s).is_dir /\ Kids(a, s) = <<>>
                  /\ s # 0 => /\ dir \in Live(a)
                              /\ r.fs = Free(RemoveChild(a, dir, s), s)
<1> DEFINE node == At(a, s)
           dir == node.parent
           r == Rmdir(a, s)
<1>1. node \in NodeType /\ node # NULL /\ dir \in -1 .. MaxNodes - 1
  BY NodeNotNull DEF Typed, NodeType
<1> HIDE DEF node, dir
<1>2. r = IF ~ node.is_dir               THEN Result(a, s, "ENOTDIR")
          ELSE IF node.children # <<>>   THEN Result(a, s, "ENOTEMPTY")
          ELSE IF s = 0                  THEN Result(Free(a, s), s, "OK")
          ELSE IF At(a, dir) = NULL      THEN Result(a, s, "CRASH")
          ELSE Result(Free(RemoveChild(a, dir, s), s), s, "OK")
  BY <1>1, Zenon DEF Rmdir, node, dir
<1> HIDE DEF r
<1>3. CASE ~ node.is_dir \/ node.children # <<>> \/ (s # 0 /\ At(a, dir) = NULL)
  <2>1. PICK e \in {"CRASH", "ENOTDIR", "ENOTEMPTY"} :
            /\ r = Result(a, s, e)
            /\ e = "CRASH" => node.is_dir /\ s # 0 /\ At(a, dir) = NULL
    BY <1>2, <1>3
  <2>2. r.fs = a /\ r.err = e /\ e # "OK"
    BY <2>1 DEF Result
  <2> QED
    BY <2>1, <2>2 DEF r, dir, node
<1>4. CASE node.is_dir /\ node.children = <<>> /\ s = 0
  <2>1. r.fs = Free(a, s) /\ r.err = "OK"
    BY <1>2, <1>4 DEF Result
  <2>2. Typed(r.fs) /\ Live(r.fs) = Live(a) \ {s} /\ r.fs.size = a.size
    BY <2>1, FreeNode
  <2> QED
    BY <1>4, <2>1, <2>2 DEF r, node, Kids
<1>5. CASE node.is_dir /\ node.children = <<>> /\ s # 0 /\ At(a, dir) # NULL
  <2>1. r.fs = Free(RemoveChild(a, dir, s), s) /\ r.err = "OK"
    BY <1>2, <1>5 DEF Result
  <2>2. dir \in Live(a)
    <3>1. dir \in -2 .. MaxNodes - 1
      BY <1>1
    <3> QED
      BY <1>5, <3>1, SlotLive
  <2>3. PICK m : m = RemoveChild(a, dir, s)
    OBVIOUS
  <2>4. Typed(m) /\ m.size = a.size /\ Live(m) = Live(a)
    BY <2>2, <2>3, RemoveChildType
  <2>5. Typed(r.fs) /\ Live(r.fs) = Live(a) \ {s} /\ r.fs.size = a.size
    BY <2>1, <2>3, <2>4, FreeNode
  <2> QED
    BY <1>5, <2>1, <2>2, <2>5 DEF r, dir, node, Kids
<1> QED
  BY <1>3, <1>4, <1>5

LEMMA GetdentsFacts ==
    ASSUME NEW a, NEW s, NEW room
    PROVE  LET r == Getdents(a, s, room)
           IN  /\ r.fs = a
               /\ r.err = "CRASH" =>
                      /\ At(a, s) # NULL
                      /\ \E i \in 1 .. Len(Kids(a, s)) : At(a, Kids(a, s)[i]) = NULL
  BY DEF Getdents, Result, Kids

-------------------------------------------------------------------------------
(* fds_ and open_files_.                                                   *)

HandleType == [node : 0 .. MaxNodes - 1, use_count : {1}]

\* The two tables are filled and emptied together, so that a descriptor and
\* its handle always have the same number.
FdsOK(f, o) ==
    /\ WellFormed(f) /\ WellFormed(o)
    /\ f.size = o.size /\ Live(f) = Live(o)
    /\ \A d \in Live(f) : At(f, d) = [handle |-> d]
    /\ \A h \in Live(o) : At(o, h) \in HandleType

LEMMA HandleNotNull ==
    /\ \A h \in HandleType : h # NULL
    /\ \A d \in Int : [handle |-> d] # NULL
<1>1. \A h \in HandleType : h \in [node : Int, use_count : Nat]
  BY KernelProxyAssumption DEF HandleType
<1>2. \A d \in Int : [handle |-> d] \in [handle : Int]
  OBVIOUS
<1> QED
  BY <1>1, <1>2, NullAssumption

\* Which slot Alloc() takes depends on which slots are live, not on what
\* they hold.
LEMMA AllocSame ==
    ASSUME NEW f, NEW o, WellFormed(f), WellFormed(o), f.size = o.size,
           Live(f) = Live(o)
    PROVE  /\ AllocSlot(f) = AllocSlot(o)
           /\ \A x, y : Alloc(f, x).size = Alloc(o, y).size
<1>1. Index(f) = Index(o)
  BY DEF Index
<1>2. OnHeap(f) = Index(f) \ Live(f)
  <2>1. \A i \in Index(f) : f.heap[i] = IF f.slots[i] = NULL THEN 1 ELSE 0
    BY DEF WellFormed
  <2> QED
    BY <2>1 DEF OnHeap, Live
<1>3. OnHeap(o) = Index(o) \ Live(o)
  <2>1. \A i \in Index(o) : o.heap[i] = IF o.slots[i] = NULL THEN 1 ELSE 0
    BY DEF WellFormed
  <2> QED
    BY <2>1 DEF OnHeap, Live
<1>4. OnHeap(f) = OnHeap(o)
  BY <1>1, <1>2, <1>3
<1>5. HeapFront(f) = HeapFront(o)
  BY <1>4 DEF HeapFront
<1>6. AllocSlot(f) = AllocSlot(o)
  BY <1>4, <1>5 DEF AllocSlot
<1>7. \A a, x : Alloc(a, x).size = IF OnHeap(a) = {} THEN a.size + 1 ELSE a.size
  BY DEF Alloc
<1> QED
  BY <1>4, <1>6, <1>7

\* The end of OpenHandle(): a handle and its descriptor are made.
LEMMA OpenFds ==
    ASSUME NEW f, NEW o, FdsOK(f, o), NEW s \in 0 .. MaxNodes - 1
    PROVE  LET h == AllocSlot(o)
               p == Alloc(o, [node |-> s, use_count |-> 1])
               g == Alloc(f, [handle |-> AllocSlot(o)])
           IN  /\ FdsOK(g, p)
               /\ h = AllocSlot(f) /\ h \notin Live(o) /\ Live(p) = Live(o) \cup {h}
               /\ At(p, h).node = s
               /\ \A t \in Live(o) : At(p, t) = At(o, t)
               /\ g.size = f.size \/ g.size = h + 1
<1> DEFINE h == AllocSlot(o)
           x == [node |-> s, use_count |-> 1]
           y == [handle |-> h]
           p == Alloc(o, x)
           g == Alloc(f, y)
<1>0. /\ WellFormed(f) /\ WellFormed(o)
      /\ f.size = o.size /\ Live(f) = Live(o)
      /\ \A d \in Live(f) : At(f, d) = [handle |-> d]
      /\ \A t \in Live(o) : At(o, t) \in HandleType
      /\ Live(o) \subseteq Int /\ o.size \in Nat
  <2>1. WellFormed(o)
    BY DEF FdsOK
  <2>2. o.size \in Nat
    BY <2>1 DEF WellFormed
  <2>3. Live(o) \subseteq Int
    BY <2>1, LiveIsIndex
  <2> QED
    BY <2>2, <2>3 DEF FdsOK
<1>1. x \in HandleType /\ x # NULL /\ x.node = s
  BY HandleNotNull DEF HandleType
<1>2. h = AllocSlot(f) /\ g.size = p.size
  BY <1>0, AllocSame
<1> HIDE DEF x
<1>3. /\ WellFormed(p) /\ h \in 0 .. o.size /\ h \notin Live(o)
      /\ Live(p) = Live(o) \cup {h} /\ At(p, h) = x
      /\ \A t \in Int : t # h => At(p, t) = At(o, t)
  BY <1>0, <1>1, AllocFacts DEF h, p
<1>4. h \in Int /\ y # NULL
  BY <1>0, <1>3, HandleNotNull
<1> HIDE DEF y
<1>5. /\ WellFormed(g) /\ Live(g) = Live(f) \cup {h} /\ At(g, h) = y
      /\ \A t \in Int : t # h => At(g, t) = At(f, t)
      /\ g.size = f.size \/ (g.size = f.size + 1 /\ h = f.size)
  BY <1>0, <1>2, <1>4, AllocFacts DEF g
<1> HIDE DEF h, p, g
<1>6. \A d \in Live(g) : At(g, d) = [handle |-> d]
  <2>1. At(g, h) = [handle |-> h]
    BY <1>5 DEF y
  <2>2. \A d \in Live(f) : d # h /\ d \in Int
    BY <1>0, <1>3
  <2> QED
    BY <1>0, <1>5, <2>1, <2>2
<1>7. \A t \in Live(p) : At(p, t) \in HandleType
  BY <1>0, <1>1, <1>3
<1>8. FdsOK(g, p)
  BY <1>0, <1>2, <1>3, <1>5, <1>6, <1>7 DEF FdsOK
<1>9. g.size = f.size \/ g.size = h + 1
  BY <1>5
<1>10. At(p, h).node = s /\ \A t \in Live(o) : At(p, t) = At(o, t)
  BY <1>0, <1>1, <1>3
<1> QED
  BY <1>2, <1>3, <1>8, <1>9, <1>10 DEF h, p, g, x, y

\* close(): both go.
LEMMA CloseFds ==
    ASSUME NEW f, NEW o, FdsOK(f, o), NEW d \in Live(f)
    PROVE  /\ At(f, d).handle = d /\ d \in Live(o)
           /\ At(o, d) \in HandleType /\ At(o, d) # NULL
           /\ At(o, d).node \in 0 .. MaxNodes - 1 /\ At(o, d).use_count = 1
           /\ FdsOK(Free(f, d), Free(o, d))
           /\ Free(f, d).size = f.size
           /\ Live(Free(o, d)) = Live(o) \ {d}
           /\ \A t \in Live(o) \ {d} : At(Free(o, d), t) = At(o, t)
<1> DEFINE p == Free(o, d)
           g == Free(f, d)
<1>0. /\ WellFormed(f) /\ WellFormed(o)
      /\ f.size = o.size /\ Live(f) = Live(o)
      /\ \A e \in Live(f) : At(f, e) = [handle |-> e]
      /\ \A t \in Live(o) : At(o, t) \in HandleType
      /\ Live(o) \subseteq Int /\ d \in Index(f) /\ d \in Index(o)
  BY LiveIsIndex DEF FdsOK, WellFormed, Index
<1>1. /\ At(f, d).handle = d /\ d \in Live(o)
      /\ At(o, d) \in HandleType /\ At(o, d) # NULL
      /\ At(o, d).node \in 0 .. MaxNodes - 1 /\ At(o, d).use_count = 1
  BY <1>0, HandleNotNull DEF HandleType
<1>2. /\ WellFormed(g) /\ Live(g) = Live(f) \ {d} /\ g.size = f.size
      /\ \A t \in Int : t # d => At(g, t) = At(f, t)
  BY <1>0, FreeFacts
<1>3. /\ WellFormed(p) /\ Live(p) = Live(o) \ {d} /\ p.size = o.size
      /\ \A t \in Int : t # d => At(p, t) = At(o, t)
  BY <1>0, FreeFacts
<1> HIDE DEF p, g
<1>4. FdsOK(g, p)
  <2>1. \A e \in Live(g) : At(g, e) = [handle |-> e]
    BY <1>0, <1>2
  <2>2. \A t \in Live(p) : At(p, t) \in HandleType
    BY <1>0, <1>3
  <2> QED
    BY <1>0, <1>2, <1>3, <2>1, <2>2 DEF FdsOK
<1>5. \A t \in Live(o) \ {d} : At(p, t) = At(o, t)
  BY <1>0, <1>3
<1> QED
  BY <1>1, <1>2, <1>3, <1>4, <1>5 DEF p, g

\* A slot number in Index(fds_) that At() answers for is live.
LEMMA FdLive ==
    ASSUME NEW f, WellFormed(f), NEW d \in Index(f), At(f, d) # NULL
    PROVE  d \in Live(f)
  BY LiveIsAt, LiveIsIndex

-------------------------------------------------------------------------------
(* Inodes, directory entries and handles together.                         *)

\* The users of the inodes: a function u from them to slots, with a value for
\* each handle and, when calls interleave, for each call that holds a count.
On(u, s) == {x \in DOMAIN u : u[x] = s}
Uses(a, u, s) == (IF Linked(a, s) THEN 1 ELSE 0) + Cardinality(On(u, s))

\* They refer to live inodes, and use_count_ of a file counts them.
Held(a, u) == \A x \in DOMAIN u : u[x] \in Live(a)
Counted(a, u, s) == ~ At(a, s).is_dir => /\ At(a, s).use_count > 0
                                         /\ At(a, s).use_count = Uses(a, u, s)

\* The inductive invariant of the calls.
Whole(a, u) == /\ Typed(a) /\ Tree(a) /\ Held(a, u)
               /\ \A s \in Live(a) : Counted(a, u, s)

\* Between calls the users are the handles.
Users(o) == [h \in Live(o) |-> At(o, h).node]

LEMMA UsersFinite ==
    ASSUME NEW o, WellFormed(o)
    PROVE  IsFiniteSet(DOMAIN Users(o))
<1>1. Live(o) \in SUBSET (0 .. o.size - 1) /\ o.size - 1 \in Int
  BY LiveIsIndex DEF WellFormed, Index
<1>2. IsFiniteSet(0 .. o.size - 1)
  BY <1>1, FS_Interval
<1>3. IsFiniteSet(Live(o))
  BY <1>1, <1>2, FS_Subset
<1> QED
  BY <1>3 DEF Users

LEMMA OnUsers ==
    ASSUME NEW o, NEW s
    PROVE  On(Users(o), s) = {h \in Live(o) : At(o, h).node = s}
  BY DEF On, Users

LEMMA OnFinite ==
    ASSUME NEW u, IsFiniteSet(DOMAIN u), NEW s
    PROVE  IsFiniteSet(On(u, s)) /\ Cardinality(On(u, s)) \in Nat
<1>1. On(u, s) \in SUBSET DOMAIN u
  BY DEF On
<1>2. IsFiniteSet(On(u, s))
  BY <1>1, FS_Subset
<1> QED
  BY <1>2, FS_CardinalityType

\* v is u with one more user x.
More(u, v, x) == /\ x \notin DOMAIN u /\ DOMAIN v = DOMAIN u \cup {x}
                 /\ \A y \in DOMAIN u : v[y] = u[y]

LEMMA OpenMore ==
    ASSUME NEW f, NEW o, FdsOK(f, o), NEW s \in 0 .. MaxNodes - 1
    PROVE  LET p == Alloc(o, [node |-> s, use_count |-> 1])
               h == AllocSlot(o)
           IN  More(Users(o), Users(p), h) /\ Users(p)[h] = s
<1>1. PICK x : x = [node |-> s, use_count |-> 1]
  OBVIOUS
<1>2. x.node = s /\ x # NULL
  BY <1>1, HandleNotNull DEF HandleType
<1>3. WellFormed(o) /\ Live(o) \subseteq Int
  BY LiveIsIndex DEF FdsOK
<1>4. PICK p, h : p = Alloc(o, x) /\ h = AllocSlot(o)
  OBVIOUS
<1>5. /\ h \notin Live(o) /\ Live(p) = Live(o) \cup {h} /\ At(p, h) = x
      /\ \A t \in Int : t # h => At(p, t) = At(o, t)
  BY <1>2, <1>3, <1>4, AllocFacts
<1>6. More(Users(o), Users(p), h) /\ Users(p)[h] = s
  BY <1>2, <1>3, <1>5 DEF More, Users
<1> QED
  BY <1>1, <1>4, <1>6

LEMMA OnMore ==
    ASSUME NEW u, IsFiniteSet(DOMAIN u), NEW v, NEW x, More(u, v, x)
    PROVE  /\ Cardinality(On(v, v[x])) = Cardinality(On(u, v[x])) + 1
           /\ \A t : t # v[x] => On(v, t) = On(u, t)
<1>1. PICK s : s = v[x]
  OBVIOUS
<1>2. On(v, s) = On(u, s) \cup {x} /\ x \notin On(u, s)
  BY <1>1 DEF On, More
<1>3. \A t : t # s => On(v, t) = On(u, t)
  BY <1>1 DEF On, More
<1>4. IsFiniteSet(On(u, s))
  BY OnFinite
<1>5. Cardinality(On(u, s) \cup {x}) = Cardinality(On(u, s)) + 1
  BY <1>2, <1>4, FS_AddElement
<1> QED
  BY <1>1, <1>2, <1>3, <1>5

\* Whether the inode is free when its users are counted down to none.
LEMMA NoUsers ==
    ASSUME NEW a, NEW u, IsFiniteSet(DOMAIN u), NEW s
    PROVE  /\ Uses(a, u, s) \in Nat
           /\ Uses(a, u, s) = 0 => ~ Linked(a, s) /\ On(u, s) = {}
<1>1. IsFiniteSet(On(u, s)) /\ Cardinality(On(u, s)) \in Nat
  BY OnFinite
<1>2. Cardinality(On(u, s)) = 0 => On(u, s) = {}
  BY <1>1, FS_EmptySet
<1> HIDE DEF Linked, On
<1> QED
  BY <1>1, <1>2 DEF Uses

\* Creat() and Mkdir() add an inode that nothing has open.
LEMMA AddsWhole ==
    ASSUME NEW a, NEW u, Whole(a, u), IsFiniteSet(DOMAIN u), NEW path \in Seq(Names),
           NEW is_dir \in BOOLEAN, NEW count \in Nat, ~ is_dir => count = 1,
           NEW r, MakesChild(a, path, is_dir, count, r), r.fs.size <= MaxNodes
    PROVE  /\ Whole(r.fs, u) /\ r.err = "OK" /\ r.slot \in Live(r.fs)
           /\ r.slot \in 0 .. MaxNodes - 1
           /\ Live(a) \subseteq Live(r.fs)
<1> DEFINE dir == GetParentSlot(a, path)
           node == MemNode(path[Len(path)], is_dir, dir, count)
<1>1. Typed(a) /\ Tree(a) /\ Held(a, u) /\ \A s \in Live(a) : Counted(a, u, s)
  BY DEF Whole
<1>2. /\ path # <<>> /\ r = NewChild(a, path, dir, is_dir, count)
      /\ At(a, GetSlot(a, path)) = NULL
      /\ dir \in Live(a) /\ At(a, dir).is_dir
  BY DEF MakesChild
<1>3. /\ Typed(r.fs) /\ r.err = "OK" /\ r.slot \in 0 .. MaxNodes - 1
      /\ Adds(a, r.fs, dir, r.slot, node)
  BY <1>1, <1>2, NewChildFacts
<1>4. \A i \in 1 .. Len(Kids(a, dir)) : At(a, Kids(a, dir)[i]).name # path[Len(path)]
  <2>1. GetSlot(a, path) \notin Live(a)
    BY <1>1, <1>2, NodeNotNull DEF Typed
  <2> QED
    BY <1>1, <1>2, <2>1, GetSlotInTree
<1>5. node \in NodeType
  <2>1. path[Len(path)] \in Names
    BY <1>2
  <2>2. dir \in -1 .. MaxNodes - 1
    <3>1. dir \in 0 .. a.size - 1 /\ a.size <= MaxNodes /\ a.size \in Nat
      BY <1>1, <1>2, LiveIsIndex DEF Typed, Index, WellFormed
    <3> QED
      BY <3>1, KernelProxyAssumption
  <2> HIDE DEF dir
  <2> QED
    BY <2>1, <2>2 DEF NodeType, MemNode
<1>6. /\ node.children = <<>> /\ node.parent = dir /\ node.name = path[Len(path)]
      /\ node.is_dir = is_dir /\ node.use_count = count
  BY DEF MemNode
<1> HIDE DEF node, dir
<1>7. PICK b, s : b = r.fs /\ s = r.slot
  OBVIOUS
<1>8. /\ Tree(b) /\ Linked(b, s)
      /\ \A t \in Live(a) : Linked(b, t) <=> Linked(a, t)
  <2>1. Adds(a, b, dir, s, node)
    BY <1>3, <1>7
  <2>2. \A i \in 1 .. Len(Kids(a, dir)) : At(a, Kids(a, dir)[i]).name # node.name
    BY <1>4, <1>6
  <2> QED
    BY <1>1, <1>2, <1>5, <1>6, <2>1, <2>2, AddsTree
<1>9. /\ s \notin Live(a) /\ Live(b) = Live(a) \cup {s} /\ At(b, s) = node
      /\ At(b, dir) = [At(a, dir) EXCEPT !.children = Append(@, s)]
      /\ \A t \in Live(a) : t # dir => At(b, t) = At(a, t)
  BY <1>3, <1>7 DEF Adds
<1>10. Held(b, u)
  BY <1>1, <1>9 DEF Held
<1>11. Counted(b, u, s)
  <2>1. On(u, s) = {}
    BY <1>1, <1>9 DEF On, Held
  <2>2. Uses(b, u, s) = 1
    BY <1>8, <2>1, FS_EmptySet DEF Uses
  <2> QED
    BY <1>6, <1>9, <2>2 DEF Counted
<1>12. ASSUME NEW t \in Live(a)
       PROVE  Counted(b, u, t)
  <2>1. At(b, t).is_dir = At(a, t).is_dir /\ At(b, t).use_count = At(a, t).use_count
    <3>1. At(a, dir) \in NodeType
      BY <1>1, <1>2 DEF Typed
    <3> QED
      BY <1>9, <3>1 DEF NodeType
  <2>2. Uses(b, u, t) = Uses(a, u, t)
    BY <1>8 DEF Uses
  <2> QED
    BY <1>1, <2>1, <2>2 DEF Counted
<1> QED
  BY <1>3, <1>7, <1>8, <1>9, <1>10, <1>11, <1>12 DEF Whole

\* Ref() and the user it is for.
LEMMA RefWhole ==
    ASSUME NEW a, NEW u, Whole(a, u), IsFiniteSet(DOMAIN u), NEW v, NEW x,
           More(u, v, x), NEW s \in Live(a), v[x] = s
    PROVE  Whole(Ref(a, s), v) /\ Live(Ref(a, s)) = Live(a)
<1>1. Typed(a) /\ Tree(a) /\ Held(a, u) /\ \A t \in Live(a) : Counted(a, u, t)
  BY DEF Whole
<1>2. PICK b : b = Ref(a, s)
  OBVIOUS
<1>3. /\ Typed(b)
      /\ \/ b = a /\ At(a, s).is_dir
         \/ Recounts(a, b, s) /\ At(b, s).use_count = At(a, s).use_count + 1
  BY <1>1, <1>2, RefFacts
<1>4. /\ Cardinality(On(v, s)) = Cardinality(On(u, s)) + 1
      /\ \A t : t # s => On(v, t) = On(u, t)
  BY OnMore
<1>5. Held(a, v)
  BY <1>1 DEF Held, More
<1>6. CASE b = a /\ At(a, s).is_dir
  <2>1. \A t \in Live(a) : Counted(a, v, t)
    BY <1>1, <1>4, <1>6 DEF Counted, Uses
  <2> QED
    BY <1>1, <1>2, <1>5, <1>6, <2>1 DEF Whole
<1>7. CASE Recounts(a, b, s) /\ At(b, s).use_count = At(a, s).use_count + 1
  <2>1. /\ Tree(b) /\ Live(b) = Live(a)
        /\ \A t : Linked(b, t) <=> Linked(a, t)
        /\ \A t \in Live(a) : t # s => At(b, t) = At(a, t)
    BY <1>1, <1>7, RecountsTree DEF Recounts
  <2>2. At(b, s).is_dir = At(a, s).is_dir /\ At(a, s).use_count \in Nat
    <3>1. At(a, s) \in NodeType
      BY <1>1 DEF Typed
    <3> QED
      BY <1>7, <3>1 DEF Recounts, NodeType
  <2>3. Held(b, v)
    BY <1>5, <2>1 DEF Held
  <2>4. \A t \in Live(a) : t # s => Counted(b, v, t)
    BY <1>1, <1>4, <2>1 DEF Counted, Uses
  <2>5. Counted(b, v, s)
    <3>1. Uses(a, u, s) \in Nat /\ Uses(b, v, s) = Uses(a, u, s) + 1
      <4>1. Cardinality(On(u, s)) \in Nat
        BY OnFinite
      <4> QED
        BY <1>4, <2>1, <4>1 DEF Uses
    <3> QED
      BY <1>1, <1>7, <2>2, <3>1 DEF Counted
  <2> QED
    BY <1>2, <1>3, <2>1, <2>3, <2>4, <2>5 DEF Whole
<1> QED
  BY <1>3, <1>6, <1>7

\* Unref() of a file that has just lost a user: it is counted down, or freed
\* when it was the last.
LEMMA UnrefWhole ==
    ASSUME NEW a, Typed(a), Tree(a), NEW u, IsFiniteSet(DOMAIN u), Held(a, u),
           NEW s \in Live(a), ~ At(a, s).is_dir,
           At(a, s).use_count = Uses(a, u, s) + 1,
           \A t \in Live(a) \ {s} : Counted(a, u, t)
    PROVE  Whole(Unref(a, s), u)
<1>1. PICK b : b = Unref(a, s)
  OBVIOUS
<1>2. /\ Typed(b)
      /\ \/ /\ At(a, s).use_count > 1 /\ Recounts(a, b, s)
            /\ At(b, s).use_count = At(a, s).use_count - 1
         \/ At(a, s).use_count <= 1 /\ Frees(a, b, s)
  BY <1>1, UnrefFacts
<1>3. Uses(a, u, s) \in Nat /\ (Uses(a, u, s) = 0 => ~ Linked(a, s) /\ On(u, s) = {})
  BY NoUsers
<1>4. CASE /\ At(a, s).use_count > 1 /\ Recounts(a, b, s)
           /\ At(b, s).use_count = At(a, s).use_count - 1
  <2>1. /\ Tree(b) /\ Live(b) = Live(a)
        /\ \A t : Linked(b, t) <=> Linked(a, t)
        /\ \A t \in Live(a) : t # s => At(b, t) = At(a, t)
    BY <1>4, RecountsTree DEF Recounts
  <2>2. Held(b, u)
    BY <2>1 DEF Held
  <2>3. \A t : Uses(b, u, t) = Uses(a, u, t)
    BY <2>1 DEF Uses
  <2>4. \A t \in Live(a) : t # s => Counted(b, u, t)
    BY <2>1, <2>3 DEF Counted
  <2>5. Counted(b, u, s)
    BY <1>3, <1>4, <2>3 DEF Counted
  <2> QED
    BY <1>1, <1>2, <2>1, <2>2, <2>4, <2>5 DEF Whole
<1>5. CASE At(a, s).use_count <= 1 /\ Frees(a, b, s)
  <2>1. ~ Linked(a, s) /\ On(u, s) = {}
    BY <1>3, <1>5
  <2>2. Forest(a, s) /\ s # 0 /\ Kids(a, s) = <<>>
    BY DEF Tree, Forest
  <2>3. /\ Tree(b) /\ Live(b) = Live(a) \ {s}
        /\ \A t \in Live(b) : At(b, t) = At(a, t) /\ (Linked(b, t) <=> Linked(a, t))
    BY <1>5, <2>1, <2>2, FreesTree DEF Frees
  <2>4. Held(b, u)
    BY <2>1, <2>3 DEF Held, On
  <2>5. \A t \in Live(b) : Counted(b, u, t)
    BY <2>3 DEF Counted, Uses
  <2> QED
    BY <1>1, <1>2, <2>3, <2>4, <2>5 DEF Whole
<1> QED
  BY <1>2, <1>4, <1>5

\* close(): the user x goes, and Unref().
LEMMA CloseWhole ==
    ASSUME NEW a, NEW v, Whole(a, v), NEW u, IsFiniteSet(DOMAIN u), NEW x,
           More(u, v, x)
    PROVE  Whole(Unref(a, v[x]), u)
<1>1. Typed(a) /\ Tree(a) /\ Held(a, v) /\ \A t \in Live(a) : Counted(a, v, t)
  BY DEF Whole
<1>2. PICK s : s = v[x]
  OBVIOUS
<1>3. s \in Live(a)
  BY <1>1, <1>2 DEF Held, More
<1>4. /\ Cardinality(On(v, s)) = Cardinality(On(u, s)) + 1
      /\ \A t : t # s => On(v, t) = On(u, t)
  BY <1>2, OnMore
<1>5. Held(a, u)
  BY <1>1 DEF Held, More
<1>6. \A t \in Live(a) \ {s} : Counted(a, u, t)
  BY <1>1, <1>4 DEF Counted, Uses
<1>7. CASE At(a, s).is_dir
  <2>1. Unref(a, s) = a
    BY <1>1, <1>3, <1>7, UnrefFacts
  <2>2. Counted(a, u, s)
    BY <1>7 DEF Counted
  <2> QED
    BY <1>1, <1>2, <1>5, <1>6, <2>1, <2>2 DEF Whole
<1>8. CASE ~ At(a, s).is_dir
  <2>1. Cardinality(On(u, s)) \in Nat
    BY OnFinite
  <2>2. Uses(a, v, s) = Uses(a, u, s) + 1
    BY <1>4, <2>1 DEF Uses
  <2>3. At(a, s).use_count = Uses(a, u, s) + 1
    BY <1>1, <1>3, <1>8, <2>2 DEF Counted
  <2> QED
    BY <1>1, <1>2, <1>3, <1>5, <1>6, <1>8, <2>3, UnrefWhole
<1> QED
  BY <1>7, <1>8

\* Unlink(): the entry goes, and Unref().
LEMMA UnlinkWhole ==
    ASSUME NEW a, NEW u, Whole(a, u), IsFiniteSet(DOMAIN u), NEW path \in Seq(Names)
    PROVE  LET r == Unlink(a, path)
           IN  Whole(r.fs, u) /\ r.err # "CRASH" /\ r.fs.size = a.size
<1> DEFINE r == Unlink(a, path)
           s == GetSlot(a, path)
           dir == GetParentSlot(a, path)
<1>1. Typed(a) /\ Tree(a) /\ Held(a, u) /\ \A t \in Live(a) : Counted(a, u, t)
  BY DEF Whole
<1>2. /\ s # CRASHED /\ dir # CRASHED
      /\ s \in Live(a) /\ ~ At(a, s).is_dir =>
             dir \in Live(a) /\ At(a, dir).is_dir /\ IsKid(a, dir, s)
  <2>1. CRASHED \notin Live(a) \cup {NOT_FOUND} /\ NOT_FOUND \notin Live(a)
    BY <1>1, LiveIsIndex DEF Typed, CRASHED, NOT_FOUND
  <2>2. At(a, 0).is_dir
    BY <1>1 DEF Tree
  <2> QED
    BY <1>1, <2>1, <2>2, GetSlotInTree
<1>3. \/ r.fs = a /\ r.err # "OK" /\ r.err # "CRASH"
      \/ /\ r.err = "OK" /\ r.fs.size = a.size
         /\ s \in Live(a) /\ dir \in Live(a) /\ ~ At(a, s).is_dir
         /\ r.fs = Unref(RemoveChild(a, dir, s), s)
  BY <1>1, <1>2, UnlinkFacts
<1> HIDE DEF r, s, dir
<1>4. CASE /\ r.err = "OK" /\ r.fs.size = a.size
           /\ s \in Live(a) /\ dir \in Live(a) /\ ~ At(a, s).is_dir
           /\ r.fs = Unref(RemoveChild(a, dir, s), s)
  <2>1. PICK b : b = RemoveChild(a, dir, s)
    OBVIOUS
  <2>2. Typed(b) /\ Drops(a, b, dir, s)
    BY <1>1, <1>2, <1>4, <2>1, RemoveChildFacts
  <2>3. /\ Forest(b, s) /\ ~ Linked(b, s) /\ Live(b) = Live(a)
        /\ \A t \in Live(a) \ {s} : Linked(b, t) <=> Linked(a, t)
        /\ \A t \in Live(a) : /\ At(b, t).is_dir = At(a, t).is_dir
                              /\ At(b, t).use_count = At(a, t).use_count
    <3>1. IsKid(a, dir, s) /\ At(a, dir).is_dir
      BY <1>2, <1>4
    <3>2. Live(b) = Live(a)
      BY <2>2 DEF Drops
    <3> QED
      BY <1>1, <2>2, <3>1, <3>2, DropsForest
  <2>4. Tree(b)
    BY <1>4, <2>3 DEF Forest, Tree
  <2>5. Held(b, u)
    BY <1>1, <2>3 DEF Held
  <2>6. \A t \in Live(b) \ {s} : Counted(b, u, t)
    BY <1>1, <2>3 DEF Counted, Uses
  <2>7. At(b, s).use_count = Uses(b, u, s) + 1
    <3>1. Linked(a, s)
      BY <1>2, <1>4 DEF Linked
    <3>2. Cardinality(On(u, s)) \in Nat
      BY OnFinite
    <3>3. At(a, s).use_count = Uses(a, u, s)
      BY <1>1, <1>4 DEF Counted
    <3> QED
      BY <1>4, <2>3, <3>1, <3>2, <3>3 DEF Uses
  <2>8. Whole(Unref(b, s), u)
    BY <1>4, <2>2, <2>3, <2>4, <2>5, <2>6, <2>7, UnrefWhole
  <2> QED
    BY <1>4, <2>1, <2>8 DEF r
<1> QED
  BY <1>3, <1>4 DEF r

\* Rmdir() of a directory that is not the root and that nothing has open.
LEMMA RmdirWhole ==
    ASSUME NEW a, NEW u, Whole(a, u), NEW s \in Live(a)
    PROVE  LET r == Rmdir(a, s)
           IN  /\ r.err # "CRASH" /\ r.fs.size = a.size
               /\ r.fs # a => At(a, s).is_dir /\ Live(r.fs) = Live(a) \ {s}
               /\ r.fs = a \/ (s # 0 /\ On(u, s) = {}) => Whole(r.fs, u)
<1> DEFINE r == Rmdir(a, s)
           dir == At(a, s).parent
<1>1. Typed(a) /\ Tree(a) /\ Held(a, u) /\ \A t \in Live(a) : Counted(a, u, t)
  BY DEF Whole
<1>2. At(a, s).is_dir /\ s # 0 =>
          /\ dir \in Live(a) /\ At(a, dir).is_dir /\ IsKid(a, dir, s)
          /\ At(a, dir) # NULL
  <2> SUFFICES ASSUME At(a, s).is_dir, s # 0
               PROVE  dir \in Live(a) /\ At(a, dir).is_dir /\ IsKid(a, dir, s)
    BY <1>1, NodeNotNull DEF Typed
  <2>1. PICK d \in Live(a) : IsKid(a, d, s)
    BY <1>1 DEF Tree, Linked
  <2>2. d = dir
    BY <1>1, <2>1, LinkedByParent DEF Tree
  <2>3. Len(Kids(a, d)) # 0
    BY <2>1 DEF IsKid
  <2>4. At(a, d).is_dir
    BY <1>1, <2>3 DEF Tree
  <2> QED
    BY <2>1, <2>2, <2>4
<1>3. \/ r.fs = a /\ r.err # "CRASH"
      \/ /\ r.err = "OK" /\ Typed(r.fs) /\ r.fs.size = a.size
         /\ Live(r.fs) = Live(a) \ {s}
         /\ At(a, s).is_dir /\ Kids(a, s) = <<>>
         /\ s # 0 => dir \in Live(a) /\ r.fs = Free(RemoveChild(a, dir, s), s)
  BY <1>1, <1>2, RmdirFacts
<1> HIDE DEF r
<1>4. CASE r.fs = a /\ r.err # "CRASH"
  BY <1>4 DEF r
<1>5. CASE /\ r.err = "OK" /\ Typed(r.fs) /\ r.fs.size = a.size
           /\ Live(r.fs) = Live(a) \ {s}
           /\ At(a, s).is_dir /\ Kids(a, s) = <<>>
           /\ s # 0 => dir \in Live(a) /\ r.fs = Free(RemoveChild(a, dir, s), s)
  <2>1. ASSUME s # 0, On(u, s) = {}
        PROVE  Whole(r.fs, u)
    <3>1. PICK b, c : b = RemoveChild(a, dir, s) /\ c = Free(b, s)
      OBVIOUS
    <3> HIDE DEF dir
    <3>2. Typed(b) /\ Drops(a, b, dir, s)
      BY <1>1, <1>2, <1>5, <2>1, <3>1, RemoveChildFacts
    <3>3. /\ Forest(b, s) /\ ~ Linked(b, s) /\ Live(b) = Live(a)
          /\ \A t \in Live(a) \ {s} : Linked(b, t) <=> Linked(a, t)
          /\ \A t \in Live(a) : /\ At(b, t).is_dir = At(a, t).is_dir
                                /\ At(b, t).use_count = At(a, t).use_count
          /\ \A t \in Live(a) \ {dir} : At(b, t) = At(a, t)
      <4>1. IsKid(a, dir, s) /\ At(a, dir).is_dir
        BY <1>2, <1>5, <2>1
      <4>2. Live(b) = Live(a)
        BY <3>2 DEF Drops
      <4> QED
        BY <1>1, <3>2, <4>1, <4>2, DropsForest
    <3>4. dir # s
      <4>1. Len(Kids(a, dir)) # 0
        BY <1>2, <1>5, <2>1 DEF IsKid
      <4> QED
        BY <1>5, <4>1
    <3>5. Kids(b, s) = <<>>
      BY <1>5, <3>3, <3>4 DEF Kids
    <3>6. Typed(c) /\ Frees(b, c, s)
      BY <3>1, <3>2, <3>3, FreeNode DEF Frees
    <3>7. /\ Tree(c) /\ Live(c) = Live(a) \ {s}
          /\ \A t \in Live(c) : At(c, t) = At(b, t) /\ (Linked(c, t) <=> Linked(b, t))
      BY <2>1, <3>3, <3>5, <3>6, FreesTree DEF Frees
    <3>8. Held(c, u)
      BY <1>1, <2>1, <3>7 DEF Held, On
    <3>9. \A t \in Live(c) : Counted(c, u, t)
      BY <1>1, <3>3, <3>7 DEF Counted, Uses
    <3> QED
      BY <1>5, <2>1, <3>1, <3>6, <3>7, <3>8, <3>9 DEF Whole
  <2> QED
    BY <1>5, <2>1 DEF r
<1> QED
  BY <1>3, <1>4, <1>5

-------------------------------------------------------------------------------
(* What every call keeps, the unguarded ones included.                     *)

Basic == /\ Typed(nodes) /\ FdsOK(fds, open_files)
         /\ status \in {"ok", "crashed", "no_name"}

\* The first half of OpenHandle().
Found(a, path, flags) == IF flags # 0 THEN Creat(a, path) ELSE GetNode(a, path)

LEMMA FoundType ==
    ASSUME NEW a, Typed(a), NEW path \in Seq(Names), path # <<>>, NEW flags,
           Found(a, path, flags).fs.size <= MaxNodes
    PROVE  LET r == Found(a, path, flags)
           IN  /\ Typed(r.fs)
               /\ r.err = "OK" => r.slot \in Live(r.fs) /\ r.slot \in 0 .. MaxNodes - 1
               /\ Live(a) \subseteq Live(r.fs)
<1>1. CASE flags # 0
  <2>1. PICK r : r = Creat(a, path)
    OBVIOUS
  <2>2. r.fs.size <= MaxNodes /\ r = Found(a, path, flags)
    BY <1>1, <2>1 DEF Found
  <2>3. CASE r.fs = a /\ r.err # "OK"
    BY <2>2, <2>3
  <2>4. CASE MakesChild(a, path, FALSE, 1, r)
    <3>1. PICK dir : dir = GetParentSlot(a, path)
      OBVIOUS
    <3>2. /\ r = NewChild(a, path, dir, FALSE, 1)
          /\ dir \in Live(a) /\ At(a, dir).is_dir
      BY <2>4, <3>1 DEF MakesChild
    <3>3. /\ Typed(r.fs) /\ r.slot \in 0 .. MaxNodes - 1
          /\ Adds(a, r.fs, dir, r.slot, MemNode(path[Len(path)], FALSE, dir, 1))
      <4>1. NewChild(a, path, dir, FALSE, 1).fs.size <= MaxNodes
        BY <2>2, <3>2
      <4> QED
        BY <3>2, <4>1, NewChildFacts
    <3>4. r.slot \in Live(r.fs) /\ Live(a) \subseteq Live(r.fs)
      BY <3>3 DEF Adds
    <3> QED
      BY <2>2, <3>3, <3>4
  <2> QED
    BY <2>1, <2>3, <2>4, CreatFacts
<1>2. CASE flags = 0
  <2>1. Found(a, path, flags) = GetNode(a, path)
    BY <1>2 DEF Found
  <2> QED
    BY <2>1, GetNodeFacts
<1> QED
  BY <1>1, <1>2

LEMMA MkdirType ==
    ASSUME NEW a, Typed(a), NEW path \in Seq(Names), Mkdir(a, path).fs.size <= MaxNodes
    PROVE  Typed(Mkdir(a, path).fs)
<1>1. PICK r : r = Mkdir(a, path)
  OBVIOUS
<1>2. CASE MakesChild(a, path, TRUE, 0, r)
  <2>1. PICK dir : dir = GetParentSlot(a, path)
    OBVIOUS
  <2>2. /\ r = NewChild(a, path, dir, TRUE, 0) /\ path # <<>>
        /\ dir \in Live(a) /\ At(a, dir).is_dir
    BY <1>2, <2>1 DEF MakesChild
  <2> QED
    BY <1>1, <2>2, NewChildFacts
<1>3. CASE r.fs = a
  BY <1>1, <1>3
<1> QED
  BY <1>1, <1>2, <1>3, MkdirFacts

\* A call of the mount.
LEMMA MountCallBasic ==
    ASSUME Basic, NEW r, MountCall(r), Typed(r.fs)
    PROVE  Basic' /\ fds' = fds
<1>1. status' \in {"ok", "crashed", "no_name"}
  BY DEF MountCall
<1>2. nodes' = r.fs /\ fds' = fds /\ open_files' = open_files
  BY DEF MountCall
<1> QED
  BY <1>1, <1>2 DEF Basic

\* open(): the descriptor tables grow by at most the slot that was free.
LEMMA OpenHandleBasic ==
    ASSUME Basic, NEW path \in Seq(Names), path # <<>>, NEW flags,
           OpenHandle(path, flags)
    PROVE  /\ Basic'
           /\ fds'.size = fds.size \/ fds'.size = AllocSlot(fds) + 1
<1>1. PICK r : r = Found(nodes, path, flags)
  OBVIOUS
<1>2. \/ r.err # "OK" /\ MountCall(r)
      \/ /\ r.err = "OK" /\ r.fs.size <= MaxNodes
         /\ nodes' = Ref(r.fs, r.slot)
         /\ open_files' = Alloc(open_files, [node |-> r.slot, use_count |-> 1])
         /\ fds' = Alloc(fds, [handle |-> AllocSlot(open_files)])
         /\ status' = "ok"
  BY <1>1, Zenon DEF OpenHandle, Found
<1>3. /\ Typed(r.fs)
      /\ r.err = "OK" => r.slot \in Live(r.fs) /\ r.slot \in 0 .. MaxNodes - 1
  <2>1. r.fs.size <= MaxNodes
    BY <1>2 DEF MountCall
  <2> QED
    BY <1>1, <2>1, FoundType DEF Basic
<1>4. CASE r.err # "OK" /\ MountCall(r)
  BY <1>3, <1>4, MountCallBasic
<1>5. CASE /\ r.err = "OK" /\ r.fs.size <= MaxNodes
           /\ nodes' = Ref(r.fs, r.slot)
           /\ open_files' = Alloc(open_files, [node |-> r.slot, use_count |-> 1])
           /\ fds' = Alloc(fds, [handle |-> AllocSlot(open_files)])
           /\ status' = "ok"
  <2>1. Typed(nodes')
    BY <1>3, <1>5, RefFacts
  <2>2. /\ FdsOK(fds', open_files')
        /\ fds'.size = fds.size \/ fds'.size = AllocSlot(fds) + 1
    <3>1. PICK h, p, g : /\ h = AllocSlot(open_files)
                         /\ p = Alloc(open_files, [node |-> r.slot, use_count |-> 1])
                         /\ g = Alloc(fds, [handle |-> AllocSlot(open_files)])
      OBVIOUS
    <3>2. /\ FdsOK(g, p) /\ h = AllocSlot(fds)
          /\ g.size = fds.size \/ g.size = h + 1
      BY <1>3, <1>5, <3>1, OpenFds DEF Basic
    <3>3. fds' = g /\ open_files' = p
      BY <1>5, <3>1, Zenon
    <3> QED
      BY <3>2, <3>3
  <2> QED
    BY <1>5, <2>1, <2>2 DEF Basic
<1> QED
  BY <1>2, <1>4, <1>5

\* close() of a live descriptor frees the handle of the same number.
LEMMA CloseSteps ==
    ASSUME Basic, NEW fd \in Index(fds), Close(fd)
    PROVE  /\ fd \in Live(fds)
           /\ nodes' = Unref(nodes, At(open_files, fd).node)
           /\ fds' = Free(fds, fd) /\ open_files' = Free(open_files, fd)
           /\ status' = status
<1>1. fd \in Live(fds)
  BY FdLive DEF Basic, FdsOK, Close
<1>2. /\ At(fds, fd).handle = fd /\ At(open_files, fd) # NULL
      /\ At(open_files, fd).use_count = 1
  BY <1>1, CloseFds DEF Basic
<1> QED
  BY <1>1, <1>2 DEF Close

LEMMA CloseBasic ==
    ASSUME Basic, NEW fd \in Index(fds), Close(fd)
    PROVE  Basic' /\ fds'.size = fds.size
<1>1. /\ fd \in Live(fds)
      /\ nodes' = Unref(nodes, At(open_files, fd).node)
      /\ fds' = Free(fds, fd) /\ open_files' = Free(open_files, fd)
      /\ status' = status
  BY CloseSteps
<1>2. /\ FdsOK(fds', open_files') /\ fds'.size = fds.size
      /\ At(open_files, fd).node \in 0 .. MaxNodes - 1
  BY <1>1, CloseFds DEF Basic
<1>3. Typed(nodes')
  <2>1. PICK s \in 0 .. MaxNodes - 1 : s = At(open_files, fd).node
    BY <1>2
  <2>2. CASE At(nodes, s) = NULL
    BY <1>1, <2>1, <2>2 DEF Unref, Basic
  <2>3. CASE At(nodes, s) # NULL
    <3>1. s \in Live(nodes)
      BY <2>3, SlotLive DEF Basic
    <3> QED
      BY <1>1, <2>1, <3>1, UnrefFacts DEF Basic
  <2> QED
    BY <2>2, <2>3
<1> QED
  BY <1>1, <1>2, <1>3 DEF Basic

LEMMA RmdirType ==
    ASSUME NEW a, Typed(a), NEW s \in Live(a)
    PROVE  Typed(Rmdir(a, s).fs)
  BY RmdirFacts

LEMMA RemoveBasic ==
    ASSUME Basic, NEW path \in Seq(Names), Remove(path) \/ RmdirPath(path)
    PROVE  Basic' /\ fds' = fds
<1>1. PICK found : found = GetNode(nodes, path)
  OBVIOUS
<1>2. found.fs = nodes /\ (found.err = "OK" => found.slot \in Live(nodes))
  BY <1>1, GetNodeFacts DEF Basic
<1>3. \/ MountCall(found)
      \/ found.err = "OK" /\ MountCall(Rmdir(nodes, found.slot))
      \/ MountCall(Unlink(nodes, path))
  BY <1>1, Zenon DEF Remove, RmdirPath
<1>4. CASE MountCall(found)
  BY <1>2, <1>4, MountCallBasic DEF Basic
<1>5. CASE found.err = "OK" /\ MountCall(Rmdir(nodes, found.slot))
  <2>1. Typed(Rmdir(nodes, found.slot).fs)
    BY <1>2, <1>5, RmdirType DEF Basic
  <2> QED
    BY <1>5, <2>1, MountCallBasic
<1>6. CASE MountCall(Unlink(nodes, path))
  <2>1. Typed(Unlink(nodes, path).fs)
    BY UnlinkFacts DEF Basic
  <2> QED
    BY <1>6, <2>1, MountCallBasic
<1> QED
  BY <1>3, <1>4, <1>5, <1>6

\* The calls that open nothing.
Call ==
    \/ \E fd \in Index(fds) : Close(fd)
    \/ \E path \in Paths : \/ Remove(path) \/ RmdirPath(path)
                           \/ MkdirPath(path) \/ StatPath(path)
    \/ \E fd \in Index(fds), room \in {1, MaxNodes} : GetdentsFd(fd, room)

LEMMA CallBasic ==
    ASSUME Basic, Call
    PROVE  Basic' /\ fds'.size = fds.size
<1>1. ASSUME NEW fd \in Index(fds), Close(fd)
      PROVE  Basic' /\ fds'.size = fds.size
  BY <1>1, CloseBasic
<1>2. ASSUME NEW path \in Paths, Remove(path) \/ RmdirPath(path)
      PROVE  Basic' /\ fds'.size = fds.size
  <2>1. path \in Seq(Names)
    BY PathType
  <2>2. Basic' /\ fds' = fds
    BY <1>2, <2>1, RemoveBasic
  <2> QED
    BY <2>2
<1>3. ASSUME NEW path \in Paths, MkdirPath(path)
      PROVE  Basic' /\ fds'.size = fds.size
  <2>1. path \in Seq(Names)
    BY PathType
  <2>2. MountCall(Mkdir(nodes, path)) /\ Mkdir(nodes, path).fs.size <= MaxNodes
    BY <1>3 DEF MkdirPath, MountCall
  <2>3. Typed(Mkdir(nodes, path).fs)
    BY <2>1, <2>2, MkdirType DEF Basic
  <2>4. Basic' /\ fds' = fds
    BY <2>2, <2>3, MountCallBasic
  <2> QED
    BY <2>4
<1>4. ASSUME NEW path \in Paths, StatPath(path)
      PROVE  Basic' /\ fds'.size = fds.size
  <2>1. path \in Seq(Names)
    BY PathType
  <2>2. MountCall(GetNode(nodes, path))
    BY <1>4 DEF StatPath
  <2>3. Typed(GetNode(nodes, path).fs)
    BY <2>1, GetNodeFacts DEF Basic
  <2>4. Basic' /\ fds' = fds
    BY <2>2, <2>3, MountCallBasic
  <2> QED
    BY <2>4
<1>5. ASSUME NEW fd \in Index(fds), NEW room \in {1, MaxNodes}, GetdentsFd(fd, room)
      PROVE  Basic' /\ fds'.size = fds.size
  <2>1. PICK r, s : r = Getdents(nodes, s, room) /\ MountCall(r)
    BY <1>5 DEF GetdentsFd
  <2>2. Typed(r.fs)
    BY <2>1, GetdentsFacts DEF Basic
  <2>3. Basic' /\ fds' = fds
    BY <2>1, <2>2, MountCallBasic
  <2> QED
    BY <2>3
<1> QED
  BY <1>1, <1>2, <1>3, <1>4, <1>5 DEF Call

LEMMA NamePath ==
    ASSUME NEW n \in Names
    PROVE  <<n>> \in Seq(Names) /\ <<n>> # <<>>
  OBVIOUS

\* open("/") either stops the program or opens some name.
LEMMA OpenRootBasic ==
    ASSUME Basic, NEW flags, OpenRoot(flags)
    PROVE  /\ Basic'
           /\ fds'.size = fds.size \/ fds'.size = AllocSlot(fds) + 1
<1>1. CASE status' = "no_name" /\ UNCHANGED <<nodes, fds, open_files>>
  BY <1>1 DEF Basic
<1>2. CASE \E n \in Names : OpenHandle(<<n>>, flags)
  <2>1. PICK n \in Names : OpenHandle(<<n>>, flags)
    BY <1>2
  <2>2. PICK path : path = <<n>>
    OBVIOUS
  <2>3. path \in Seq(Names) /\ path # <<>> /\ OpenHandle(path, flags)
    BY <2>1, <2>2, NamePath
  <2> QED
    BY <2>3, OpenHandleBasic
<1> QED
  BY <1>1, <1>2 DEF OpenRoot

\* The mount as MemMount() makes it.
LEMMA NewMountFacts ==
    /\ Typed(NewMount) /\ NewMount.size = 1 /\ Live(NewMount) = {0}
    /\ At(NewMount, 0) = MemNode("/", TRUE, NOT_FOUND, 0)
<1> DEFINE root == MemNode("/", TRUE, NOT_FOUND, 0)
<1>1. root \in NodeType /\ root # NULL
  <2>1. root \in NodeType
    BY KernelProxyAssumption DEF MemNode, NodeType, NOT_FOUND
  <2> QED
    BY <2>1, NodeNotNull
<1>2. PICK a : a = EmptyAllocator
  OBVIOUS
<1>3. WellFormed(a) /\ Live(a) = {} /\ a.size = 0
  BY <1>2, EmptyWellFormed DEF EmptyAllocator
<1>4. NewMount = Alloc(a, root)
  BY <1>2 DEF NewMount
<1> HIDE DEF root
<1>5. AllocSlot(a) = 0 /\ Alloc(a, root).size = 1
  <2>1. OnHeap(a) = {}
    BY <1>3 DEF OnHeap, Index
  <2> QED
    BY <1>3, <2>1 DEF AllocSlot, Alloc
<1>6. PICK b : b = Alloc(a, root)
  OBVIOUS
<1>7. WellFormed(b) /\ Live(b) = {0} /\ At(b, 0) = root /\ b.size = 1
  BY <1>1, <1>3, <1>5, <1>6, AllocFacts
<1>8. Typed(b)
  BY <1>1, <1>7, KernelProxyAssumption DEF Typed
<1> QED
  BY <1>4, <1>6, <1>7, <1>8 DEF root

LEMMA InitBasic ==
    ASSUME Init
    PROVE  Basic /\ fds.size = 0 /\ Live(open_files) = {}
<1>1. WellFormed(EmptyAllocator) /\ Live(EmptyAllocator) = {}
  BY EmptyWellFormed
<1>2. FdsOK(EmptyAllocator, EmptyAllocator)
  BY <1>1 DEF FdsOK
<1>3. EmptyAllocator.size = 0
  BY DEF EmptyAllocator
<1> QED
  BY <1>1, <1>2, <1>3, NewMountFacts DEF Init, Basic

\* The type invariant in the form in which every step keeps it.
TypeInv == Basic /\ fds.size <= MaxFds

LEMMA TypeInvType == TypeInv => TypeOK
<1> SUFFICES ASSUME TypeInv PROVE TypeOK
  OBVIOUS
<1>1. Typed(nodes) /\ FdsOK(fds, open_files) /\ fds.size <= MaxFds
      /\ status \in {"ok", "crashed", "no_name"}
  BY DEF TypeInv, Basic
<1>2. WellFormed(nodes) /\ WellFormed(fds) /\ WellFormed(open_files)
  BY <1>1 DEF Typed, FdsOK
<1>3. ASSUME NEW a, WellFormed(a)
      PROVE  /\ a.size \in Nat /\ DOMAIN a.slots = Index(a)
             /\ a.heap \in [Index(a) -> Nat]
             /\ \A s \in Live(a) : s \in Index(a) /\ s \in Int /\ a.slots[s] = At(a, s)
  <2>1. \A s \in Live(a) : s \in Index(a) /\ s \in Int /\ a.slots[s] = At(a, s)
    BY <1>3, LiveIsIndex, LiveIsAt
  <2> QED
    BY <1>3, <2>1 DEF WellFormed
<1>4. IsAllocator(nodes, IsNode) /\ nodes.size <= MaxNodes
  <2>1. \A s \in Live(nodes) : IsNode(nodes.slots[s])
    BY <1>1, <1>2, <1>3 DEF Typed, NodeType, IsNode
  <2> QED
    BY <1>1, <1>2, <1>3, <2>1 DEF IsAllocator, Typed
<1>5. IsAllocator(open_files, IsHandle)
  <2>1. \A s \in Live(open_files) : IsHandle(open_files.slots[s])
    BY <1>1, <1>2, <1>3 DEF FdsOK, HandleType, IsHandle
  <2> QED
    BY <1>2, <1>3, <2>1 DEF IsAllocator
<1>6. IsAllocator(fds, IsDescriptor)
  <2>1. \A s \in Live(fds) : s \in 0 .. MaxFds - 1
    BY <1>1, <1>2, <1>3, KernelProxyAssumption DEF Index
  <2>2. \A s \in Live(fds) : IsDescriptor(fds.slots[s])
    BY <1>1, <1>2, <1>3, <2>1 DEF FdsOK, IsDescriptor
  <2> QED
    BY <1>2, <1>3, <2>2 DEF IsAllocator
<1> QED
  BY <1>1, <1>4, <1>5, <1>6 DEF TypeOK

\* FdsOK says more than FdsMatchHandles.
LEMMA FdsOKMatch == FdsOK(fds, open_files) => FdsMatchHandles
<1> SUFFICES ASSUME FdsOK(fds, open_files) PROVE FdsMatchHandles
  OBVIOUS
<1>1. /\ Live(fds) = Live(open_files)
      /\ \A d \in Live(fds) : At(fds, d).handle = d
      /\ \A h \in Live(open_files) : /\ At(open_files, h).use_count = 1
                                     /\ At(open_files, h) # NULL
  BY HandleNotNull DEF FdsOK, HandleType
<1> QED
  BY <1>1 DEF FdsMatchHandles

LEMMA TypeStep == TypeInv /\ [Next]_vars => TypeInv'
<1> SUFFICES ASSUME TypeInv, [Next]_vars PROVE TypeInv'
  OBVIOUS
<1>1. Basic /\ fds.size <= MaxFds
  BY DEF TypeInv
<1>2. fds.size \in Nat /\ AllocSlot(fds) \in Int
  <2>1. WellFormed(fds)
    BY <1>1 DEF Basic, FdsOK
  <2>2. fds.size \in Nat
    BY <2>1 DEF WellFormed
  <2>3. [handle |-> 0] # NULL
    BY HandleNotNull
  <2>4. AllocSlot(fds) \in 0 .. fds.size
    BY <2>1, <2>3, AllocFacts
  <2> QED
    BY <2>2, <2>4
<1>3. ASSUME NEW path \in Paths, NEW flags \in {0, 1}, Open(path, flags)
      PROVE  TypeInv'
  <2>1. path \in Seq(Names)
    BY PathType
  <2>2. AllocSlot(fds) < MaxFds /\ path # <<>> /\ OpenHandle(path, flags)
    BY <1>3 DEF Open
  <2>3. /\ Basic'
        /\ fds'.size = fds.size \/ fds'.size = AllocSlot(fds) + 1
    BY <1>1, <2>1, <2>2, OpenHandleBasic
  <2>4. fds'.size <= MaxFds
    BY <1>1, <1>2, <2>2, <2>3, KernelProxyAssumption
  <2> QED
    BY <2>3, <2>4 DEF TypeInv
<1>4. ASSUME NEW flags \in {0, 1}, OpenRoot(flags)
      PROVE  TypeInv'
  <2>1. /\ Basic'
        /\ fds'.size = fds.size \/ fds'.size = AllocSlot(fds) + 1
    BY <1>1, <1>4, OpenRootBasic
  <2>2. AllocSlot(fds) < MaxFds
    BY <1>4 DEF OpenRoot
  <2>3. fds'.size <= MaxFds
    BY <1>1, <1>2, <2>1, <2>2, KernelProxyAssumption
  <2> QED
    BY <2>1, <2>3 DEF TypeInv
<1>5. CASE Call
  <2>1. Basic' /\ fds'.size = fds.size
    BY <1>1, <1>5, CallBasic
  <2> QED
    BY <1>1, <2>1 DEF TypeInv
<1>6. CASE UNCHANGED vars
  BY <1>1, <1>6 DEF vars, TypeInv, Basic
<1> QED
  BY <1>3, <1>4, <1>5, <1>6 DEF Next, Call

(***************************************************************************)
(* The tables hold what they should and every number in them is in range,  *)
(* whatever calls a program makes.                                         *)
(***************************************************************************)
THEOREM TypeTheorem == Spec => []TypeOK
<1>1. Init => TypeInv
  BY InitBasic, KernelProxyAssumption DEF TypeInv
<1> QED
  BY <1>1, TypeStep, TypeInvType, PTL DEF Spec

(***************************************************************************)
(* Descriptors and handles stay one to one, also when directories are      *)
(* removed under them: OpenHandle() fills both tables and close() empties  *)
(* both, at the same number.                                               *)
(***************************************************************************)
THEOREM FdsTheorem == Spec => []FdsMatchHandles
<1>1. Init => TypeInv
  BY InitBasic, KernelProxyAssumption DEF TypeInv
<1>2. TypeInv => FdsMatchHandles
  BY FdsOKMatch DEF TypeInv, Basic
<1> QED
  BY <1>1, <1>2, TypeStep, PTL DEF Spec

-------------------------------------------------------------------------------
(* What the calls keep as long as no directory in use is removed.          *)

LEMMA NotFoundOrCrashed ==
    ASSUME NEW a, Typed(a)
    PROVE  CRASHED \notin Live(a) \cup {NOT_FOUND}
  BY LiveIsIndex DEF Typed, CRASHED, NOT_FOUND

\* No walk in a tree follows a NULL.
LEMMA GetNodeInTree ==
    ASSUME NEW a, Typed(a), Tree(a), NEW path \in Seq(Names)
    PROVE  /\ GetNode(a, path).fs = a /\ GetNode(a, path).err # "CRASH"
           /\ GetNode(a, path).err = "OK" => GetNode(a, path).slot \in Live(a)
<1>1. GetSlot(a, path) # CRASHED
  BY GetSlotInTree, NotFoundOrCrashed
<1> QED
  BY <1>1, GetNodeFacts

LEMMA FoundWhole ==
    ASSUME NEW a, NEW u, Whole(a, u), IsFiniteSet(DOMAIN u), NEW path \in Seq(Names),
           path # <<>>, NEW flags, Found(a, path, flags).fs.size <= MaxNodes
    PROVE  LET r == Found(a, path, flags)
           IN  Whole(r.fs, u) /\ r.err # "CRASH"
<1>1. Typed(a) /\ Tree(a)
  BY DEF Whole
<1>2. CASE flags # 0
  <2>1. PICK r : r = Creat(a, path)
    OBVIOUS
  <2>2. r.fs.size <= MaxNodes /\ r = Found(a, path, flags)
    BY <1>2, <2>1 DEF Found
  <2>3. GetSlot(a, path) # CRASHED /\ GetParentSlot(a, path) # CRASHED
    BY <1>1, GetSlotInTree, NotFoundOrCrashed
  <2>4. \/ MakesChild(a, path, FALSE, 1, r)
        \/ r.fs = a /\ r.err # "CRASH"
    BY <1>1, <2>1, <2>3, CreatFacts
  <2>5. ASSUME MakesChild(a, path, FALSE, 1, r)
        PROVE  Whole(r.fs, u) /\ r.err = "OK"
    BY <2>2, <2>5, AddsWhole
  <2> QED
    BY <2>2, <2>4, <2>5
<1>3. CASE flags = 0
  <2>1. Found(a, path, flags) = GetNode(a, path)
    BY <1>3 DEF Found
  <2> QED
    BY <1>1, <2>1, GetNodeInTree
<1> QED
  BY <1>2, <1>3

LEMMA MkdirWhole ==
    ASSUME NEW a, NEW u, Whole(a, u), IsFiniteSet(DOMAIN u), NEW path \in Seq(Names),
           Mkdir(a, path).fs.size <= MaxNodes
    PROVE  Whole(Mkdir(a, path).fs, u) /\ Mkdir(a, path).err # "CRASH"
<1>1. Typed(a) /\ Tree(a)
  BY DEF Whole
<1>2. PICK r : r = Mkdir(a, path)
  OBVIOUS
<1>3. /\ GetSlot(a, path) # CRASHED /\ GetParentSlot(a, path) # CRASHED
      /\ \/ GetParentSlot(a, path) = NOT_FOUND
         \/ At(a, GetParentSlot(a, path)) # NULL
  <2>1. \A s \in Live(a) : At(a, s) # NULL
    BY <1>1, NodeNotNull DEF Typed
  <2> QED
    BY <1>1, <2>1, GetSlotInTree, NotFoundOrCrashed
<1>4. \/ MakesChild(a, path, TRUE, 0, r)
      \/ r.fs = a /\ r.err # "CRASH"
  BY <1>1, <1>2, <1>3, MkdirFacts
<1>5. ASSUME MakesChild(a, path, TRUE, 0, r)
      PROVE  Whole(r.fs, u) /\ r.err = "OK"
  BY <1>2, <1>5, AddsWhole
<1> QED
  BY <1>2, <1>4, <1>5

LEMMA MountCallWhole ==
    ASSUME NEW r, MountCall(r), NEW u, Whole(r.fs, u), r.err # "CRASH"
    PROVE  Whole(nodes', u) /\ open_files' = open_files /\ status' = "ok"
  BY DEF MountCall

LEMMA OpenHandleWhole ==
    ASSUME Basic, Whole(nodes, Users(open_files)), NEW path \in Seq(Names), path # <<>>,
           NEW flags, OpenHandle(path, flags)
    PROVE  Whole(nodes', Users(open_files')) /\ status' = "ok"
<1>0. /\ FdsOK(fds, open_files) /\ Typed(nodes)
      /\ IsFiniteSet(DOMAIN Users(open_files))
  BY UsersFinite DEF Basic, FdsOK
<1>1. PICK r : r = Found(nodes, path, flags)
  OBVIOUS
<1>2. \/ r.err # "OK" /\ MountCall(r)
      \/ /\ r.err = "OK" /\ r.fs.size <= MaxNodes
         /\ nodes' = Ref(r.fs, r.slot)
         /\ open_files' = Alloc(open_files, [node |-> r.slot, use_count |-> 1])
         /\ status' = "ok"
  BY <1>1, Zenon DEF OpenHandle, Found
<1>3. /\ Whole(r.fs, Users(open_files)) /\ r.err # "CRASH"
      /\ r.err = "OK" => r.slot \in Live(r.fs) /\ r.slot \in 0 .. MaxNodes - 1
  <2>1. r.fs.size <= MaxNodes
    BY <1>2 DEF MountCall
  <2> QED
    BY <1>0, <1>1, <2>1, FoundType, FoundWhole
<1>4. CASE r.err # "OK" /\ MountCall(r)
  BY <1>3, <1>4, MountCallWhole
<1>5. CASE /\ r.err = "OK" /\ r.fs.size <= MaxNodes
           /\ nodes' = Ref(r.fs, r.slot)
           /\ open_files' = Alloc(open_files, [node |-> r.slot, use_count |-> 1])
           /\ status' = "ok"
  <2>1. PICK a, s : a = r.fs /\ s = r.slot
    OBVIOUS
  <2>2. PICK h, p : /\ h = AllocSlot(open_files)
                    /\ p = Alloc(open_files, [node |-> s, use_count |-> 1])
    OBVIOUS
  <2>3. More(Users(open_files), Users(p), h) /\ Users(p)[h] = s
    <3>1. s \in 0 .. MaxNodes - 1
      BY <1>3, <1>5, <2>1
    <3> QED
      BY <1>0, <2>2, <3>1, OpenMore
  <2>4. Whole(Ref(a, s), Users(p))
    BY <1>0, <1>3, <1>5, <2>1, <2>3, RefWhole
  <2>5. nodes' = Ref(a, s) /\ open_files' = p
    BY <1>5, <2>1, <2>2, Zenon
  <2> QED
    BY <1>5, <2>4, <2>5
<1> QED
  BY <1>2, <1>4, <1>5

LEMMA CloseStepWhole ==
    ASSUME Basic, Whole(nodes, Users(open_files)), NEW fd \in Index(fds), Close(fd)
    PROVE  Whole(nodes', Users(open_files')) /\ status' = "ok"
<1>1. /\ fd \in Live(fds)
      /\ nodes' = Unref(nodes, At(open_files, fd).node)
      /\ fds' = Free(fds, fd) /\ open_files' = Free(open_files, fd)
      /\ status' = status
  BY CloseSteps
<1>2. status = "ok"
  BY DEF Close
<1>3. PICK o : o = Free(open_files, fd)
  OBVIOUS
<1>4. WellFormed(o) /\ Live(o) = Live(open_files) \ {fd} /\ fd \in Live(open_files)
      /\ \A t \in Live(o) : At(o, t) = At(open_files, t)
  BY <1>1, <1>3, CloseFds DEF Basic, FdsOK
<1>5. /\ IsFiniteSet(DOMAIN Users(o)) /\ More(Users(o), Users(open_files), fd)
      /\ Users(open_files)[fd] = At(open_files, fd).node
  BY <1>4, UsersFinite DEF More, Users
<1>6. Whole(Unref(nodes, At(open_files, fd).node), Users(o))
  BY <1>5, CloseWhole
<1> QED
  BY <1>1, <1>2, <1>3, <1>6

\* The program removes neither the root nor a directory it has open.
Guarded == Unguarded \cap {"remove_root", "rmdir_open"} = {}

LEMMA RemoveWhole ==
    ASSUME Basic, Whole(nodes, Users(open_files)), NEW path \in Seq(Names),
           Remove(path) \/ RmdirPath(path), Guarded
    PROVE  Whole(nodes', Users(open_files')) /\ status' = "ok"
<1>0. Typed(nodes) /\ Tree(nodes) /\ IsFiniteSet(DOMAIN Users(open_files))
  BY UsersFinite DEF Whole, Basic, FdsOK
<1>1. PICK found : found = GetNode(nodes, path)
  OBVIOUS
<1>2. /\ found.fs = nodes /\ found.err # "CRASH"
      /\ found.err = "OK" => found.slot \in Live(nodes)
  BY <1>0, <1>1, GetNodeInTree
<1>3. \/ MountCall(found)
      \/ /\ found.err = "OK" /\ MayRmdir(found.slot)
         /\ MountCall(Rmdir(nodes, found.slot))
      \/ MountCall(Unlink(nodes, path))
  BY <1>1, Zenon DEF Remove, RmdirPath
<1>4. CASE MountCall(found)
  BY <1>2, <1>4, MountCallWhole
<1>5. CASE /\ found.err = "OK" /\ MayRmdir(found.slot)
           /\ MountCall(Rmdir(nodes, found.slot))
  <2>1. PICK s, r : s = found.slot /\ r = Rmdir(nodes, s)
    OBVIOUS
  <2>2. s \in Live(nodes) /\ MayRmdir(s) /\ MountCall(r)
    BY <1>2, <1>5, <2>1
  <2>3. /\ r.err # "CRASH"
        /\ r.fs # nodes => At(nodes, s).is_dir /\ Live(r.fs) = Live(nodes) \ {s}
        /\ r.fs = nodes \/ (s # 0 /\ On(Users(open_files), s) = {}) => Whole(r.fs, Users(open_files))
    BY <2>1, <2>2, RmdirWhole
  <2>4. s # 0 /\ On(Users(open_files), s) = {}
    BY <2>2, OnUsers DEF Guarded, MayRmdir, HandlesOn
  <2> QED
    BY <2>2, <2>3, <2>4, MountCallWhole
<1>6. CASE MountCall(Unlink(nodes, path))
  <2>1. Whole(Unlink(nodes, path).fs, Users(open_files)) /\ Unlink(nodes, path).err # "CRASH"
    BY <1>0, UnlinkWhole
  <2> QED
    BY <1>6, <2>1, MountCallWhole
<1> QED
  BY <1>3, <1>4, <1>5, <1>6

LEMMA CallWhole ==
    ASSUME Basic, Whole(nodes, Users(open_files)), Call, Guarded
    PROVE  Whole(nodes', Users(open_files')) /\ status' = "ok"
<1> DEFINE Good == Whole(nodes', Users(open_files')) /\ status' = "ok"
<1>0. Typed(nodes) /\ Tree(nodes) /\ IsFiniteSet(DOMAIN Users(open_files))
  BY UsersFinite DEF Whole, Basic, FdsOK
<1>1. ASSUME NEW fd \in Index(fds), Close(fd)
      PROVE  Good
  BY <1>1, CloseStepWhole
<1>2. ASSUME NEW path \in Paths, Remove(path) \/ RmdirPath(path)
      PROVE  Good
  BY <1>2, PathType, RemoveWhole
<1>3. ASSUME NEW path \in Paths, MkdirPath(path)
      PROVE  Good
  <2>1. MountCall(Mkdir(nodes, path)) /\ Mkdir(nodes, path).fs.size <= MaxNodes
    BY <1>3 DEF MkdirPath, MountCall
  <2>2. Whole(Mkdir(nodes, path).fs, Users(open_files)) /\ Mkdir(nodes, path).err # "CRASH"
    BY <1>0, <2>1, PathType, MkdirWhole
  <2> QED
    BY <2>1, <2>2, MountCallWhole
<1>4. ASSUME NEW path \in Paths, StatPath(path)
      PROVE  Good
  <2>1. GetNode(nodes, path).fs = nodes /\ GetNode(nodes, path).err # "CRASH"
    BY <1>0, PathType, GetNodeInTree
  <2>2. MountCall(GetNode(nodes, path))
    BY <1>4 DEF StatPath
  <2> QED
    BY <2>1, <2>2, MountCallWhole
<1>5. ASSUME NEW fd \in Index(fds), NEW room \in {1, MaxNodes}, GetdentsFd(fd, room)
      PROVE  Good
  <2>1. PICK s, r : /\ s = At(open_files, At(fds, fd).handle).node
                    /\ r = Getdents(nodes, s, room)
    OBVIOUS
  <2>2. MountCall(r) /\ At(fds, fd) # NULL
    BY <1>5, <2>1 DEF GetdentsFd
  <2>3. s \in Live(nodes)
    <3>1. fd \in Live(fds)
      BY <2>2, FdLive DEF Basic, FdsOK
    <3>2. At(fds, fd).handle = fd /\ fd \in Live(open_files)
      BY <3>1, CloseFds DEF Basic
    <3> QED
      BY <2>1, <3>2 DEF Whole, Held, Users
  <2>4. \A i \in 1 .. Len(Kids(nodes, s)) : At(nodes, Kids(nodes, s)[i]) # NULL
    BY <1>0, <2>3, NodeNotNull DEF Tree, KidsOK, Typed
  <2>5. r.fs = nodes /\ r.err # "CRASH"
    BY <2>1, <2>4, GetdentsFacts
  <2> QED
    BY <2>2, <2>5, MountCallWhole
<1> QED
  BY <1>1, <1>2, <1>3, <1>4, <1>5 DEF Call

-------------------------------------------------------------------------------
(* The properties.                                                         *)

LEMMA LinkIs ==
    ASSUME NEW s
    PROVE  /\ \A l \in Links(s) : \E d \in Live(nodes) :
                  \E i \in 1 .. Len(Kids(nodes, d)) :
                      Kids(nodes, d)[i] = s /\ l = <<d, i>>
           /\ \A d \in Live(nodes) : \A i \in 1 .. Len(Kids(nodes, d)) :
                  Kids(nodes, d)[i] = s => <<d, i>> \in Links(s)
  BY DEF Links, Kids

\* In a tree an inode has at most one entry, in the directory that is its
\* parent.
LEMMA LinksInTree ==
    ASSUME Tree(nodes), NEW s
    PROVE  /\ Links(s) # {} <=> Linked(nodes, s)
           /\ \A l \in Links(s) : /\ l[1] = At(nodes, s).parent /\ Links(s) = {l}
                                  /\ s \in Live(nodes) \ {0}
           /\ Cardinality(Links(s)) = IF Linked(nodes, s) THEN 1 ELSE 0
<1>1. Links(s) # {} <=> Linked(nodes, s)
  <2>1. ASSUME NEW l \in Links(s) PROVE Linked(nodes, s)
    BY <2>1, LinkIs DEF Linked, IsKid
  <2>2. ASSUME Linked(nodes, s) PROVE Links(s) # {}
    BY <2>2, LinkIs DEF Linked, IsKid
  <2> QED
    BY <2>1, <2>2
<1>2. ASSUME NEW l \in Links(s)
      PROVE  /\ l[1] = At(nodes, s).parent /\ s \in Live(nodes) \ {0}
             /\ l = <<l[1], l[2]>> /\ l[1] \in Live(nodes)
             /\ l[2] \in 1 .. Len(Kids(nodes, l[1])) /\ Kids(nodes, l[1])[l[2]] = s
  <2>1. PICK d \in Live(nodes) : \E i \in 1 .. Len(Kids(nodes, d)) :
            Kids(nodes, d)[i] = s /\ l = <<d, i>>
    BY <1>2, LinkIs
  <2>2. PICK i \in 1 .. Len(Kids(nodes, d)) : Kids(nodes, d)[i] = s /\ l = <<d, i>>
    BY <2>1
  <2>3. At(nodes, s).parent = d /\ s \in Live(nodes) \ {0}
    BY <2>2 DEF Tree, KidsOK
  <2> QED
    BY <2>2, <2>3
<1>3. ASSUME NEW l \in Links(s), NEW m \in Links(s)
      PROVE  l = m
  <2>1. l[1] = m[1] /\ l = <<l[1], l[2]>> /\ m = <<m[1], m[2]>>
    BY <1>2
  <2>2. KidsOK(nodes, l[1])
    BY <1>2 DEF Tree
  <2>3. l[2] = m[2]
    BY <1>2, <2>1, <2>2, KidsDiffer
  <2> QED
    BY <2>1, <2>3
<1>4. \A l \in Links(s) : Links(s) = {l}
  BY <1>3
<1>5. Cardinality(Links(s)) = IF Linked(nodes, s) THEN 1 ELSE 0
  <2>1. CASE Links(s) = {}
    BY <1>1, <2>1, FS_EmptySet
  <2>2. CASE Links(s) # {}
    <3>1. PICK l : Links(s) = {l}
      BY <1>4, <2>2
    <3>2. Cardinality({l}) = 1
      BY FS_Singleton
    <3> QED
      BY <1>1, <2>2, <3>1, <3>2
  <2> QED
    BY <2>1, <2>2
<1> QED
  BY <1>1, <1>2, <1>4, <1>5

LEMMA WholeTree ==
    ASSUME NEW u, Whole(nodes, u)
    PROVE  NoDanglingChild /\ TreeWellFormed
<1>1. Typed(nodes) /\ Tree(nodes)
  BY DEF Whole
<1>2. \A s \in Live(nodes) : At(nodes, s) # NULL
  BY <1>1, NodeNotNull DEF Typed
<1>3. NoDanglingChild
  BY <1>1, <1>2 DEF NoDanglingChild, Tree, KidsOK, Kids
<1>4. TreeWellFormed
  <2>1. At(nodes, 0) # NULL /\ At(nodes, 0).is_dir
    BY <1>1, <1>2 DEF Tree
  <2>2. Links(0) = {}
    BY <1>1, LinksInTree
  <2>3. ASSUME NEW s \in Live(nodes)
        PROVE  /\ \A l \in Links(s) : l[1] = At(nodes, s).parent /\ Links(s) = {l}
               /\ At(nodes, s).is_dir /\ s # 0 => Links(s) # {}
    <3>1. At(nodes, s).is_dir /\ s # 0 => Linked(nodes, s)
      BY <1>1 DEF Tree
    <3> QED
      BY <1>1, <3>1, LinksInTree
  <2>4. ASSUME NEW s \in Live(nodes), NEW t \in Live(nodes) \ {s},
               Links(s) # {}, Links(t) # {},
               At(nodes, s).parent = At(nodes, t).parent
        PROVE  At(nodes, s).name # At(nodes, t).name
    <3>1. PICK d \in Live(nodes), e \in Live(nodes) :
              IsKid(nodes, d, s) /\ IsKid(nodes, e, t)
      BY <1>1, <2>4, LinksInTree DEF Linked
    <3>2. d = e
      BY <1>1, <2>4, <3>1, LinkedByParent DEF Tree
    <3>3. KidsOK(nodes, d)
      BY <1>1 DEF Tree
    <3> QED
      BY <3>1, <3>2, <3>3 DEF KidsOK, IsKid
  <2> QED
    BY <2>1, <2>2, <2>3, <2>4 DEF TreeWellFormed
<1> QED
  BY <1>3, <1>4

LEMMA WholeIntact ==
    ASSUME Whole(nodes, Users(open_files))
    PROVE  NoDanglingChild /\ TreeWellFormed /\ UseCountMatches
<1>1. /\ Typed(nodes) /\ Tree(nodes)
      /\ \A s \in Live(nodes) : Counted(nodes, Users(open_files), s)
  BY DEF Whole
<1>2. \A s : HandlesOn(s) = On(Users(open_files), s)
  BY OnUsers DEF HandlesOn
<1>3. \A s : Cardinality(Links(s)) = IF Linked(nodes, s) THEN 1 ELSE 0
  BY <1>1, LinksInTree
<1>4. UseCountMatches
  BY <1>1, <1>2, <1>3 DEF UseCountMatches, Counted, Uses
<1> QED
  BY <1>4, WholeTree

LEMMA InitWhole ==
    ASSUME Init
    PROVE  Whole(nodes, Users(open_files))
<1>1. /\ Typed(nodes) /\ Live(nodes) = {0}
      /\ At(nodes, 0) = MemNode("/", TRUE, NOT_FOUND, 0)
      /\ Live(open_files) = {}
  BY NewMountFacts, InitBasic DEF Init
<1>2. At(nodes, 0).is_dir /\ Kids(nodes, 0) = <<>>
  BY <1>1 DEF MemNode, Kids
<1>3. Tree(nodes)
  BY <1>1, <1>2 DEF Tree, KidsOK
<1> QED
  BY <1>1, <1>2, <1>3 DEF Whole, Held, Counted, Users

\* The inductive invariant of such programs.
Inv == Basic /\ Whole(nodes, Users(open_files))

\* open("/") stops or opens some name: either way the tree stays whole.
LEMMA OpenRootWhole ==
    ASSUME Inv, NEW flags, OpenRoot(flags)
    PROVE  Whole(nodes', Users(open_files')) /\ status' # "crashed"
<1>1. Basic /\ Whole(nodes, Users(open_files))
  BY DEF Inv
<1>2. CASE status' = "no_name" /\ UNCHANGED <<nodes, fds, open_files>>
  BY <1>1, <1>2
<1>3. CASE \E n \in Names : OpenHandle(<<n>>, flags)
  <2>1. PICK n \in Names : OpenHandle(<<n>>, flags)
    BY <1>3
  <2>2. PICK path : path = <<n>>
    OBVIOUS
  <2>3. path \in Seq(Names) /\ path # <<>> /\ OpenHandle(path, flags)
    BY <2>1, <2>2, NamePath
  <2> QED
    BY <1>1, <2>3, OpenHandleWhole
<1> QED
  BY <1>2, <1>3 DEF OpenRoot

LEMMA InvStep ==
    ASSUME Guarded, Inv, [Next]_vars
    PROVE  Inv' /\ (NoCrash => NoCrash')
<1> DEFINE Good == /\ Basic' /\ Whole(nodes', Users(open_files'))
                   /\ status # "crashed" => status' # "crashed"
<1> SUFFICES Good
  BY DEF Inv, NoCrash
<1>0. Basic /\ Whole(nodes, Users(open_files))
  BY DEF Inv
<1>1. ASSUME NEW path \in Paths, NEW flags \in {0, 1}, Open(path, flags)
      PROVE  Good
  <2>1. path \in Seq(Names) /\ path # <<>> /\ OpenHandle(path, flags)
    BY <1>1, PathType DEF Open
  <2> QED
    BY <1>0, <2>1, OpenHandleBasic, OpenHandleWhole
<1>2. ASSUME NEW flags \in {0, 1}, OpenRoot(flags)
      PROVE  Good
  BY <1>0, <1>2, OpenRootBasic, OpenRootWhole
<1>3. CASE Call
  BY <1>0, <1>3, CallBasic, CallWhole
<1>4. CASE UNCHANGED vars
  BY <1>0, <1>4 DEF vars, Basic
<1> QED
  BY <1>1, <1>2, <1>3, <1>4 DEF Next, Call

LEMMA InvHolds ==
    ASSUME Guarded
    PROVE  Spec => []Inv
<1>1. Init => Inv
  BY InitBasic, InitWhole DEF Inv
<1>2. Inv /\ [Next]_vars => Inv'
  BY InvStep
<1> QED
  BY <1>1, <1>2, PTL DEF Spec

(***************************************************************************)
(* In a program that removes neither the root nor a directory it has open, *)
(* every directory entry leads to a live inode.                            *)
(***************************************************************************)
THEOREM ChildTheorem ==
    ASSUME Guarded
    PROVE  Spec => []NoDanglingChild
<1>1. Inv => NoDanglingChild
  BY WholeIntact DEF Inv
<1> QED
  BY <1>1, InvHolds, PTL

(***************************************************************************)
(* The inodes of such a program form a tree: Creat() and Mkdir() add a     *)
(* leaf under a name that is new there, Unlink() and Rmdir() take away the *)
(* one entry of a leaf.                                                    *)
(***************************************************************************)
THEOREM TreeTheorem ==
    ASSUME Guarded
    PROVE  Spec => []TreeWellFormed
<1>1. Inv => TreeWellFormed
  BY WholeIntact DEF Inv
<1> QED
  BY <1>1, InvHolds, PTL

(***************************************************************************)
(* use_count_ of a file is its entry plus its handles and never zero:      *)
(* Unref() frees it exactly when the last of them goes.                    *)
(***************************************************************************)
THEOREM CountTheorem ==
    ASSUME Guarded
    PROVE  Spec => []UseCountMatches
<1>1. Inv => UseCountMatches
  BY WholeIntact DEF Inv
<1> QED
  BY <1>1, InvHolds, PTL

(***************************************************************************)
(* Such a program never makes the mount follow a NULL pointer: every slot  *)
(* number that a walk, an entry or a handle leads to is that of an inode.  *)
(***************************************************************************)
THEOREM CrashTheorem ==
    ASSUME Guarded
    PROVE  Spec => []NoCrash
<1> DEFINE Runs == Inv /\ NoCrash
<1>1. Init => Runs
  BY InitBasic, InitWhole DEF Init, Inv, NoCrash
<1>2. Runs /\ [Next]_vars => Runs'
  BY InvStep
<1> QED
  BY <1>1, <1>2, PTL DEF Spec

-------------------------------------------------------------------------------
(* What the paths of a tree name.                                          *)

\* A path is its parent and its last name.
LEMMA PathEnds ==
    ASSUME NEW S, NEW p \in Seq(S), p # <<>>
    PROVE  /\ Len(p) \in Nat \ {0} /\ p[Len(p)] \in S
           /\ ParentPath(p) \in Seq(S) /\ Len(ParentPath(p)) = Len(p) - 1
           /\ p = Append(ParentPath(p), p[Len(p)])
<1>1. Len(p) \in Nat \ {0} /\ p[Len(p)] \in S
  OBVIOUS
<1>2. ParentPath(p) = SubSeq(p, 1, Len(p) - 1)
  BY DEF ParentPath
<1>3. /\ Len(ParentPath(p)) = Len(p) - 1
      /\ \A i \in 1 .. Len(p) - 1 : ParentPath(p)[i] = p[i]
  <2>1. PICK n : n = Len(p)
    OBVIOUS
  <2>2. n - 1 \in 0 .. n /\ 1 \in 1 .. n + 1 /\ n \in Nat \ {0}
    BY <1>1, <2>1
  <2>3. /\ Len(SubSeq(p, 1, n - 1)) = IF 1 <= n - 1 THEN n - 1 - 1 + 1 ELSE 0
        /\ \A i \in 1 .. n - 1 - 1 + 1 : SubSeq(p, 1, n - 1)[i] = p[1 + i - 1]
    BY <2>1, <2>2, SubSeqProperties
  <2>4. n - 1 - 1 + 1 = n - 1 /\ \A i \in 1 .. n - 1 : 1 + i - 1 = i
    BY <2>2
  <2>5. \A i \in 1 .. n - 1 : SubSeq(p, 1, n - 1)[i] = p[i]
    BY <2>3, <2>4, Zenon
  <2>6. Len(SubSeq(p, 1, n - 1)) = n - 1
    BY <2>2, <2>3, <2>4
  <2> QED
    BY <1>2, <2>1, <2>5, <2>6, Zenon
<1>4. ParentPath(p) \in Seq(S)
  BY ParentPathType
<1>5. PICK q, x : q = ParentPath(p) /\ x = p[Len(p)]
  OBVIOUS
<1>6. /\ q \in Seq(S) /\ x \in S /\ Len(q) = Len(p) - 1
      /\ \A i \in 1 .. Len(p) - 1 : q[i] = p[i]
      /\ p[Len(p)] = x
  BY <1>1, <1>3, <1>4, <1>5
<1>7. Append(q, x) = p
  BY <1>1, <1>6
<1> QED
  BY <1>1, <1>3, <1>4, <1>5, <1>7

\* The child of that name of a directory, which is the only one.
LEMMA StepTo ==
    ASSUME NEW a, Typed(a), Tree(a), NEW d \in Live(a), NEW name, NEW c,
           IsKid(a, d, c), At(a, c).name = name
    PROVE  WalkStep(a, d, name) = c
<1>1. KidsOK(a, d) /\ At(a, d).is_dir
  <2>1. Kids(a, d) # <<>>
    BY DEF IsKid
  <2> QED
    BY <2>1 DEF Tree
<1>2. PICK w : w = WalkStep(a, d, name)
  OBVIOUS
<1>3. PICK i \in 1 .. Len(Kids(a, d)) : Kids(a, d)[i] = c
  BY DEF IsKid
<1>4. IsKid(a, d, w) /\ At(a, w).name = name
  BY <1>1, <1>2, <1>3, WalkStepInTree
<1>5. PICK j \in 1 .. Len(Kids(a, d)) : Kids(a, d)[j] = w
  BY <1>4 DEF IsKid
<1>6. i = j
  BY <1>1, <1>3, <1>4, <1>5 DEF KidsOK
<1> QED
  BY <1>2, <1>3, <1>5, <1>6

\* GetSlot() of a path is a round from GetSlot() of its parent.
LEMMA LookupStep ==
    ASSUME NEW a, Typed(a), Tree(a), NEW path \in Seq(Names)
    PROVE  /\ GetSlot(a, path) \in Live(a) \cup {NOT_FOUND}
           /\ path = <<>> => GetSlot(a, path) = 0
           /\ path # <<>> =>
                  /\ GetSlot(a, path) # 0
                  /\ GetSlot(a, path) =
                         WalkStep(a, GetSlot(a, ParentPath(path)), path[Len(path)])
<1>1. ParentPath(path) \in Seq(Names)
  BY ParentPathType
<1>2. GetSlot(a, ParentPath(path)) = WalkEnd(a, ParentPath(path))
  BY <1>1, WalkInTree
<1>3. /\ GetSlot(a, path) = WalkEnd(a, path)
      /\ WalkEnd(a, path) \in Live(a) \cup {NOT_FOUND}
      /\ path # <<>> => WalkEnd(a, path) # 0
  BY WalkInTree
<1>4. /\ path = <<>> => WalkEnd(a, path) = 0
      /\ path # <<>> => WalkEnd(a, path) =
             WalkStep(a, WalkEnd(a, ParentPath(path)), path[Len(path)])
  BY WalkEndStep
<1> QED
  BY <1>2, <1>3, <1>4

\* A path that exists has a parent that exists and lists it.
LEMMA LookupKid ==
    ASSUME NEW a, Typed(a), Tree(a), NEW path \in Seq(Names), path # <<>>,
           GetSlot(a, path) \in Live(a)
    PROVE  LET d == GetSlot(a, ParentPath(path))
           IN  /\ d \in Live(a) /\ At(a, d).is_dir
               /\ IsKid(a, d, GetSlot(a, path))
               /\ At(a, GetSlot(a, path)).name = path[Len(path)]
               /\ At(a, GetSlot(a, path)).parent = d
<1>1. NOT_FOUND \notin Live(a)
  <2>1. Live(a) \subseteq Nat
    BY LiveIsIndex DEF Typed
  <2> QED
    BY <2>1 DEF NOT_FOUND
<1>2. PICK d, s : d = GetSlot(a, ParentPath(path)) /\ s = GetSlot(a, path)
  OBVIOUS
<1>3. /\ d \in Live(a) /\ At(a, d).is_dir
      /\ IsKid(a, d, s) /\ At(a, s).name = path[Len(path)]
  BY <1>1, <1>2, GetSlotInTree DEF GetParentSlot
<1>4. At(a, s).parent = d
  BY <1>3, LinkedByParent DEF Tree
<1> QED
  BY <1>2, <1>3, <1>4

\* Two paths never name the same inode.
LEMMA PathUnique ==
    ASSUME NEW a, Typed(a), Tree(a), NEW p \in Seq(Names), NEW q \in Seq(Names),
           GetSlot(a, p) = GetSlot(a, q), GetSlot(a, p) \in Live(a)
    PROVE  p = q
<1> DEFINE Bad(u, v) == /\ u # v /\ GetSlot(a, u) = GetSlot(a, v)
                        /\ GetSlot(a, u) \in Live(a)
           T == {n \in Nat : \E u, v \in Seq(Names) : Len(u) = n /\ Bad(u, v)}
<1> SUFFICES ASSUME p # q PROVE FALSE
  OBVIOUS
<1>1. T # {}
  <2>1. Len(p) \in Nat /\ Bad(p, q)
    OBVIOUS
  <2> HIDE DEF Bad
  <2> QED
    BY <2>1
<1>2. PICK n \in T : \A y \in T : n <= y
  <2>1. T \in SUBSET Nat
    OBVIOUS
  <2> HIDE DEF T
  <2> QED
    BY <1>1, <2>1, LeastExists
<1>3. n \in Nat /\ \E u, v \in Seq(Names) : Len(u) = n /\ Bad(u, v)
  BY <1>2
<1>4. PICK u, v \in Seq(Names) : Len(u) = n /\ Bad(u, v)
  BY <1>3
<1>5. u # <<>> /\ v # <<>>
  BY <1>4, LookupStep
<1>6. PICK c, d : c = ParentPath(u) /\ d = ParentPath(v)
  OBVIOUS
<1>7. /\ c \in Seq(Names) /\ d \in Seq(Names) /\ Len(c) = n - 1 /\ n # 0
      /\ u = Append(c, u[Len(u)]) /\ v = Append(d, v[Len(v)])
  BY <1>4, <1>5, <1>6, PathEnds
<1>8. /\ GetSlot(a, c) = GetSlot(a, d) /\ GetSlot(a, c) \in Live(a)
      /\ u[Len(u)] = v[Len(v)]
  BY <1>4, <1>5, <1>6, LookupKid
<1>9. Bad(c, d)
  BY <1>4, <1>7, <1>8
<1>10. n - 1 \in Nat /\ ~ (n <= n - 1)
  BY <1>3, <1>7
<1>11. n - 1 \in T
  <2> HIDE DEF Bad
  <2> QED
    BY <1>7, <1>9, <1>10
<1> QED
  BY <1>2, <1>10, <1>11

\* The trees a and b differ in the entry of s in dir at most.
Differ(a, b, dir, s) ==
    /\ \A t \in Live(a) \cap Live(b) :
           At(b, t).name = At(a, t).name /\ At(b, t).is_dir = At(a, t).is_dir
    /\ \A d \in Live(a) \cap Live(b) : \A c :
           d # dir \/ c # s => (IsKid(b, d, c) <=> IsKid(a, d, c))

\* Then a round to any other entry ends at the same inode in both.
LEMMA SameStep ==
    ASSUME NEW a, Typed(a), Tree(a), NEW b, Typed(b), Tree(b), NEW dir, NEW s,
           Differ(a, b, dir, s), NEW d \in Live(a) \cap Live(b), NEW name,
           \/ d # dir
           \/ /\ s \in Live(a) => At(a, s).name # name
              /\ s \in Live(b) => At(b, s).name # name
    PROVE  WalkStep(b, d, name) = WalkStep(a, d, name)
<1>1. PICK u, v : u = WalkStep(a, d, name) /\ v = WalkStep(b, d, name)
  OBVIOUS
<1>2. At(b, d).is_dir = At(a, d).is_dir
  BY DEF Differ
<1>3. CASE u # NOT_FOUND
  <2>1. u \in Live(a) /\ IsKid(a, d, u) /\ At(a, u).name = name
    BY <1>1, <1>3, WalkStepInTree
  <2>2. IsKid(b, d, u)
    BY <2>1 DEF Differ
  <2>3. u \in Live(b)
    BY <2>2, LinkedByParent DEF Tree
  <2>4. At(b, u).name = name
    BY <2>1, <2>3 DEF Differ
  <2> QED
    BY <1>1, <2>2, <2>4, StepTo
<1>4. CASE u = NOT_FOUND /\ v # NOT_FOUND
  <2>1. /\ v \in Live(b) /\ IsKid(b, d, v) /\ At(b, v).name = name
        /\ At(b, d).is_dir
    BY <1>1, <1>4, WalkStepInTree
  <2>2. IsKid(a, d, v)
    BY <2>1 DEF Differ
  <2>3. v \in Live(a)
    BY <2>2, LinkedByParent DEF Tree
  <2>4. At(a, v).name = name
    BY <2>1, <2>3 DEF Differ
  <2> QED
    BY <1>1, <2>2, <2>4, StepTo
<1> QED
  BY <1>1, <1>3, <1>4

\* GetSlot() agrees in two trees outside the set X of paths when each of its
\* rounds does.
RoundsAgree(a, b, X) ==
    \A q \in Seq(Names) \ X :
        /\ q # <<>>
        /\ \/ ParentPath(q) \in X
           \/ GetSlot(b, ParentPath(q)) = GetSlot(a, ParentPath(q))
        => GetSlot(b, q) = GetSlot(a, q)

LEMMA Lockstep ==
    ASSUME NEW a, Typed(a), Tree(a), NEW b, Typed(b), Tree(b), NEW X, <<>> \notin X,
           RoundsAgree(a, b, X)
    PROVE  \A q \in Seq(Names) \ X : GetSlot(b, q) = GetSlot(a, q)
<1> DEFINE Bad(q) == q \in Seq(Names) \ X /\ GetSlot(b, q) # GetSlot(a, q)
           T == {n \in Nat : \E q \in Seq(Names) : Len(q) = n /\ Bad(q)}
<1> SUFFICES ASSUME NEW p \in Seq(Names) \ X, GetSlot(b, p) # GetSlot(a, p)
             PROVE  FALSE
  OBVIOUS
<1>1. T # {}
  <2>1. Len(p) \in Nat /\ Bad(p)
    OBVIOUS
  <2> HIDE DEF Bad
  <2> QED
    BY <2>1
<1>2. PICK n \in T : \A y \in T : n <= y
  <2>1. T \in SUBSET Nat
    OBVIOUS
  <2> HIDE DEF T
  <2> QED
    BY <1>1, <2>1, LeastExists
<1>3. n \in Nat /\ \E q \in Seq(Names) : Len(q) = n /\ Bad(q)
  BY <1>2
<1>4. PICK q \in Seq(Names) : Len(q) = n /\ Bad(q)
  BY <1>3
<1>5. q # <<>>
  BY <1>4, LookupStep
<1>6. ParentPath(q) \in Seq(Names) /\ Len(ParentPath(q)) = n - 1 /\ n # 0
  BY <1>4, <1>5, PathEnds
<1>7. Bad(ParentPath(q))
  BY <1>4, <1>5, <1>6 DEF RoundsAgree
<1>8. n - 1 \in Nat /\ ~ (n <= n - 1)
  BY <1>3, <1>6
<1>9. n - 1 \in T
  <2> HIDE DEF Bad
  <2> QED
    BY <1>6, <1>7, <1>8
<1> QED
  BY <1>2, <1>8, <1>9

LEMMA NotFoundStep ==
    ASSUME NEW a, Typed(a)
    PROVE  /\ NOT_FOUND \notin Live(a)
           /\ \A name : WalkStep(a, NOT_FOUND, name) = NOT_FOUND
<1>1. Live(a) \subseteq Nat
  BY LiveIsIndex DEF Typed
<1> QED
  BY <1>1 DEF WalkStep, NOT_FOUND

\* Trees with the same entries: every path means the same.
LEMMA LookupSame ==
    ASSUME NEW a, Typed(a), Tree(a), NEW b, Typed(b), Tree(b),
           Differ(a, b, NOT_FOUND, NOT_FOUND)
    PROVE  \A q \in Seq(Names) : GetSlot(b, q) = GetSlot(a, q)
<1>1. ASSUME NEW q \in Seq(Names), q # <<>>,
             GetSlot(b, ParentPath(q)) = GetSlot(a, ParentPath(q))
      PROVE  GetSlot(b, q) = GetSlot(a, q)
  <2>1. PICK d : d = GetSlot(a, ParentPath(q))
    OBVIOUS
  <2>2. d \in Live(a) \cap Live(b) \/ d = NOT_FOUND
    BY <1>1, <2>1, PathEnds, LookupStep
  <2>3. /\ GetSlot(a, q) = WalkStep(a, d, q[Len(q)])
        /\ GetSlot(b, q) = WalkStep(b, d, q[Len(q)])
    BY <1>1, <2>1, LookupStep
  <2>4. WalkStep(b, d, q[Len(q)]) = WalkStep(a, d, q[Len(q)])
    BY <2>2, SameStep, NotFoundStep
  <2> QED
    BY <2>3, <2>4
<1>2. \A q \in Seq(Names) \ {} : GetSlot(b, q) = GetSlot(a, q)
  <2>1. PICK X : X = {}
    OBVIOUS
  <2>2. RoundsAgree(a, b, X)
    BY <1>1, <2>1 DEF RoundsAgree
  <2>3. \A q \in Seq(Names) \ X : GetSlot(b, q) = GetSlot(a, q)
    BY <2>1, <2>2, Lockstep
  <2> QED
    BY <2>1, <2>3
<1> QED
  BY <1>2

\* Nothing is below a path.
Leaf(a, path) == \A name : WalkStep(a, GetSlot(a, path), name) = NOT_FOUND

\* Trees that differ in the entry of one path, which has nothing below it:
\* every other path means the same.
LEMMA LookupElsewhere ==
    ASSUME NEW a, Typed(a), Tree(a), NEW b, Typed(b), Tree(b),
           NEW path \in Seq(Names), path # <<>>, NEW dir \in Live(a), NEW s,
           Differ(a, b, dir, s), GetSlot(a, ParentPath(path)) = dir,
           s \in Live(a) => At(a, s).name = path[Len(path)],
           s \in Live(b) => At(b, s).name = path[Len(path)],
           Leaf(a, path), Leaf(b, path)
    PROVE  \A q \in Seq(Names) \ {path} : GetSlot(b, q) = GetSlot(a, q)
<1>1. ASSUME NEW q \in Seq(Names) \ {path}, q # <<>>,
             \/ ParentPath(q) \in {path}
             \/ GetSlot(b, ParentPath(q)) = GetSlot(a, ParentPath(q))
      PROVE  GetSlot(b, q) = GetSlot(a, q)
  <2>1. PICK d : d = GetSlot(a, ParentPath(q))
    OBVIOUS
  <2>2. /\ GetSlot(a, q) = WalkStep(a, GetSlot(a, ParentPath(q)), q[Len(q)])
        /\ GetSlot(b, q) = WalkStep(b, GetSlot(b, ParentPath(q)), q[Len(q)])
    BY <1>1, LookupStep
  <2>3. CASE ParentPath(q) = path
    BY <2>2, <2>3 DEF Leaf
  <2>4. CASE ParentPath(q) # path
    <3>1. GetSlot(b, ParentPath(q)) = d
      BY <1>1, <2>1, <2>4
    <3>2. d \in Live(a) \cap Live(b) \/ d = NOT_FOUND
      BY <1>1, <2>1, <3>1, PathEnds, LookupStep
    <3>3. CASE d = NOT_FOUND
      BY <2>1, <2>2, <3>1, <3>3, NotFoundStep
    <3>4. CASE d \in Live(a) \cap Live(b)
      <4>1. d # dir \/ q[Len(q)] # path[Len(path)]
        <5> SUFFICES ASSUME d = dir, q[Len(q)] = path[Len(path)] PROVE FALSE
          OBVIOUS
        <5>1. ParentPath(q) \in Seq(Names) /\ ParentPath(path) \in Seq(Names)
          BY ParentPathType
        <5>2. ParentPath(q) = ParentPath(path)
          BY <2>1, <3>4, <5>1, PathUnique
        <5>3. q = Append(ParentPath(q), q[Len(q)])
          BY <1>1, PathEnds
        <5>4. path = Append(ParentPath(path), path[Len(path)])
          BY PathEnds
        <5> QED
          BY <1>1, <5>2, <5>3, <5>4
      <4>2. WalkStep(b, d, q[Len(q)]) = WalkStep(a, d, q[Len(q)])
        BY <3>4, <4>1, SameStep
      <4> QED
        BY <2>1, <2>2, <3>1, <4>2
    <3> QED
      BY <3>2, <3>3, <3>4
  <2> QED
    BY <2>3, <2>4
<1>2. PICK X : X = {path}
  OBVIOUS
<1>3. RoundsAgree(a, b, X)
  BY <1>1, <1>2 DEF RoundsAgree
<1>4. \A q \in Seq(Names) \ X : GetSlot(b, q) = GetSlot(a, q)
  BY <1>2, <1>3, Lockstep
<1> QED
  BY <1>2, <1>4

\* Paths shorter than that one mean the same in any case.
LEMMA LookupShorter ==
    ASSUME NEW a, Typed(a), Tree(a), NEW b, Typed(b), Tree(b),
           NEW path \in Seq(Names), path # <<>>, NEW dir \in Live(a), NEW s,
           Differ(a, b, dir, s), GetSlot(a, ParentPath(path)) = dir
    PROVE  GetSlot(b, ParentPath(path)) = dir
<1>1. PICK X : X = {q \in Seq(Names) : Len(q) >= Len(path)}
  OBVIOUS
<1>2. ASSUME NEW q \in Seq(Names), ~ (Len(q) >= Len(path)), q # <<>>,
             GetSlot(b, ParentPath(q)) = GetSlot(a, ParentPath(q))
      PROVE  GetSlot(b, q) = GetSlot(a, q)
  <2>1. PICK d : d = GetSlot(a, ParentPath(q))
    OBVIOUS
  <2>2. d \in Live(a) \cap Live(b) \/ d = NOT_FOUND
    BY <1>2, <2>1, PathEnds, LookupStep
  <2>3. /\ GetSlot(a, q) = WalkStep(a, d, q[Len(q)])
        /\ GetSlot(b, q) = WalkStep(b, d, q[Len(q)])
    BY <1>2, <2>1, LookupStep
  <2>4. d # dir
    <3> SUFFICES ASSUME d = dir PROVE FALSE
      OBVIOUS
    <3>1. ParentPath(q) \in Seq(Names) /\ ParentPath(path) \in Seq(Names)
      BY ParentPathType
    <3>2. ParentPath(q) = ParentPath(path)
      BY <2>1, <3>1, PathUnique
    <3>3. /\ Len(ParentPath(q)) = Len(q) - 1 /\ Len(ParentPath(path)) = Len(path) - 1
          /\ Len(q) \in Nat /\ Len(path) \in Nat
      BY <1>2, PathEnds
    <3> QED
      BY <1>2, <3>2, <3>3
  <2>5. WalkStep(b, d, q[Len(q)]) = WalkStep(a, d, q[Len(q)])
    BY <2>2, <2>4, SameStep, NotFoundStep
  <2> QED
    BY <2>3, <2>5
<1>3. RoundsAgree(a, b, X)
  <2> SUFFICES ASSUME NEW q \in Seq(Names) \ X, q # <<>>,
                      \/ ParentPath(q) \in X
                      \/ GetSlot(b, ParentPath(q)) = GetSlot(a, ParentPath(q))
               PROVE  GetSlot(b, q) = GetSlot(a, q)
    BY DEF RoundsAgree
  <2>1. ~ (Len(q) >= Len(path))
    BY <1>1
  <2>2. ParentPath(q) \notin X
    <3>1. Len(ParentPath(q)) = Len(q) - 1 /\ Len(q) \in Nat /\ Len(path) \in Nat
      BY PathEnds
    <3> QED
      BY <1>1, <2>1, <3>1
  <2> QED
    BY <1>2, <2>1, <2>2
<1>4. <<>> \notin X /\ ParentPath(path) \in Seq(Names) \ X
  <2>1. /\ ParentPath(path) \in Seq(Names) /\ Len(ParentPath(path)) = Len(path) - 1
        /\ Len(path) \in Nat \ {0}
    BY PathEnds
  <2>2. Len(<<>>) = 0
    OBVIOUS
  <2> QED
    BY <1>1, <2>1, <2>2
<1>5. \A q \in Seq(Names) \ X : GetSlot(b, q) = GetSlot(a, q)
  BY <1>3, <1>4, Lockstep
<1> QED
  BY <1>4, <1>5

LEMMA NoKidsLeaf ==
    ASSUME NEW a, Typed(a), Tree(a), NEW path, GetSlot(a, path) \in Live(a),
           Kids(a, GetSlot(a, path)) = <<>>
    PROVE  Leaf(a, path)
<1>1. PICK s : s = GetSlot(a, path)
  OBVIOUS
<1>2. s \in Live(a) /\ \A c : ~ IsKid(a, s, c)
  BY <1>1 DEF IsKid
<1>3. \A name : WalkStep(a, s, name) = NOT_FOUND
  BY <1>2, WalkStepInTree
<1> QED
  BY <1>1, <1>3 DEF Leaf

\* Adding an entry makes its path mean the new inode, and no other.
LEMMA LookupGain ==
    ASSUME NEW a, Typed(a), Tree(a), NEW b, Typed(b), Tree(b),
           NEW path \in Seq(Names), path # <<>>,
           NEW dir \in Live(a) \cap Live(b), NEW s, s \notin Live(a),
           Differ(a, b, dir, s), GetSlot(a, ParentPath(path)) = dir,
           GetSlot(a, path) = NOT_FOUND,
           IsKid(b, dir, s), At(b, s).name = path[Len(path)], Kids(b, s) = <<>>
    PROVE  /\ GetSlot(b, path) = s
           /\ \A q \in Seq(Names) \ {path} : GetSlot(b, q) = GetSlot(a, q)
<1>1. GetSlot(b, ParentPath(path)) = dir
  BY LookupShorter
<1>2. GetSlot(b, path) = s
  <2>1. GetSlot(b, path) = WalkStep(b, dir, path[Len(path)])
    BY <1>1, LookupStep
  <2> QED
    BY <2>1, StepTo
<1>3. s \in Live(b)
  BY LinkedByParent DEF Tree
<1>4. Leaf(a, path) /\ Leaf(b, path)
  BY <1>2, <1>3, NotFoundStep, NoKidsLeaf DEF Leaf
<1>5. \A q \in Seq(Names) \ {path} : GetSlot(b, q) = GetSlot(a, q)
  BY <1>4, LookupElsewhere
<1> QED
  BY <1>2, <1>5

\* Dropping the entry of a leaf makes its path mean nothing, and no other.
LEMMA LookupLoss ==
    ASSUME NEW a, Typed(a), Tree(a), NEW b, Typed(b), Tree(b),
           NEW path \in Seq(Names), path # <<>>,
           NEW dir \in Live(a) \cap Live(b), NEW s \in Live(a),
           Differ(a, b, dir, s), GetSlot(a, ParentPath(path)) = dir,
           GetSlot(a, path) = s, Kids(a, s) = <<>>, ~ IsKid(b, dir, s)
    PROVE  /\ GetSlot(b, path) = NOT_FOUND
           /\ \A q \in Seq(Names) \ {path} : GetSlot(b, q) = GetSlot(a, q)
<1>1. GetSlot(b, ParentPath(path)) = dir
  BY LookupShorter
<1>2. PICK last, c : last = path[Len(path)] /\ c = GetSlot(b, path)
  OBVIOUS
<1>3. WalkStep(b, dir, last) = c /\ WalkStep(a, dir, last) = s
  BY <1>1, <1>2, LookupStep
<1>4. c = NOT_FOUND
  <2> SUFFICES ASSUME c # NOT_FOUND PROVE FALSE
    OBVIOUS
  <2>1. c \in Live(b) /\ IsKid(b, dir, c) /\ At(b, c).name = last
    BY <1>3, WalkStepInTree
  <2>2. c # s
    BY <2>1
  <2>3. IsKid(a, dir, c)
    BY <2>1, <2>2 DEF Differ
  <2>4. c \in Live(a)
    BY <2>3, LinkedByParent DEF Tree
  <2>5. At(a, c).name = last
    BY <2>1, <2>4 DEF Differ
  <2> QED
    BY <1>3, <2>2, <2>3, <2>5, StepTo
<1>5. Leaf(a, path) /\ Leaf(b, path)
  BY <1>2, <1>4, NotFoundStep, NoKidsLeaf DEF Leaf
<1>6. At(a, s).name = last /\ (s \in Live(b) => At(b, s).name = last)
  BY <1>2, LookupKid DEF Differ
<1>7. \A q \in Seq(Names) \ {path} : GetSlot(b, q) = GetSlot(a, q)
  BY <1>2, <1>5, <1>6, LookupElsewhere
<1> QED
  BY <1>2, <1>4, <1>7

-------------------------------------------------------------------------------
(* How the calls of MemMount change the entries.                           *)

LEMMA RecountsDiffer ==
    ASSUME NEW a, Typed(a), NEW b, NEW s, Recounts(a, b, s)
    PROVE  Differ(a, b, NOT_FOUND, NOT_FOUND)
<1>1. PICK n \in Nat : At(b, s) = [At(a, s) EXCEPT !.use_count = n]
  BY DEF Recounts
<1>2. At(a, s) \in NodeType
  BY DEF Typed, Recounts
<1>3. /\ At(b, s).children = At(a, s).children
      /\ At(b, s).name = At(a, s).name /\ At(b, s).is_dir = At(a, s).is_dir
  BY <1>1, <1>2 DEF NodeType
<1>4. \A t \in Live(a) : /\ At(b, t).children = At(a, t).children
                         /\ At(b, t).name = At(a, t).name
                         /\ At(b, t).is_dir = At(a, t).is_dir
  BY <1>3 DEF Recounts
<1> QED
  BY <1>4 DEF Differ, IsKid, Kids

LEMMA FreesDiffer ==
    ASSUME NEW a, NEW b, NEW s, Frees(a, b, s)
    PROVE  Differ(a, b, NOT_FOUND, NOT_FOUND)
  BY DEF Frees, Differ, IsKid, Kids

LEMMA AddsDiffer ==
    ASSUME NEW a, Typed(a), NEW b, NEW dir, NEW s, NEW node, Adds(a, b, dir, s, node)
    PROVE  Differ(a, b, dir, s) /\ IsKid(b, dir, s)
<1>1. At(a, dir) \in NodeType /\ dir \in Live(a) \cap Live(b)
  BY DEF Typed, Adds
<1>2. PICK old : old = Kids(a, dir)
  OBVIOUS
<1>3. old \in Seq(0 .. MaxNodes - 1)
  BY <1>1, <1>2 DEF Kids, NodeType
<1>4. /\ Kids(b, dir) = Append(old, s)
      /\ At(b, dir).name = At(a, dir).name /\ At(b, dir).is_dir = At(a, dir).is_dir
  BY <1>1, <1>2 DEF Adds, Kids, NodeType
<1>5. /\ Len(Append(old, s)) = Len(old) + 1 /\ Len(old) \in Nat
      /\ \A i \in 1 .. Len(old) : Append(old, s)[i] = old[i]
      /\ Append(old, s)[Len(old) + 1] = s
  BY <1>3
<1>6. \A c : IsKid(b, dir, c) <=> IsKid(a, dir, c) \/ c = s
  <2>1. 1 .. Len(old) + 1 = (1 .. Len(old)) \cup {Len(old) + 1}
    BY <1>5
  <2> QED
    BY <1>2, <1>4, <1>5, <2>1 DEF IsKid
<1>7. \A t \in Live(a) \cap Live(b) :
          At(b, t).name = At(a, t).name /\ At(b, t).is_dir = At(a, t).is_dir
  BY <1>4 DEF Adds
<1>8. \A d \in Live(a) \cap Live(b) : d # dir =>
          \A c : IsKid(b, d, c) <=> IsKid(a, d, c)
  BY DEF Adds, Kids, IsKid
<1>9. Differ(a, b, dir, s)
  BY <1>6, <1>7, <1>8 DEF Differ
<1> QED
  BY <1>6, <1>9

LEMMA DropsDiffer ==
    ASSUME NEW a, Typed(a), NEW b, NEW dir, NEW s, Drops(a, b, dir, s)
    PROVE  Differ(a, b, dir, s) /\ ~ IsKid(b, dir, s)
<1>1. At(a, dir) \in NodeType /\ dir \in Live(a) \cap Live(b)
  BY DEF Typed, Drops
<1>2. PICK old, new : old = Kids(a, dir) /\ new = Without(old, s)
  OBVIOUS
<1>3. old \in Seq(0 .. MaxNodes - 1)
  BY <1>1, <1>2 DEF Kids, NodeType
<1>4. /\ Kids(b, dir) = new
      /\ At(b, dir).name = At(a, dir).name /\ At(b, dir).is_dir = At(a, dir).is_dir
  BY <1>1, <1>2 DEF Drops, Kids, NodeType
<1>5. Thinned(old, new, s)
  BY <1>2, <1>3, WithoutThins
<1>6. ASSUME NEW c, c # s
      PROVE  IsKid(b, dir, c) <=> IsKid(a, dir, c)
  <2>1. ASSUME IsKid(b, dir, c) PROVE IsKid(a, dir, c)
    <3>1. PICK i \in 1 .. Len(new) : new[i] = c
      BY <1>4, <2>1 DEF IsKid
    <3>2. PICK k \in 1 .. Len(old) : old[k] = new[i]
      BY <1>5 DEF Thinned
    <3> QED
      BY <1>2, <3>1, <3>2 DEF IsKid
  <2>2. ASSUME IsKid(a, dir, c) PROVE IsKid(b, dir, c)
    <3>1. PICK k \in 1 .. Len(old) : old[k] = c
      BY <1>2, <2>2 DEF IsKid
    <3>2. PICK i \in 1 .. Len(new) : new[i] = old[k]
      BY <1>5, <1>6, <3>1 DEF Thinned
    <3> QED
      BY <1>4, <3>1, <3>2 DEF IsKid
  <2> QED
    BY <2>1, <2>2
<1>7. ~ IsKid(b, dir, s)
  BY <1>4, <1>5 DEF IsKid, Thinned
<1>8. \A t \in Live(a) \cap Live(b) :
          At(b, t).name = At(a, t).name /\ At(b, t).is_dir = At(a, t).is_dir
  BY <1>4 DEF Drops
<1>9. \A d \in Live(a) \cap Live(b) : d # dir =>
          \A c : IsKid(b, d, c) <=> IsKid(a, d, c)
  BY DEF Drops, Kids, IsKid
<1>10. Differ(a, b, dir, s)
  BY <1>6, <1>8, <1>9 DEF Differ
<1> QED
  BY <1>7, <1>10

LEMMA DifferThen ==
    ASSUME NEW a, NEW m, NEW b, NEW dir, NEW s, NEW o,
           Differ(a, m, dir, s), Differ(m, b, o, o), o \notin Live(a),
           Live(m) = Live(a), Live(b) \subseteq Live(m)
    PROVE  Differ(a, b, dir, s)
<1>1. \A x \in Live(a) \cap Live(b) :
          At(b, x).name = At(a, x).name /\ At(b, x).is_dir = At(a, x).is_dir
  BY DEF Differ
<1>2. \A d \in Live(a) \cap Live(b) : \A c :
          d # dir \/ c # s => (IsKid(b, d, c) <=> IsKid(a, d, c))
  BY DEF Differ
<1> QED
  BY <1>1, <1>2 DEF Differ

-------------------------------------------------------------------------------
(* The refinement mapping.                                                 *)

LEMMA ParentInPaths ==
    ASSUME NEW p \in Paths, p # <<>>
    PROVE  ParentPath(p) \in Paths /\ Files!Parent(p) = ParentPath(p)
<1>1. p \in Seq(Names)
  BY PathType
<1>2. /\ Len(p) \in Nat \ {0} /\ ParentPath(p) \in Seq(Names)
      /\ Len(ParentPath(p)) = Len(p) - 1
  BY <1>1, PathEnds
<1>3. Len(p) <= MaxDepth
  <2>1. PICK n \in 0 .. MaxDepth : p \in [1 .. n -> Names]
    BY DEF Paths
  <2>2. Len(p) = n
    BY <2>1, KernelProxyAssumption
  <2> QED
    BY <2>1, <2>2, KernelProxyAssumption
<1>4. PICK q, n : q = ParentPath(p) /\ n = Len(p) - 1
  OBVIOUS
<1>5. q \in [1 .. n -> Names] /\ n \in 0 .. MaxDepth
  BY <1>2, <1>3, <1>4, KernelProxyAssumption
<1>6. q \in Paths
  BY <1>5 DEF Paths
<1> QED
  BY <1>4, <1>6 DEF Files!Parent, ParentPath

LEMMA TreeOfFacts ==
    ASSUME NEW a, Typed(a), Tree(a)
    PROVE  /\ DOMAIN TreeOf(a) = {q \in Paths : GetSlot(a, q) \in Live(a)}
           /\ \A q \in DOMAIN TreeOf(a) :
                  TreeOf(a)[q] = [ino |-> GetSlot(a, q),
                                  dir |-> At(a, GetSlot(a, q)).is_dir]
           /\ TreeOf(a) = [q \in DOMAIN TreeOf(a) |-> TreeOf(a)[q]]
<1>1. ASSUME NEW q \in Paths
      PROVE  GetNode(a, q).err = "OK" <=> GetSlot(a, q) \in Live(a)
  <2>1. q \in Seq(Names)
    BY PathType
  <2>2. GetNode(a, q).err = "OK" => GetSlot(a, q) \in Live(a)
    BY <2>1, GetNodeFacts
  <2>3. ASSUME GetSlot(a, q) \in Live(a) PROVE GetNode(a, q).err = "OK"
    <3>1. GetSlot(a, q) # CRASHED
      BY <2>3, NotFoundOrCrashed
    <3>2. At(a, GetSlot(a, q)) # NULL
      BY <2>3, NodeNotNull DEF Typed
    <3>3. GetNode(a, q) = Result(a, GetSlot(a, q), "OK")
      BY <3>1, <3>2, Zenon DEF GetNode
    <3> QED
      BY <3>3 DEF Result
  <2> QED
    BY <2>2, <2>3
<1>2. {q \in Paths : GetNode(a, q).err = "OK"} = {q \in Paths : GetSlot(a, q) \in Live(a)}
  BY <1>1
<1>3. PICK D : D = {q \in Paths : GetSlot(a, q) \in Live(a)}
  OBVIOUS
<1>4. TreeOf(a) = [q \in D |-> [ino |-> GetSlot(a, q),
                                dir |-> At(a, GetSlot(a, q)).is_dir]]
  BY <1>2, <1>3, Zenon DEF TreeOf
<1> QED
  BY <1>3, <1>4

\* A path that means the same inode in both still is, or is not, a directory.
LEMMA SlotKept ==
    ASSUME NEW a, Typed(a), Tree(a), NEW b, Typed(b), Tree(b), NEW dir, NEW s,
           Differ(a, b, dir, s), NEW q \in Seq(Names), GetSlot(b, q) = GetSlot(a, q)
    PROVE  /\ GetSlot(b, q) \in Live(b) <=> GetSlot(a, q) \in Live(a)
           /\ GetSlot(a, q) \in Live(a) =>
                  At(b, GetSlot(b, q)).is_dir = At(a, GetSlot(a, q)).is_dir
<1>1. /\ GetSlot(a, q) \in Live(a) \cup {NOT_FOUND}
      /\ GetSlot(b, q) \in Live(b) \cup {NOT_FOUND}
  BY LookupStep
<1>2. NOT_FOUND \notin Live(a) /\ NOT_FOUND \notin Live(b)
  BY NotFoundStep
<1> QED
  BY <1>1, <1>2 DEF Differ

\* Calls that change no entry.
LEMMA TreeOfSame ==
    ASSUME NEW a, Typed(a), Tree(a), NEW b, Typed(b), Tree(b),
           Differ(a, b, NOT_FOUND, NOT_FOUND)
    PROVE  TreeOf(b) = TreeOf(a)
<1>1. ASSUME NEW q \in Paths
      PROVE  /\ GetSlot(b, q) = GetSlot(a, q)
             /\ GetSlot(b, q) \in Live(b) <=> GetSlot(a, q) \in Live(a)
             /\ GetSlot(a, q) \in Live(a) =>
                    At(b, GetSlot(b, q)).is_dir = At(a, GetSlot(a, q)).is_dir
  <2>1. q \in Seq(Names)
    BY PathType
  <2>2. GetSlot(b, q) = GetSlot(a, q)
    BY <2>1, LookupSame
  <2> QED
    BY <2>1, <2>2, SlotKept
<1>2. PICK f, g : f = TreeOf(a) /\ g = TreeOf(b)
  OBVIOUS
<1>3. /\ DOMAIN f = {q \in Paths : GetSlot(a, q) \in Live(a)}
      /\ \A q \in DOMAIN f : f[q] = [ino |-> GetSlot(a, q),
                                     dir |-> At(a, GetSlot(a, q)).is_dir]
      /\ f = [q \in DOMAIN f |-> f[q]]
  BY <1>2, TreeOfFacts
<1>4. /\ DOMAIN g = {q \in Paths : GetSlot(b, q) \in Live(b)}
      /\ \A q \in DOMAIN g : g[q] = [ino |-> GetSlot(b, q),
                                     dir |-> At(b, GetSlot(b, q)).is_dir]
      /\ g = [q \in DOMAIN g |-> g[q]]
  BY <1>2, TreeOfFacts
<1>5. DOMAIN g = DOMAIN f
  BY <1>1, <1>3, <1>4
<1>6. \A q \in DOMAIN f : g[q] = f[q]
  <2> SUFFICES ASSUME NEW q \in DOMAIN f PROVE g[q] = f[q]
    OBVIOUS
  <2>1. /\ GetSlot(b, q) = GetSlot(a, q)
        /\ At(b, GetSlot(b, q)).is_dir = At(a, GetSlot(a, q)).is_dir
    BY <1>1, <1>3
  <2>2. /\ f[q] = [ino |-> GetSlot(a, q), dir |-> At(a, GetSlot(a, q)).is_dir]
        /\ g[q] = [ino |-> GetSlot(b, q), dir |-> At(b, GetSlot(b, q)).is_dir]
    BY <1>3, <1>4, <1>5
  <2> QED
    BY <2>1, <2>2
<1> QED
  BY <1>2, <1>3, <1>4, <1>5, <1>6

\* Creat() and Mkdir() add their path, with an inode that was free.
LEMMA MakesMaps ==
    ASSUME NEW a, NEW u, Whole(a, u), IsFiniteSet(DOMAIN u), NEW path \in Paths,
           NEW is_dir \in BOOLEAN, NEW count \in Nat, ~ is_dir => count = 1,
           NEW r, MakesChild(a, path, is_dir, count, r), r.fs.size <= MaxNodes
    PROVE  /\ TreeOf(r.fs) = Files!With(TreeOf(a), path,
                                        [ino |-> r.slot, dir |-> is_dir])
           /\ path # <<>> /\ path \notin DOMAIN TreeOf(a)
           /\ Files!Parent(path) \in DOMAIN TreeOf(a)
           /\ TreeOf(a)[Files!Parent(path)].dir
           /\ r.slot \notin Live(a)
<1>1. path \in Seq(Names) /\ Typed(a) /\ Tree(a)
  BY PathType DEF Whole
<1>2. /\ Whole(r.fs, u) /\ r.slot \in Live(r.fs) /\ r.slot \in 0 .. MaxNodes - 1
  BY <1>1, AddsWhole
<1>3. PICK b, s, dir : b = r.fs /\ s = r.slot /\ dir = GetParentSlot(a, path)
  OBVIOUS
<1>4. Typed(b) /\ Tree(b)
  BY <1>2, <1>3 DEF Whole
<1>5. /\ path # <<>> /\ r = NewChild(a, path, dir, is_dir, count)
      /\ At(a, GetSlot(a, path)) = NULL
      /\ dir \in Live(a) /\ At(a, dir).is_dir
  BY <1>3 DEF MakesChild
<1>6. Adds(a, b, dir, s, MemNode(path[Len(path)], is_dir, dir, count))
  <2>1. NewChild(a, path, dir, is_dir, count).fs.size <= MaxNodes
    BY <1>5
  <2> QED
    BY <1>1, <1>3, <1>5, <2>1, NewChildFacts
<1>7. /\ At(b, s).name = path[Len(path)] /\ Kids(b, s) = <<>>
      /\ At(b, s).is_dir = is_dir
      /\ s \notin Live(a) /\ dir \in Live(a) \cap Live(b)
  BY <1>6 DEF Adds, MemNode, Kids
<1>8. Differ(a, b, dir, s) /\ IsKid(b, dir, s)
  BY <1>1, <1>6, AddsDiffer
<1>9. GetSlot(a, ParentPath(path)) = dir
  BY <1>3 DEF GetParentSlot
<1>10. GetSlot(a, path) = NOT_FOUND
  <2>1. GetSlot(a, path) \in Live(a) \cup {NOT_FOUND}
    BY <1>1, LookupStep
  <2> QED
    BY <1>1, <1>5, <2>1, NodeNotNull DEF Typed
<1>11. /\ GetSlot(b, path) = s
       /\ \A q \in Seq(Names) \ {path} : GetSlot(b, q) = GetSlot(a, q)
  BY <1>1, <1>4, <1>5, <1>7, <1>8, <1>9, <1>10, LookupGain
<1>12. ASSUME NEW q \in Paths, q # path
       PROVE  /\ GetSlot(b, q) = GetSlot(a, q)
              /\ GetSlot(b, q) \in Live(b) <=> GetSlot(a, q) \in Live(a)
              /\ GetSlot(a, q) \in Live(a) =>
                     At(b, GetSlot(b, q)).is_dir = At(a, GetSlot(a, q)).is_dir
  <2>1. q \in Seq(Names)
    BY PathType
  <2>2. GetSlot(b, q) = GetSlot(a, q)
    BY <1>11, <1>12, <2>1
  <2> QED
    BY <1>1, <1>4, <1>8, <2>1, <2>2, SlotKept
<1>13. PICK f, g : f = TreeOf(a) /\ g = TreeOf(b)
  OBVIOUS
<1>14. /\ DOMAIN f = {q \in Paths : GetSlot(a, q) \in Live(a)}
       /\ \A q \in DOMAIN f : f[q] = [ino |-> GetSlot(a, q),
                                      dir |-> At(a, GetSlot(a, q)).is_dir]
  BY <1>1, <1>13, TreeOfFacts
<1>15. /\ DOMAIN g = {q \in Paths : GetSlot(b, q) \in Live(b)}
       /\ \A q \in DOMAIN g : g[q] = [ino |-> GetSlot(b, q),
                                      dir |-> At(b, GetSlot(b, q)).is_dir]
       /\ g = [q \in DOMAIN g |-> g[q]]
  BY <1>4, <1>13, TreeOfFacts
<1>16. path \notin DOMAIN f
  BY <1>1, <1>10, <1>14, NotFoundStep
<1>17. DOMAIN g = DOMAIN f \cup {path}
  BY <1>2, <1>3, <1>11, <1>12, <1>14, <1>15
<1>18. g[path] = [ino |-> s, dir |-> is_dir]
  BY <1>7, <1>11, <1>15, <1>17
<1>19. \A q \in DOMAIN f : g[q] = f[q]
  <2> SUFFICES ASSUME NEW q \in DOMAIN f PROVE g[q] = f[q]
    OBVIOUS
  <2>1. /\ GetSlot(b, q) = GetSlot(a, q)
        /\ At(b, GetSlot(b, q)).is_dir = At(a, GetSlot(a, q)).is_dir
    BY <1>12, <1>14, <1>16
  <2>2. /\ f[q] = [ino |-> GetSlot(a, q), dir |-> At(a, GetSlot(a, q)).is_dir]
        /\ g[q] = [ino |-> GetSlot(b, q), dir |-> At(b, GetSlot(b, q)).is_dir]
    BY <1>14, <1>15, <1>17
  <2> QED
    BY <2>1, <2>2
<1>20. PICK v : v = [ino |-> s, dir |-> is_dir]
  OBVIOUS
<1>21. g = Files!With(f, path, v)
  BY <1>15, <1>16, <1>17, <1>18, <1>19, <1>20 DEF Files!With
<1>22. Files!Parent(path) \in DOMAIN f /\ f[Files!Parent(path)].dir
  <2>1. ParentPath(path) \in Paths /\ Files!Parent(path) = ParentPath(path)
    BY <1>5, ParentInPaths
  <2>2. ParentPath(path) \in DOMAIN f
    BY <1>5, <1>9, <1>14, <2>1
  <2>3. f[ParentPath(path)] = [ino |-> dir, dir |-> At(a, dir).is_dir]
    BY <1>9, <1>14, <2>2
  <2> QED
    BY <1>5, <2>1, <2>2, <2>3
<1> QED
  BY <1>3, <1>5, <1>7, <1>13, <1>16, <1>20, <1>21, <1>22

\* b is a without the entry of path, which has nothing below it.
Cuts(a, b, path) ==
    LET s == GetSlot(a, path)
        dir == GetSlot(a, ParentPath(path))
    IN  /\ path # <<>> /\ s \in Live(a) /\ Kids(a, s) = <<>>
        /\ dir \in Live(a) \cap Live(b)
        /\ Differ(a, b, dir, s) /\ ~ IsKid(b, dir, s)

LEMMA CutsMaps ==
    ASSUME NEW a, Typed(a), Tree(a), NEW b, Typed(b), Tree(b),
           NEW path \in Paths, Cuts(a, b, path)
    PROVE  /\ TreeOf(b) = Files!Without(TreeOf(a), path)
           /\ path \in DOMAIN TreeOf(a) \ {<<>>}
           /\ \A q \in DOMAIN TreeOf(a) \ {<<>>} : Files!Parent(q) # path
<1>1. PICK s, dir : s = GetSlot(a, path) /\ dir = GetSlot(a, ParentPath(path))
  OBVIOUS
<1>2. /\ path # <<>> /\ s \in Live(a) /\ Kids(a, s) = <<>>
      /\ dir \in Live(a) \cap Live(b)
      /\ Differ(a, b, dir, s) /\ ~ IsKid(b, dir, s) /\ path \in Seq(Names)
  BY <1>1, PathType DEF Cuts
<1>3. /\ GetSlot(b, path) = NOT_FOUND
      /\ \A q \in Seq(Names) \ {path} : GetSlot(b, q) = GetSlot(a, q)
  BY <1>1, <1>2, LookupLoss
<1>4. ASSUME NEW q \in Paths, q # path
      PROVE  /\ GetSlot(b, q) = GetSlot(a, q)
             /\ GetSlot(b, q) \in Live(b) <=> GetSlot(a, q) \in Live(a)
             /\ GetSlot(a, q) \in Live(a) =>
                    At(b, GetSlot(b, q)).is_dir = At(a, GetSlot(a, q)).is_dir
  <2>1. q \in Seq(Names)
    BY PathType
  <2>2. GetSlot(b, q) = GetSlot(a, q)
    BY <1>3, <1>4, <2>1
  <2> QED
    BY <1>2, <2>1, <2>2, SlotKept
<1>5. PICK f, g : f = TreeOf(a) /\ g = TreeOf(b)
  OBVIOUS
<1>6. /\ DOMAIN f = {q \in Paths : GetSlot(a, q) \in Live(a)}
      /\ \A q \in DOMAIN f : f[q] = [ino |-> GetSlot(a, q),
                                     dir |-> At(a, GetSlot(a, q)).is_dir]
  BY <1>5, TreeOfFacts
<1>7. /\ DOMAIN g = {q \in Paths : GetSlot(b, q) \in Live(b)}
      /\ \A q \in DOMAIN g : g[q] = [ino |-> GetSlot(b, q),
                                     dir |-> At(b, GetSlot(b, q)).is_dir]
      /\ g = [q \in DOMAIN g |-> g[q]]
  BY <1>5, TreeOfFacts
<1>8. path \in DOMAIN f \ {<<>>}
  BY <1>1, <1>2, <1>6
<1>9. DOMAIN g = DOMAIN f \ {path}
  BY <1>3, <1>4, <1>6, <1>7, NotFoundStep
<1>10. \A q \in DOMAIN g : g[q] = f[q]
  <2> SUFFICES ASSUME NEW q \in DOMAIN g PROVE g[q] = f[q]
    OBVIOUS
  <2>1. /\ GetSlot(b, q) = GetSlot(a, q)
        /\ At(b, GetSlot(b, q)).is_dir = At(a, GetSlot(a, q)).is_dir
    BY <1>4, <1>6, <1>9
  <2>2. /\ f[q] = [ino |-> GetSlot(a, q), dir |-> At(a, GetSlot(a, q)).is_dir]
        /\ g[q] = [ino |-> GetSlot(b, q), dir |-> At(b, GetSlot(b, q)).is_dir]
    BY <1>6, <1>7, <1>9
  <2> QED
    BY <2>1, <2>2
<1>11. g = Files!Without(f, path)
  BY <1>7, <1>9, <1>10 DEF Files!Without
<1>12. ASSUME NEW q \in DOMAIN f \ {<<>>}
       PROVE  Files!Parent(q) # path
  <2>1. q \in Paths /\ q \in Seq(Names) /\ GetSlot(a, q) \in Live(a)
    BY <1>6, PathType
  <2>2. Files!Parent(q) = ParentPath(q)
    BY <2>1, ParentInPaths
  <2>3. IsKid(a, GetSlot(a, ParentPath(q)), GetSlot(a, q))
    BY <2>1, LookupKid
  <2>4. ParentPath(q) # path
    BY <1>1, <1>2, <2>3 DEF IsKid
  <2> QED
    BY <2>2, <2>4
<1> QED
  BY <1>5, <1>8, <1>11, <1>12

\* Unlink() of a file cuts its path off; when it fails it changes nothing.
LEMMA UnlinkMaps ==
    ASSUME NEW a, NEW u, Whole(a, u), IsFiniteSet(DOMAIN u), NEW path \in Paths
    PROVE  LET b == Unlink(a, path).fs
           IN  b = a \/ Cuts(a, b, path)
<1>1. path \in Seq(Names) /\ Typed(a) /\ Tree(a)
  BY PathType DEF Whole
<1>2. PICK r, s, dir : /\ r = Unlink(a, path) /\ s = GetSlot(a, path)
                       /\ dir = GetParentSlot(a, path)
  OBVIOUS
<1>3. \/ r.fs = a
      \/ /\ s \in Live(a) /\ dir \in Live(a) /\ ~ At(a, s).is_dir
         /\ r.fs = Unref(RemoveChild(a, dir, s), s)
  BY <1>1, <1>2, UnlinkFacts
<1>4. CASE /\ s \in Live(a) /\ dir \in Live(a) /\ ~ At(a, s).is_dir
           /\ r.fs = Unref(RemoveChild(a, dir, s), s)
  <2>1. PICK m, b : m = RemoveChild(a, dir, s) /\ b = Unref(m, s)
    OBVIOUS
  <2>2. path # <<>> /\ Kids(a, s) = <<>> /\ dir = GetSlot(a, ParentPath(path))
    BY <1>1, <1>2, <1>4, LookupStep DEF Tree, GetParentSlot
  <2>3. At(a, dir).is_dir
    BY <1>1, <1>2, <1>4, <2>2, LookupKid
  <2>4. Typed(m) /\ Drops(a, m, dir, s)
    BY <1>1, <1>4, <2>1, <2>3, RemoveChildFacts
  <2>5. Differ(a, m, dir, s) /\ ~ IsKid(m, dir, s) /\ Live(m) = Live(a)
    BY <1>1, <2>4, DropsDiffer DEF Drops
  <2>6. dir # s
    BY <1>4, <2>3
  <2>7. b = m \/ Recounts(m, b, s) \/ Frees(m, b, s)
    BY <1>4, <2>1, <2>4, <2>5, UnrefFacts
  <2>8. /\ dir \in Live(b) /\ Live(b) \subseteq Live(m)
        /\ b = m \/ Differ(m, b, NOT_FOUND, NOT_FOUND)
    BY <1>4, <2>4, <2>5, <2>6, <2>7, RecountsDiffer, FreesDiffer DEF Recounts, Frees
  <2>9. NOT_FOUND \notin Live(a) /\ NOT_FOUND \notin Live(m)
    BY <1>1, <2>4, NotFoundStep
  <2>10. Differ(a, b, dir, s) /\ ~ IsKid(b, dir, s)
    <3>1. Differ(a, b, dir, s)
      BY <2>5, <2>8, <2>9, DifferThen
    <3>2. dir \in Live(m) \cap Live(b) /\ dir # NOT_FOUND
      BY <1>4, <2>5, <2>8, <2>9
    <3> QED
      BY <2>5, <2>8, <3>1, <3>2 DEF Differ
  <2>11. Cuts(a, b, path)
    BY <1>2, <1>4, <2>2, <2>8, <2>10 DEF Cuts
  <2> QED
    BY <1>2, <1>4, <2>1, <2>11
<1> QED
  BY <1>2, <1>3, <1>4

\* Rmdir() of the directory at a path other than the root cuts it off.
LEMMA RmdirMaps ==
    ASSUME NEW a, NEW u, Whole(a, u), NEW path \in Paths,
           GetSlot(a, path) \in Live(a) \ {0}
    PROVE  LET b == Rmdir(a, GetSlot(a, path)).fs
           IN  b = a \/ Cuts(a, b, path)
<1>1. path \in Seq(Names) /\ Typed(a) /\ Tree(a)
  BY PathType DEF Whole
<1>2. PICK s, r, dir : /\ s = GetSlot(a, path) /\ r = Rmdir(a, s)
                       /\ dir = At(a, s).parent
  OBVIOUS
<1>3. s \in Live(a) /\ s # 0
  BY <1>2
<1>4. \/ r.fs = a
      \/ /\ At(a, s).is_dir /\ Kids(a, s) = <<>>
         /\ dir \in Live(a) /\ r.fs = Free(RemoveChild(a, dir, s), s)
  BY <1>1, <1>2, <1>3, RmdirFacts
<1>5. CASE /\ At(a, s).is_dir /\ Kids(a, s) = <<>>
           /\ dir \in Live(a) /\ r.fs = Free(RemoveChild(a, dir, s), s)
  <2>1. PICK m, b : m = RemoveChild(a, dir, s) /\ b = Free(m, s)
    OBVIOUS
  <2>2. path # <<>>
    BY <1>1, <1>2, <1>3, LookupStep
  <2>3. /\ dir = GetSlot(a, ParentPath(path)) /\ At(a, dir).is_dir
        /\ IsKid(a, dir, s)
    BY <1>1, <1>2, <1>3, <2>2, LookupKid
  <2>4. Typed(m) /\ Drops(a, m, dir, s)
    BY <1>1, <1>5, <2>1, <2>3, RemoveChildFacts
  <2>5. Differ(a, m, dir, s) /\ ~ IsKid(m, dir, s) /\ Live(m) = Live(a)
    BY <1>1, <2>4, DropsDiffer DEF Drops
  <2>6. dir # s
    BY <1>5, <2>3 DEF IsKid
  <2>7. Frees(m, b, s)
    BY <1>3, <2>1, <2>4, <2>5, FreeNode DEF Frees
  <2>8. /\ dir \in Live(b) /\ Live(b) \subseteq Live(m)
        /\ Differ(m, b, NOT_FOUND, NOT_FOUND)
    BY <1>5, <2>5, <2>6, <2>7, FreesDiffer DEF Frees
  <2>9. NOT_FOUND \notin Live(a)
    BY <1>1, NotFoundStep
  <2>10. Differ(a, b, dir, s) /\ ~ IsKid(b, dir, s)
    <3>1. Differ(a, b, dir, s)
      BY <2>5, <2>8, <2>9, DifferThen
    <3>2. dir \in Live(m) \cap Live(b) /\ dir # NOT_FOUND
      BY <1>5, <2>5, <2>8, <2>9
    <3> QED
      BY <2>5, <2>8, <3>1, <3>2 DEF Differ
  <2>11. Cuts(a, b, path)
    BY <1>2, <1>3, <1>5, <2>2, <2>3, <2>8, <2>10 DEF Cuts
  <2> QED
    BY <1>2, <1>5, <2>1, <2>11
<1> QED
  BY <1>2, <1>4, <1>5

\* Ref() and Unref() of an inode change no path.
LEMMA RefMaps ==
    ASSUME NEW a, Typed(a), Tree(a), NEW s \in Live(a), Tree(Ref(a, s))
    PROVE  TreeOf(Ref(a, s)) = TreeOf(a)
<1>1. PICK b : b = Ref(a, s)
  OBVIOUS
<1>2. Typed(b) /\ (b = a \/ Recounts(a, b, s))
  BY <1>1, RefFacts
<1> QED
  BY <1>1, <1>2, RecountsDiffer, TreeOfSame

LEMMA UnrefMaps ==
    ASSUME NEW a, Typed(a), Tree(a), NEW s \in Live(a), Tree(Unref(a, s))
    PROVE  TreeOf(Unref(a, s)) = TreeOf(a)
<1>1. PICK b : b = Unref(a, s)
  OBVIOUS
<1>2. Typed(b) /\ (b = a \/ Recounts(a, b, s) \/ Frees(a, b, s))
  BY <1>1, UnrefFacts
<1> QED
  BY <1>1, <1>2, RecountsDiffer, FreesDiffer, TreeOfSame

LEMMA OpenOfFacts ==
    ASSUME NEW f, NEW o, FdsOK(f, o)
    PROVE  /\ DOMAIN OpenOf(f, o) = Live(o)
           /\ \A d \in Live(o) : OpenOf(f, o)[d] = At(o, d).node
<1>1. Live(f) = Live(o) /\ \A d \in Live(f) : At(f, d).handle = d
  BY DEF FdsOK
<1>2. OpenOf(f, o) = [d \in Live(o) |-> At(o, d).node]
  BY <1>1 DEF OpenOf
<1> QED
  BY <1>2

LEMMA OpenOfMore ==
    ASSUME NEW f, NEW o, FdsOK(f, o), NEW s \in 0 .. MaxNodes - 1
    PROVE  LET h == AllocSlot(f)
               p == Alloc(o, [node |-> s, use_count |-> 1])
               g == Alloc(f, [handle |-> AllocSlot(o)])
           IN  /\ h \in Nat /\ h \notin DOMAIN OpenOf(f, o)
               /\ OpenOf(g, p) = Files!With(OpenOf(f, o), h, s)
<1>1. PICK h, p, g : /\ h = AllocSlot(f)
                     /\ p = Alloc(o, [node |-> s, use_count |-> 1])
                     /\ g = Alloc(f, [handle |-> AllocSlot(o)])
  OBVIOUS
<1>2. /\ FdsOK(g, p)
      /\ h \notin Live(o) /\ Live(p) = Live(o) \cup {h}
      /\ At(p, h).node = s
      /\ \A t \in Live(o) : At(p, t) = At(o, t)
  BY <1>1, OpenFds
<1>3. h \in Nat
  <2>1. h \in Live(p) /\ WellFormed(p)
    BY <1>2 DEF FdsOK
  <2> QED
    BY <2>1, LiveIsIndex
<1>4. PICK u, v : u = OpenOf(f, o) /\ v = OpenOf(g, p)
  OBVIOUS
<1>5. DOMAIN u = Live(o) /\ \A d \in Live(o) : u[d] = At(o, d).node
  BY <1>4, OpenOfFacts
<1>6. /\ DOMAIN v = Live(p) /\ \A d \in Live(p) : v[d] = At(p, d).node
      /\ v = [d \in DOMAIN v |-> v[d]]
  <2>1. FdsOK(g, p)
    BY <1>2
  <2>2. DOMAIN v = Live(p) /\ \A d \in Live(p) : v[d] = At(p, d).node
    BY <1>4, <2>1, OpenOfFacts
  <2> QED
    BY <1>4, <2>2 DEF OpenOf
<1>7. v[h] = s /\ \A d \in Live(o) : v[d] = u[d]
  BY <1>2, <1>5, <1>6
<1>8. v = Files!With(u, h, s)
  BY <1>2, <1>5, <1>6, <1>7 DEF Files!With
<1> QED
  BY <1>1, <1>2, <1>3, <1>4, <1>5, <1>8

LEMMA OpenOfLess ==
    ASSUME NEW f, NEW o, FdsOK(f, o), NEW d \in Live(f)
    PROVE  /\ d \in DOMAIN OpenOf(f, o)
           /\ OpenOf(Free(f, d), Free(o, d)) = Files!Without(OpenOf(f, o), d)
<1>1. PICK g, p : g = Free(f, d) /\ p = Free(o, d)
  OBVIOUS
<1>2. /\ FdsOK(g, p) /\ d \in Live(o) /\ Live(p) = Live(o) \ {d}
      /\ \A t \in Live(o) \ {d} : At(p, t) = At(o, t)
  BY <1>1, CloseFds
<1>3. PICK u, v : u = OpenOf(f, o) /\ v = OpenOf(g, p)
  OBVIOUS
<1>4. DOMAIN u = Live(o) /\ \A t \in Live(o) : u[t] = At(o, t).node
  BY <1>3, OpenOfFacts
<1>5. /\ DOMAIN v = Live(p) /\ \A t \in Live(p) : v[t] = At(p, t).node
      /\ v = [t \in DOMAIN v |-> v[t]]
  <2>1. FdsOK(g, p)
    BY <1>2
  <2>2. DOMAIN v = Live(p) /\ \A t \in Live(p) : v[t] = At(p, t).node
    BY <1>3, <2>1, OpenOfFacts
  <2> QED
    BY <1>3, <2>2 DEF OpenOf
<1>6. \A t \in Live(p) : v[t] = u[t]
  BY <1>2, <1>4, <1>5
<1>7. v = Files!Without(u, d)
  BY <1>2, <1>4, <1>5, <1>6 DEF Files!Without
<1> QED
  BY <1>1, <1>2, <1>3, <1>4, <1>7

-------------------------------------------------------------------------------
(* Every call is a step of FileTree, or changes nothing there.             *)

Mapped == /\ Inv
          /\ tree = TreeOf(nodes)
          /\ open = OpenOf(fds, open_files)

MappedFacts == /\ Typed(nodes) /\ Tree(nodes) /\ Whole(nodes, Users(open_files))
               /\ FdsOK(fds, open_files)
               /\ IsFiniteSet(DOMAIN Users(open_files))
               /\ tree = TreeOf(nodes) /\ open = OpenOf(fds, open_files)

LEMMA MappedIs == Mapped => MappedFacts
  BY UsersFinite DEF Mapped, MappedFacts, Inv, Basic, Whole, FdsOK

\* The paths of the tree are the ones GetSlot() finds.
LEMMA MappedTree ==
    ASSUME Mapped
    PROVE  /\ DOMAIN tree = {q \in Paths : GetSlot(nodes, q) \in Live(nodes)}
           /\ \A q \in DOMAIN tree : tree[q].ino = GetSlot(nodes, q)
<1>1. Typed(nodes) /\ Tree(nodes) /\ tree = TreeOf(nodes)
  BY MappedIs DEF MappedFacts
<1>2. PICK u : u = TreeOf(nodes)
  OBVIOUS
<1>3. /\ DOMAIN u = {q \in Paths : GetSlot(nodes, q) \in Live(nodes)}
      /\ \A q \in DOMAIN u :
             u[q] = [ino |-> GetSlot(nodes, q),
                     dir |-> At(nodes, GetSlot(nodes, q)).is_dir]
  BY <1>1, <1>2, TreeOfFacts
<1>4. \A q \in DOMAIN u : u[q].ino = GetSlot(nodes, q)
  BY <1>3
<1> QED
  BY <1>1, <1>2, <1>3, <1>4

\* The descriptors of the table.
LEMMA MappedOpen ==
    ASSUME Mapped
    PROVE  /\ DOMAIN open = Live(open_files)
           /\ \A d \in DOMAIN open : open[d] \in Live(nodes)
<1>1. /\ FdsOK(fds, open_files) /\ open = OpenOf(fds, open_files)
      /\ Whole(nodes, Users(open_files))
  BY MappedIs DEF MappedFacts
<1>2. PICK u : u = OpenOf(fds, open_files)
  OBVIOUS
<1>3. /\ DOMAIN u = Live(open_files)
      /\ \A d \in Live(open_files) : u[d] = At(open_files, d).node
  BY <1>1, <1>2, OpenOfFacts
<1>4. \A d \in Live(open_files) : At(open_files, d).node \in Live(nodes)
  BY <1>1 DEF Whole, Held, Users
<1> QED
  BY <1>1, <1>2, <1>3, <1>4

\* A slot that was free is an inode that neither a path nor a descriptor has.
LEMMA SlotFresh ==
    ASSUME Mapped, NEW s, s \notin Live(nodes)
    PROVE  Files!Fresh(s)
<1>1. \A p \in DOMAIN tree : tree[p].ino # s
  BY MappedTree
<1>2. \A d \in DOMAIN open : open[d] # s
  BY MappedOpen
<1> QED
  BY <1>1, <1>2 DEF Files!Fresh

LEMMA OpenHandleMaps ==
    ASSUME Mapped, Mapped', NEW path \in Paths, path # <<>>, NEW flags,
           AllocSlot(fds) < MaxFds, OpenHandle(path, flags)
    PROVE  Files!Next \/ UNCHANGED <<tree, open>>
<1>1. MappedFacts /\ path \in Seq(Names)
  BY MappedIs, PathType
<1>2. tree' = TreeOf(nodes') /\ open' = OpenOf(fds', open_files')
  BY DEF Mapped
<1>3. Tree(nodes')
  BY DEF Mapped, Inv, Whole
<1>4. PICK r : r = Found(nodes, path, flags)
  OBVIOUS
<1>5. \/ r.err # "OK" /\ MountCall(r)
      \/ /\ r.err = "OK" /\ r.fs.size <= MaxNodes
         /\ nodes' = Ref(r.fs, r.slot)
         /\ open_files' = Alloc(open_files, [node |-> r.slot, use_count |-> 1])
         /\ fds' = Alloc(fds, [handle |-> AllocSlot(open_files)])
  BY <1>4, Zenon DEF OpenHandle, Found
<1>6. \/ /\ r.err # "OK" /\ r.fs = nodes
      \/ /\ flags = 0 /\ r.err = "OK" /\ r.fs = nodes
         /\ r.slot = GetSlot(nodes, path)
      \/ flags # 0 /\ MakesChild(nodes, path, FALSE, 1, r)
  <2>1. CASE flags # 0
    <3>1. r = Creat(nodes, path)
      BY <1>4, <2>1 DEF Found
    <3> QED
      BY <1>1, <2>1, <3>1, CreatFacts DEF MappedFacts
  <2>2. CASE flags = 0
    <3>1. r = GetNode(nodes, path)
      BY <1>4, <2>2 DEF Found
    <3> QED
      BY <1>1, <2>2, <3>1, GetNodeFacts DEF MappedFacts
  <2> QED
    BY <2>1, <2>2
<1>7. CASE r.err # "OK" /\ MountCall(r)
  <2>1. r.fs = nodes
    BY <1>1, <1>6, <1>7, AddsWhole DEF MappedFacts, MountCall
  <2>2. nodes' = nodes /\ fds' = fds /\ open_files' = open_files
    BY <1>7, <2>1 DEF MountCall
  <2>3. tree' = tree /\ open' = open
    BY <1>1, <1>2, <2>2 DEF MappedFacts
  <2> QED
    BY <2>3
<1>8. CASE /\ r.err = "OK" /\ r.fs.size <= MaxNodes
           /\ nodes' = Ref(r.fs, r.slot)
           /\ open_files' = Alloc(open_files, [node |-> r.slot, use_count |-> 1])
           /\ fds' = Alloc(fds, [handle |-> AllocSlot(open_files)])
  <2>1. PICK a, s, h : a = r.fs /\ s = r.slot /\ h = AllocSlot(fds)
    OBVIOUS
  <2>2. /\ Typed(a) /\ s \in Live(a) /\ s \in 0 .. MaxNodes - 1
        /\ Whole(a, Users(open_files)) /\ Tree(a)
    <3>1. Found(nodes, path, flags).fs.size <= MaxNodes
      BY <1>4, <1>8
    <3> QED
      BY <1>1, <1>4, <1>8, <2>1, <3>1, FoundType, FoundWhole DEF MappedFacts, Whole
  <2>3. TreeOf(nodes') = TreeOf(a)
    <3>1. nodes' = Ref(a, s)
      BY <1>8, <2>1
    <3> QED
      BY <1>3, <2>2, <3>1, RefMaps
  <2>4. /\ h \in Nat /\ h \notin DOMAIN OpenOf(fds, open_files)
        /\ OpenOf(fds', open_files') = Files!With(OpenOf(fds, open_files), h, s)
    <3>1. /\ open_files' = Alloc(open_files, [node |-> s, use_count |-> 1])
          /\ fds' = Alloc(fds, [handle |-> AllocSlot(open_files)])
      BY <1>8, <2>1
    <3> QED
      BY <1>1, <2>1, <2>2, <3>1, OpenOfMore DEF MappedFacts
  <2>5. /\ h \in (0 .. MaxFds - 1) \ DOMAIN open
        /\ open' = Files!With(open, h, s) /\ tree' = TreeOf(a)
    <3>1. h \in 0 .. MaxFds - 1
      BY <2>1, <2>4, KernelProxyAssumption
    <3> QED
      BY <1>1, <1>2, <2>3, <2>4, <3>1 DEF MappedFacts
  <2>6. CASE flags = 0
    <3>1. a = nodes /\ s = GetSlot(nodes, path)
      BY <1>6, <1>8, <2>1, <2>6
    <3>2. path \in DOMAIN tree /\ tree[path].ino = s
      BY <2>2, <3>1, MappedTree
    <3>3. Files!Open(path, h)
      BY <1>1, <2>5, <3>1, <3>2 DEF MappedFacts, Files!Open
    <3> QED
      BY <2>5, <3>3 DEF Files!Next
  <2>7. CASE flags # 0
    <3>1. MakesChild(nodes, path, FALSE, 1, r)
      BY <1>6, <1>8, <2>7
    <3>2. /\ TreeOf(r.fs) = Files!With(TreeOf(nodes), path,
                                       [ino |-> r.slot, dir |-> FALSE])
          /\ path # <<>> /\ path \notin DOMAIN TreeOf(nodes)
          /\ Files!Parent(path) \in DOMAIN TreeOf(nodes)
          /\ TreeOf(nodes)[Files!Parent(path)].dir
          /\ r.slot \notin Live(nodes)
      BY <1>1, <1>8, <3>1, MakesMaps DEF MappedFacts
    <3>3. Files!Free(path) /\ tree' = Files!With(tree, path, [ino |-> s, dir |-> FALSE])
      BY <1>1, <2>1, <2>5, <3>2 DEF MappedFacts, Files!Free
    <3>4. Files!Fresh(s)
      BY <2>1, <3>2, SlotFresh
    <3>5. Files!Create(path, s, h)
      BY <2>5, <3>3, <3>4 DEF Files!Create
    <3> QED
      BY <2>2, <2>5, <3>5 DEF Files!Next
  <2> QED
    BY <2>6, <2>7
<1> QED
  BY <1>5, <1>7, <1>8

LEMMA CloseMaps ==
    ASSUME Mapped, Mapped', NEW fd \in Index(fds), Close(fd)
    PROVE  Files!Next
<1>1. MappedFacts
  BY MappedIs
<1>2. /\ tree' = TreeOf(nodes') /\ open' = OpenOf(fds', open_files')
      /\ Tree(nodes')
  BY DEF Mapped, Inv, Whole
<1>3. /\ fd \in Live(fds)
      /\ nodes' = Unref(nodes, At(open_files, fd).node)
      /\ fds' = Free(fds, fd) /\ open_files' = Free(open_files, fd)
  BY CloseSteps DEF Mapped, Inv
<1>4. PICK s : s = At(open_files, fd).node
  OBVIOUS
<1>5. s \in Live(nodes)
  <2>1. fd \in Live(open_files)
    BY <1>1, <1>3 DEF MappedFacts, FdsOK
  <2> QED
    BY <1>1, <1>4, <2>1 DEF MappedFacts, Whole, Held, Users
<1>6. TreeOf(nodes') = TreeOf(nodes)
  BY <1>1, <1>2, <1>3, <1>4, <1>5, UnrefMaps DEF MappedFacts
<1>7. /\ fd \in DOMAIN open
      /\ open' = Files!Without(open, fd)
  BY <1>1, <1>2, <1>3, OpenOfLess DEF MappedFacts
<1>8. Files!Close(fd)
  BY <1>1, <1>2, <1>6, <1>7 DEF MappedFacts, Files!Close
<1> QED
  BY <1>7, <1>8 DEF Files!Next

\* A call of the mount that keeps the tree changes nothing.
LEMMA SameMaps ==
    ASSUME Mapped, Mapped', UNCHANGED <<nodes, fds, open_files>>
    PROVE  UNCHANGED <<tree, open>>
  BY DEF Mapped

\* A call of the mount that takes away one path is Remove().
LEMMA CutMaps ==
    ASSUME Mapped, Mapped', NEW path \in Paths, NEW b,
           b = nodes \/ Cuts(nodes, b, path),
           nodes' = b, UNCHANGED <<fds, open_files>>
    PROVE  Files!Next \/ UNCHANGED <<tree, open>>
<1>1. CASE b = nodes
  BY <1>1, SameMaps
<1>2. CASE Cuts(nodes, b, path)
  <2>1. /\ Typed(nodes) /\ Tree(nodes) /\ tree = TreeOf(nodes)
        /\ open = OpenOf(fds, open_files)
    BY MappedIs DEF MappedFacts
  <2>2. /\ Typed(b) /\ Tree(b) /\ tree' = TreeOf(b)
        /\ open' = OpenOf(fds, open_files)
    BY DEF Mapped, Inv, Basic, Whole
  <2>3. /\ tree' = Files!Without(tree, path)
        /\ path \in DOMAIN tree \ {<<>>}
        /\ \A q \in DOMAIN tree \ {<<>>} : Files!Parent(q) # path
    BY <1>2, <2>1, <2>2, CutsMaps
  <2>4. Files!Remove(path)
    BY <2>1, <2>2, <2>3 DEF Files!Remove
  <2> QED
    BY <2>4 DEF Files!Next
<1> QED
  BY <1>1, <1>2

LEMMA RemoveMaps ==
    ASSUME Mapped, Mapped', Guarded, NEW path \in Paths,
           Remove(path) \/ RmdirPath(path)
    PROVE  Files!Next \/ UNCHANGED <<tree, open>>
<1>1. PICK r : r = GetNode(nodes, path)
  OBVIOUS
<1>2. /\ path \in Seq(Names) /\ Typed(nodes) /\ Tree(nodes)
      /\ Whole(nodes, Users(open_files))
      /\ IsFiniteSet(DOMAIN Users(open_files))
  BY PathType, MappedIs DEF MappedFacts
<1>3. /\ r.fs = nodes /\ r.slot = GetSlot(nodes, path)
      /\ r.err = "OK" => r.slot \in Live(nodes)
  BY <1>1, <1>2, GetNodeFacts
<1>4. \/ r.err # "OK" /\ MountCall(r)
      \/ r.err = "OK" /\ MayRmdir(r.slot) /\ MountCall(Rmdir(nodes, r.slot))
      \/ MountCall(Unlink(nodes, path))
  BY <1>1, Zenon DEF Remove, RmdirPath
<1>5. CASE r.err # "OK" /\ MountCall(r)
  BY <1>3, <1>5, SameMaps DEF MountCall
<1>6. CASE r.err = "OK" /\ MayRmdir(r.slot) /\ MountCall(Rmdir(nodes, r.slot))
  <2>1. GetSlot(nodes, path) \in Live(nodes) \ {0}
    BY <1>3, <1>6 DEF MayRmdir, Guarded
  <2>2. PICK b : b = Rmdir(nodes, GetSlot(nodes, path)).fs
    OBVIOUS
  <2>3. b = nodes \/ Cuts(nodes, b, path)
    BY <1>2, <2>1, <2>2, RmdirMaps
  <2>4. nodes' = b /\ UNCHANGED <<fds, open_files>>
    BY <1>3, <1>6, <2>2 DEF MountCall
  <2> QED
    BY <2>3, <2>4, CutMaps
<1>7. CASE MountCall(Unlink(nodes, path))
  <2>1. PICK b : b = Unlink(nodes, path).fs
    OBVIOUS
  <2>2. b = nodes \/ Cuts(nodes, b, path)
    BY <1>2, <2>1, UnlinkMaps
  <2>3. nodes' = b /\ UNCHANGED <<fds, open_files>>
    BY <1>7, <2>1 DEF MountCall
  <2> QED
    BY <2>2, <2>3, CutMaps
<1> QED
  BY <1>4, <1>5, <1>6, <1>7

LEMMA MkdirMaps ==
    ASSUME Mapped, Mapped', NEW path \in Paths, MkdirPath(path)
    PROVE  Files!Next \/ UNCHANGED <<tree, open>>
<1>1. PICK r : r = Mkdir(nodes, path)
  OBVIOUS
<1>2. /\ path \in Seq(Names) /\ Typed(nodes) /\ tree = TreeOf(nodes)
      /\ Whole(nodes, Users(open_files))
      /\ IsFiniteSet(DOMAIN Users(open_files))
      /\ open = OpenOf(fds, open_files)
  BY PathType, MappedIs DEF MappedFacts
<1>3. /\ r.fs.size <= MaxNodes /\ nodes' = r.fs
      /\ UNCHANGED <<fds, open_files>>
  BY <1>1 DEF MkdirPath, MountCall
<1>4. MakesChild(nodes, path, TRUE, 0, r) \/ r.fs = nodes
  BY <1>1, <1>2, MkdirFacts
<1>5. CASE MakesChild(nodes, path, TRUE, 0, r)
  <2>1. PICK s : s = r.slot
    OBVIOUS
  <2>2. /\ TreeOf(r.fs) = Files!With(TreeOf(nodes), path,
                                     [ino |-> s, dir |-> TRUE])
        /\ path # <<>> /\ path \notin DOMAIN TreeOf(nodes)
        /\ Files!Parent(path) \in DOMAIN TreeOf(nodes)
        /\ TreeOf(nodes)[Files!Parent(path)].dir
        /\ s \notin Live(nodes)
    <3>1. PICK is_dir \in BOOLEAN, count \in Nat : is_dir = TRUE /\ count = 0
      OBVIOUS
    <3>2. MakesChild(nodes, path, is_dir, count, r) /\ (~ is_dir => count = 1)
      BY <1>5, <3>1
    <3>3. /\ TreeOf(r.fs) = Files!With(TreeOf(nodes), path,
                                       [ino |-> r.slot, dir |-> is_dir])
          /\ path # <<>> /\ path \notin DOMAIN TreeOf(nodes)
          /\ Files!Parent(path) \in DOMAIN TreeOf(nodes)
          /\ TreeOf(nodes)[Files!Parent(path)].dir
          /\ r.slot \notin Live(nodes)
      BY <1>2, <1>3, <3>2, MakesMaps
    <3> QED
      BY <2>1, <3>1, <3>3, Zenon
  <2>3. s \in 0 .. MaxNodes - 1
    BY <1>2, <1>3, <1>5, <2>1, AddsWhole
  <2>4. tree' = TreeOf(r.fs) /\ open' = open
    BY <1>2, <1>3 DEF Mapped
  <2>5. Files!Free(path) /\ tree' = Files!With(tree, path, [ino |-> s, dir |-> TRUE])
    BY <1>2, <2>2, <2>4 DEF Files!Free
  <2>6. Files!Fresh(s)
    BY <2>2, SlotFresh
  <2>7. Files!Mkdir(path, s)
    BY <2>4, <2>5, <2>6 DEF Files!Mkdir
  <2> QED
    BY <2>3, <2>7 DEF Files!Next
<1>6. CASE r.fs = nodes
  BY <1>3, <1>6, SameMaps
<1> QED
  BY <1>4, <1>5, <1>6

\* One call of KernelProxy.
LEMMA StepMaps ==
    ASSUME Guarded, "open_root" \in Unguarded => MaxDepth > 0,
           Mapped, Mapped', [MappedNext]_<<vars, tree, open>>
    PROVE  Files!Next \/ UNCHANGED <<tree, open>>
<1> DEFINE Good == Files!Next \/ UNCHANGED <<tree, open>>
<1> HIDE DEF Good
<1>0. Typed(nodes)
  BY MappedIs DEF MappedFacts
<1>1. ASSUME NEW path \in Paths, NEW flags \in {0, 1}, Open(path, flags)
      PROVE  Good
  <2>1. path # <<>> /\ AllocSlot(fds) < MaxFds /\ OpenHandle(path, flags)
    BY <1>1 DEF Open
  <2> QED
    BY <2>1, OpenHandleMaps DEF Good
<1>2. ASSUME NEW flags \in {0, 1}, OpenRoot(flags)
      PROVE  Good
  <2>1. AllocSlot(fds) < MaxFds /\ MaxDepth > 0
    BY <1>2 DEF OpenRoot
  <2>2. CASE UNCHANGED <<nodes, fds, open_files>>
    BY <2>2, SameMaps DEF Good
  <2>3. ASSUME NEW n \in Names, OpenHandle(<<n>>, flags)
        PROVE  Good
    <3>1. <<n>> \in Paths /\ <<n>> # <<>>
      <4>1. 1 \in 0 .. MaxDepth
        BY <2>1, KernelProxyAssumption
      <4>2. <<n>> \in [1 .. 1 -> Names]
        OBVIOUS
      <4> QED
        BY <4>1, <4>2 DEF Paths
    <3> QED
      BY <2>1, <2>3, <3>1, OpenHandleMaps DEF Good
  <2> QED
    BY <1>2, <2>2, <2>3 DEF OpenRoot
<1>3. ASSUME NEW fd \in Index(fds), Close(fd)
      PROVE  Good
  BY <1>3, CloseMaps DEF Good
<1>4. ASSUME NEW path \in Paths, Remove(path) \/ RmdirPath(path)
      PROVE  Good
  BY <1>4, RemoveMaps DEF Good
<1>5. ASSUME NEW path \in Paths, MkdirPath(path)
      PROVE  Good
  BY <1>5, MkdirMaps DEF Good
<1>6. ASSUME NEW path \in Paths, StatPath(path)
      PROVE  Good
  <2>1. GetNode(nodes, path).fs = nodes
    BY <1>0, PathType, GetNodeFacts
  <2>2. UNCHANGED <<nodes, fds, open_files>>
    BY <1>6, <2>1 DEF StatPath, MountCall
  <2> QED
    BY <2>2, SameMaps DEF Good
<1>7. ASSUME NEW fd \in Index(fds), NEW room \in {1, MaxNodes}, GetdentsFd(fd, room)
      PROVE  Good
  <2>1. PICK s : s = At(open_files, At(fds, fd).handle).node
    OBVIOUS
  <2>2. MountCall(Getdents(nodes, s, room))
    BY <1>7, <2>1 DEF GetdentsFd
  <2>3. UNCHANGED <<nodes, fds, open_files>>
    BY <2>2, GetdentsFacts DEF MountCall
  <2> QED
    BY <2>3, SameMaps DEF Good
<1>8. ASSUME UNCHANGED <<vars, tree, open>> PROVE Good
  BY <1>8 DEF Good
<1>9. ASSUME MappedNext PROVE Good
  BY <1>1, <1>2, <1>3, <1>4, <1>5, <1>6, <1>7, <1>9 DEF MappedNext, Next
<1>10. MappedNext \/ UNCHANGED <<vars, tree, open>>
  OBVIOUS
<1>11. Good
  BY <1>8, <1>9, <1>10
<1> QED
  BY <1>11 DEF Good

\* The mapping is kept by every step.
LEMMA MappedStep ==
    ASSUME Guarded, Mapped, [MappedNext]_<<vars, tree, open>>
    PROVE  Mapped'
<1>1. Inv /\ [Next]_vars
  BY DEF Mapped, MappedNext
<1>2. Inv'
  BY <1>1, InvStep
<1>3. tree' = TreeOf(nodes') /\ open' = OpenOf(fds', open_files')
  BY DEF Mapped, MappedNext, vars
<1> QED
  BY <1>2, <1>3 DEF Mapped

\* A new mount has one path, the root, and there are no descriptors.
LEMMA InitMaps ==
    ASSUME MappedInit
    PROVE  Mapped /\ Files!Init
<1>1. Inv
  BY InitBasic, InitWhole DEF MappedInit, Inv
<1>2. Mapped
  BY <1>1 DEF Mapped, MappedInit
<1>3. /\ Typed(nodes) /\ Tree(nodes) /\ tree = TreeOf(nodes)
      /\ open = OpenOf(fds, open_files)
  BY <1>2, MappedIs DEF MappedFacts
<1>4. /\ Live(nodes) = {0} /\ At(nodes, 0).is_dir = TRUE
      /\ Live(fds) = {}
  BY NewMountFacts, EmptyWellFormed DEF MappedInit, Init, MemNode
<1>5. \A q \in Seq(Names) : GetSlot(nodes, q) \in Live(nodes) <=> q = <<>>
  BY <1>3, <1>4, LookupStep
<1>6. <<>> \in Paths /\ <<>> \in Seq(Names) /\ GetSlot(nodes, <<>>) = 0
  <2>1. 0 \in 0 .. MaxDepth
    BY KernelProxyAssumption
  <2>2. <<>> \in [1 .. 0 -> Names]
    OBVIOUS
  <2>3. <<>> \in Paths
    BY <2>1, <2>2 DEF Paths
  <2>4. PICK q : q = <<>> /\ q \in Seq(Names)
    BY <2>3, PathType
  <2>5. GetSlot(nodes, q) = 0
    BY <1>3, <2>4, LookupStep
  <2> QED
    BY <2>3, <2>4, <2>5
<1>7. PICK u : u = TreeOf(nodes)
  OBVIOUS
<1>8. /\ DOMAIN u = {q \in Paths : GetSlot(nodes, q) \in Live(nodes)}
      /\ \A q \in DOMAIN u : u[q] = [ino |-> GetSlot(nodes, q),
                                     dir |-> At(nodes, GetSlot(nodes, q)).is_dir]
      /\ u = [q \in DOMAIN u |-> u[q]]
  BY <1>3, <1>7, TreeOfFacts
<1>9. DOMAIN u = {<<>>}
  BY <1>5, <1>6, <1>8, PathType
<1>10. u[<<>>] = [ino |-> 0, dir |-> TRUE]
  BY <1>4, <1>6, <1>8, <1>9
<1>11. u = [p \in {<<>>} |-> [ino |-> 0, dir |-> TRUE]]
  BY <1>8, <1>9, <1>10
<1>12. open = [f \in {} |-> 0]
  BY <1>3, <1>4 DEF OpenOf
<1>13. 0 \in 0 .. MaxNodes - 1
  BY KernelProxyAssumption
<1> QED
  BY <1>2, <1>3, <1>7, <1>11, <1>12, <1>13 DEF Files!Init

(***************************************************************************)
(* KernelProxy over MemMount implements FileTree, for every set of names,  *)
(* depth of paths and number of inodes and descriptors: each call makes,   *)
(* opens or removes exactly the one path it names, or changes nothing.     *)
(***************************************************************************)
THEOREM TreeRefinement ==
    ASSUME Guarded, "open_root" \in Unguarded => MaxDepth > 0
    PROVE  MappedSpec => ImplementsTree
<1>1. MappedInit => Mapped /\ Files!Init
  BY InitMaps
<1>2. Mapped /\ [MappedNext]_<<vars, tree, open>> => Mapped'
  BY MappedStep
<1>3. Mapped /\ Mapped' /\ [MappedNext]_<<vars, tree, open>>
      => [Files!Next]_Files!vars
  BY StepMaps DEF Files!vars
<1> QED
  BY <1>1, <1>2, <1>3, PTL DEF MappedSpec, ImplementsTree, Files!Spec
===============================================================================
