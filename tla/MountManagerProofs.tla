-------------------------- MODULE MountManagerProofs --------------------------
(***************************************************************************)
(* Proofs about base/PathHandle.cc and base/MountManager.cc, for all       *)
(* mounts, mount points, calls and strings: what Split(), PathCollapse()   *)
(* and FormulateRawPath() make of each other's results, what is in         *)
(* mount_map_, what cwd_ can be, and that the calls that take a path agree *)
(* on where it leads.                                                      *)
(***************************************************************************)
EXTENDS MountManager, SlotAllocatorProofs, SequenceTheorems, FiniteSetTheorems

-------------------------------------------------------------------------------
(* The loops of PathHandle.                                                *)

\* Components as Split() makes them, and the ones PathCollapse() leaves.
Component == {c \in Seq(Chars) : c # <<>> /\ \A i \in 1 .. Len(c) : c[i] # "/"}
Name == {c \in Component : ~ IsDot(c) /\ ~ IsDotDot(c)}

\* The rounds of PathCollapse().
IsNew(path, w) ==
    w = [i \in 0 .. Len(path) |-> IF i = 0 THEN <<>> ELSE Push(w[i - 1], path[i])]

LEMMA CollapseIsNew ==
    ASSUME NEW path
    PROVE  PathCollapse(path) = (CHOOSE w : IsNew(path, w))[Len(path)]
  BY Zenon DEF PathCollapse, IsNew

LEMMA PushType ==
    ASSUME NEW V, NEW v \in Seq(V), NEW c, ~ IsDot(c) /\ ~ IsDotDot(c) => c \in V
    PROVE  Push(v, c) \in Seq(V)
<1>1. v # <<>> => Front(v) \in Seq(V)
  <2> SUFFICES ASSUME v # <<>> PROVE Front(v) \in Seq(V)
    OBVIOUS
  <2>1. Len(v) \in Nat /\ \A i \in 1 .. Len(v) - 1 : v[i] \in V
    OBVIOUS
  <2> QED
    BY <2>1, SubSeqProperties DEF Front
<1>2. CASE IsDot(c)
  BY <1>2 DEF Push
<1>3. CASE ~ IsDot(c) /\ ~ IsDotDot(c)
  <2>1. Push(v, c) = Append(v, c) /\ c \in V
    BY <1>3 DEF Push
  <2> QED
    BY <2>1, AppendProperties
<1>4. CASE ~ IsDot(c) /\ IsDotDot(c)
  BY <1>1, <1>4 DEF Push
<1> QED
  BY <1>2, <1>3, <1>4

\* PathCollapse() of components: the names new_path_ holds after each round.
LEMMA CollapseFacts ==
    ASSUME NEW path \in Seq(Component)
    PROVE  \E w : /\ w \in [0 .. Len(path) -> Seq(Name)] /\ w[0] = <<>>
                  /\ \A i \in 1 .. Len(path) : w[i] = Push(w[i - 1], path[i])
                  /\ PathCollapse(path) = w[Len(path)]
<1>1. PICK n : n = Len(path) /\ n \in Nat
  OBVIOUS
<1>2. PICK V : V = Seq(Name)
  OBVIOUS
<1>3. PICK F : F = [k \in 1 .. n |-> [v \in V |-> Push(v, path[k])]]
  OBVIOUS
<1>4. \A k \in 1 .. n : \A v \in V : Push(v, path[k]) \in V
  <2> SUFFICES ASSUME NEW k \in 1 .. n, NEW v \in V PROVE Push(v, path[k]) \in V
    OBVIOUS
  <2>1. path[k] \in Component
    BY <1>1, ElementOfSeq
  <2>2. ~ IsDot(path[k]) /\ ~ IsDotDot(path[k]) => path[k] \in Name
    BY <2>1 DEF Name
  <2> QED
    BY <1>2, <2>2, PushType
<1>5. F \in [1 .. n -> [V -> V]] /\ <<>> \in V
  BY <1>2, <1>3, <1>4
<1>6. PICK u : /\ u \in [0 .. n -> V] /\ u[0] = <<>>
               /\ \A k \in 1 .. n : u[k] = F[k][u[k - 1]]
  <2>1. PICK x \in V : x = <<>>
    BY <1>5
  <2>2. PICK u : Does(V, x, n, F, u)
    BY <1>1, <1>5, LoopExists
  <2> QED
    BY <2>1, <2>2 DEF Does
<1>7. \A k \in 1 .. n : u[k] = Push(u[k - 1], path[k])
  <2> SUFFICES ASSUME NEW k \in 1 .. n PROVE u[k] = Push(u[k - 1], path[k])
    OBVIOUS
  <2>1. u[k - 1] \in V
    BY <1>1, <1>6
  <2> QED
    BY <1>3, <1>6, <2>1
<1>8. IsNew(path, u)
  <2>1. u = [i \in 0 .. n |-> u[i]]
    BY <1>6
  <2>2. \A i \in 0 .. n : u[i] = IF i = 0 THEN <<>> ELSE Push(u[i - 1], path[i])
    BY <1>1, <1>6, <1>7
  <2> QED
    BY <1>1, <2>1, <2>2 DEF IsNew
<1>9. PICK w : w = CHOOSE x : IsNew(path, x)
  OBVIOUS
<1>10. IsNew(path, w) /\ PathCollapse(path) = w[Len(path)]
  BY <1>8, <1>9, CollapseIsNew
<1>11. /\ DOMAIN w = 0 .. n
       /\ \A i \in 0 .. n : w[i] = IF i = 0 THEN <<>> ELSE Push(w[i - 1], path[i])
  BY <1>1, <1>10 DEF IsNew
<1>12. \A i \in 0 .. n : w[i] = u[i]
  <2> DEFINE T == {i \in 0 .. n : w[i] # u[i]}
  <2> SUFFICES ASSUME T # {} PROVE FALSE
    OBVIOUS
  <2>1. PICK i \in T : \A y \in T : i <= y
    <3>1. T \in SUBSET Nat
      OBVIOUS
    <3> HIDE DEF T
    <3> QED
      BY <3>1, LeastExists
  <2>2. i \in 0 .. n /\ w[i] # u[i]
    BY <2>1
  <2>3. i # 0
    BY <1>6, <1>11, <2>2
  <2>4. i - 1 \in 0 .. n /\ ~ (i <= i - 1) /\ i \in 1 .. n
    BY <1>1, <2>2, <2>3
  <2>5. w[i - 1] = u[i - 1]
    BY <2>1, <2>4
  <2> QED
    BY <1>7, <1>11, <2>2, <2>3, <2>4, <2>5
<1>13. PathCollapse(path) = u[Len(path)]
  BY <1>1, <1>10, <1>12
<1> QED
  BY <1>1, <1>2, <1>6, <1>7, <1>13

LEMMA CollapseType ==
    ASSUME NEW path \in Seq(Component)
    PROVE  PathCollapse(path) \in Seq(Name)
  BY CollapseFacts

LEMMA NamesAreComponents ==
    ASSUME NEW path \in Seq(Name)
    PROVE  path \in Seq(Component)
<1>1. Name \subseteq Component
  BY DEF Name
<1> QED
  BY <1>1, SeqMonotonic

\* The rounds of PathCollapse() on path.
Rounds(path, w) == /\ w \in [0 .. Len(path) -> Seq(Name)] /\ w[0] = <<>>
                   /\ \A i \in 1 .. Len(path) : w[i] = Push(w[i - 1], path[i])
                   /\ PathCollapse(path) = w[Len(path)]

\* Names are pushed one after the other.
LEMMA RoundsOfNames ==
    ASSUME NEW path \in Seq(Component), NEW w, Rounds(path, w),
           NEW n \in 0 .. Len(path), \A i \in 1 .. n : path[i] \in Name
    PROVE  w[n] \in Seq(Name) /\ Len(w[n]) = n /\ \A j \in 1 .. n : w[n][j] = path[j]
<1>1. n \in Nat /\ Len(path) \in Nat /\ n <= Len(path)
  OBVIOUS
<1>2. /\ w[0] = <<>> /\ \A i \in 0 .. n : w[i] \in Seq(Name)
      /\ \A i \in 1 .. n : w[i] = Push(w[i - 1], path[i])
  <2>1. /\ w \in [0 .. Len(path) -> Seq(Name)] /\ w[0] = <<>>
        /\ \A i \in 1 .. Len(path) : w[i] = Push(w[i - 1], path[i])
    BY DEF Rounds
  <2>2. \A i \in 0 .. n : i \in 0 .. Len(path)
    BY <1>1
  <2>3. \A i \in 1 .. n : i \in 1 .. Len(path)
    BY <1>1
  <2>4. \A i \in 0 .. n : w[i] \in Seq(Name)
    BY <2>1, <2>2
  <2>5. \A i \in 1 .. n : w[i] = Push(w[i - 1], path[i])
    BY <2>1, <2>3, Zenon
  <2> QED
    BY <2>1, <2>4, <2>5
<1>4. \A i \in 1 .. n : w[i] = Append(w[i - 1], path[i])
  BY <1>2 DEF Push, Name
<1>5. \A i \in 0 .. n : Len(w[i]) = i /\ \A j \in 1 .. i : w[i][j] = path[j]
  <2> DEFINE T == {i \in 0 .. n : ~ (Len(w[i]) = i /\ \A j \in 1 .. i : w[i][j] = path[j])}
  <2> SUFFICES ASSUME T # {} PROVE FALSE
    OBVIOUS
  <2>1. PICK i \in T : \A y \in T : i <= y
    <3>1. T \in SUBSET Nat
      OBVIOUS
    <3> HIDE DEF T
    <3> QED
      BY <3>1, LeastExists
  <2>2. i \in 0 .. n /\ ~ (Len(w[i]) = i /\ \A j \in 1 .. i : w[i][j] = path[j])
    BY <2>1
  <2>3. i # 0
    BY <1>2, <2>2
  <2>4. i - 1 \in 0 .. n /\ ~ (i <= i - 1) /\ i \in 1 .. n
    BY <1>1, <2>2, <2>3
  <2>5. Len(w[i - 1]) = i - 1 /\ \A j \in 1 .. i - 1 : w[i - 1][j] = path[j]
    BY <2>1, <2>4
  <2>6. w[i - 1] \in Seq(Name) /\ path[i] \in Name
    BY <1>2, <2>4
  <2>7. /\ Len(w[i]) = i /\ w[i][i] = path[i]
        /\ \A j \in 1 .. i - 1 : w[i][j] = w[i - 1][j]
    <3>1. w[i] = Append(w[i - 1], path[i])
      BY <1>4, <2>4
    <3>2. Len(w[i - 1]) + 1 = i
      BY <2>4, <2>5
    <3>3. PICK v, c, z : v = w[i - 1] /\ c = path[i] /\ z = w[i]
      OBVIOUS
    <3>4. v \in Seq(Name) /\ c \in Name /\ z = Append(v, c) /\ Len(v) + 1 = i
      BY <2>5, <2>6, <3>1, <3>2, <3>3
    <3>5. Len(z) = i /\ z[i] = c /\ \A j \in 1 .. Len(v) : z[j] = v[j]
      BY <3>4, AppendProperties
    <3>6. Len(v) = i - 1
      BY <3>4
    <3> QED
      BY <3>3, <3>5, <3>6, Zenon
  <2>8. \A j \in 1 .. i : w[i][j] = path[j]
    <3> SUFFICES ASSUME NEW j \in 1 .. i PROVE w[i][j] = path[j]
      OBVIOUS
    <3>1. CASE j = i
      BY <2>7, <3>1, Zenon
    <3>2. CASE j \in 1 .. i - 1
      BY <2>5, <2>7, <3>2, Zenon
    <3>3. j = i \/ j \in 1 .. i - 1
      BY <2>4
    <3> QED
      BY <3>1, <3>2, <3>3
  <2> QED
    BY <2>2, <2>7, <2>8, Zenon
<1> QED
  BY <1>1, <1>2, <1>5

\* Names are left as they are.
LEMMA CollapseNames ==
    ASSUME NEW path \in Seq(Name)
    PROVE  PathCollapse(path) = path
<1>1. path \in Seq(Component)
  BY NamesAreComponents
<1>2. PICK w : Rounds(path, w)
  BY <1>1, CollapseFacts DEF Rounds
<1>3. PICK n : n = Len(path) /\ n \in 0 .. Len(path)
  OBVIOUS
<1>4. \A i \in 1 .. n : path[i] \in Name
  BY <1>3
<1>5. PICK v : v = w[n]
  OBVIOUS
<1>6. v \in Seq(Name) /\ Len(v) = n /\ \A j \in 1 .. n : v[j] = path[j]
  BY <1>1, <1>2, <1>3, <1>4, <1>5, RoundsOfNames
<1>7. v = path
  BY <1>3, <1>6, SeqEqual
<1> QED
  BY <1>2, <1>3, <1>5, <1>7 DEF Rounds

DotDotName == <<".", ".">>

LEMMA DotDotIsComponent == DotDotName \in Component /\ IsDotDot(DotDotName)
                           /\ ~ IsDot(DotDotName)
<1>1. DotDotName \in Seq(Chars)
  BY MountManagerAssumption DEF DotDotName
<1>2. Len(DotDotName) = 2 /\ DotDotName[1] = "." /\ DotDotName[2] = "."
  BY DEF DotDotName
<1>3. \A i \in 1 .. 2 : DotDotName[i] # "/"
  BY <1>2
<1>4. DotDotName # <<".">>
  BY DEF DotDotName
<1>5. DotDotName # <<>>
  BY DEF DotDotName
<1> QED
  BY <1>1, <1>2, <1>3, <1>4, <1>5 DEF Component, IsDot, IsDotDot, DotDotName

\* ".." behind names takes the last one away.
LEMMA CollapseUp ==
    ASSUME NEW path \in Seq(Name), path # <<>>
    PROVE  PathCollapse(Append(path, DotDotName)) = Front(path)
<1>1. path \in Seq(Component) /\ DotDotName \in Component
  BY NamesAreComponents, DotDotIsComponent
<1>2. PICK q, n : q = Append(path, DotDotName) /\ n = Len(path)
  OBVIOUS
<1>. n \in Nat \ {0}
  BY <1>2, EmptySeq
<1>3. /\ q \in Seq(Component) /\ Len(q) = n + 1 /\ q[n + 1] = DotDotName
      /\ \A i \in 1 .. n : q[i] = path[i]
  BY <1>1, <1>2, AppendProperties
<1>4. PICK w : Rounds(q, w)
  BY <1>3, CollapseFacts DEF Rounds
<1>5. PICK v : v = w[n]
  OBVIOUS
<1>6. v \in Seq(Name) /\ Len(v) = n /\ \A j \in 1 .. n : v[j] = q[j]
  <2>1. n \in 0 .. Len(q) /\ \A i \in 1 .. n : q[i] \in Name
    <3>1. \A i \in 1 .. n : path[i] \in Name
      BY <1>2, ElementOfSeq
    <3>2. \A i \in 1 .. n : q[i] \in Name
      BY <1>3, <3>1
    <3>3. n \in 0 .. Len(q)
      BY <1>3
    <3> QED
      BY <3>2, <3>3
  <2>2. w[n] \in Seq(Name) /\ Len(w[n]) = n /\ \A j \in 1 .. n : w[n][j] = q[j]
    BY <1>3, <1>4, <2>1, RoundsOfNames
  <2> QED
    BY <1>5, <2>2, Zenon
<1>7. v = path
  BY <1>2, <1>3, <1>6, SeqEqual
<1>8. w[n + 1] = Push(v, DotDotName)
  <2>1. n + 1 \in 1 .. Len(q) /\ n + 1 - 1 = n
    BY <1>2, <1>3
  <2>2. PICK k : k = n + 1 /\ k \in 1 .. Len(q) /\ k - 1 = n
    BY <2>1
  <2>3. w[k] = Push(w[k - 1], q[k])
    BY <1>4, <2>2, Zenon DEF Rounds
  <2> QED
    BY <1>3, <1>5, <2>2, <2>3, Zenon
<1>9. Push(v, DotDotName) = Front(path)
  BY <1>7, DotDotIsComponent DEF Push
<1> QED
  BY <1>2, <1>3, <1>4, <1>8, <1>9 DEF Rounds

-------------------------------------------------------------------------------
(* Split().                                                                *)

Slashes(s, ind) == {j \in ind .. Len(s) : s[j] = "/"}

\* One round of the loop, at ind; f is what it does from there on.
FromStep(s, ind, f) ==
    IF ind > Len(s) THEN <<>>
    ELSE IF Slashes(s, ind) = {} THEN <<SubSeq(s, ind, Len(s))>>
    ELSE IF Min(Slashes(s, ind)) = ind THEN f[ind + 1]
    ELSE <<SubSeq(s, ind, Min(Slashes(s, ind)) - 1)>> \o f[Min(Slashes(s, ind)) + 1]

IsFrom(s, f) == f = [ind \in 1 .. Len(s) + 1 |-> FromStep(s, ind, f)]

LEMMA SplitIsFrom ==
    ASSUME NEW s
    PROVE  Split(s) = (CHOOSE f : IsFrom(s, f))[1]
  BY Zenon DEF Split, IsFrom, FromStep, Slashes

\* The first slash.
LEMMA FirstSlash ==
    ASSUME NEW s \in Seq(Chars), NEW ind \in Nat \ {0}, Slashes(s, ind) # {}
    PROVE  LET m == Min(Slashes(s, ind))
           IN  /\ m \in ind .. Len(s) /\ s[m] = "/"
               /\ \A j \in ind .. m - 1 : s[j] # "/"
<1>1. PICK T : T = Slashes(s, ind)
  OBVIOUS
<1>2. T \in SUBSET Nat /\ T # {}
  BY <1>1 DEF Slashes
<1>3. PICK x \in T : \A y \in T : x <= y
  BY <1>2, LeastExists
<1>4. PICK m : m = Min(T)
  OBVIOUS
<1>5. m \in T /\ \A y \in T : m <= y
  BY <1>3, <1>4 DEF Min
<1>6. m \in ind .. Len(s) /\ s[m] = "/"
  BY <1>1, <1>5 DEF Slashes
<1>7. \A j \in ind .. m - 1 : s[j] # "/"
  <2> SUFFICES ASSUME NEW j \in ind .. m - 1, s[j] = "/" PROVE FALSE
    OBVIOUS
  <2>1. j \in ind .. Len(s) /\ ~ (m <= j)
    BY <1>6
  <2>2. j \in T
    BY <1>1, <2>1 DEF Slashes
  <2> QED
    BY <1>5, <2>1, <2>2
<1> QED
  BY <1>1, <1>4, <1>6, <1>7

\* The rounds look at later ones only.
LEMMA FromStepSame ==
    ASSUME NEW s \in Seq(Chars), NEW ind \in 1 .. Len(s) + 1, NEW f, NEW g,
           \A j \in ind + 1 .. Len(s) + 1 : f[j] = g[j]
    PROVE  FromStep(s, ind, f) = FromStep(s, ind, g)
<1>1. Len(s) \in Nat
  OBVIOUS
<1>2. CASE ind > Len(s) \/ Slashes(s, ind) = {}
  BY <1>2 DEF FromStep
<1>3. CASE ind <= Len(s) /\ Slashes(s, ind) # {}
  <2>1. PICK m : m = Min(Slashes(s, ind))
    OBVIOUS
  <2>2. m \in ind .. Len(s)
    BY <1>1, <1>3, <2>1, FirstSlash
  <2>3. ind + 1 \in ind + 1 .. Len(s) + 1 /\ m + 1 \in ind + 1 .. Len(s) + 1
    BY <1>1, <1>3, <2>2
  <2>4. f[ind + 1] = g[ind + 1] /\ f[m + 1] = g[m + 1]
    BY <2>3
  <2> QED
    BY <2>1, <2>4 DEF FromStep
<1> QED
  BY <1>1, <1>2, <1>3

\* The loop exists: it is built from its end.
LEMMA FromExists ==
    ASSUME NEW s \in Seq(Chars)
    PROVE  \E f : IsFrom(s, f)
<1>1. PICK n : n = Len(s) + 1 /\ n \in Nat \ {0}
  OBVIOUS
<1> DEFINE Upto(m, f) == \A ind \in 1 .. n : ind > n - m => f[ind] = FromStep(s, ind, f)
           T == {m \in 0 .. n : ~ \E f : Upto(m, f)}
<1>2. T = {}
  <2> SUFFICES ASSUME T # {} PROVE FALSE
    OBVIOUS
  <2>1. PICK m \in T : \A y \in T : m <= y
    <3>1. T \in SUBSET Nat
      OBVIOUS
    <3> HIDE DEF T
    <3> QED
      BY <3>1, LeastExists
  <2>2. m \in 0 .. n /\ ~ \E f : Upto(m, f)
    BY <2>1
  <2>3. m # 0
    <3>1. Upto(0, <<>>)
      BY <1>1
    <3> QED
      BY <2>2, <3>1
  <2>4. m - 1 \in 0 .. n /\ ~ (m <= m - 1)
    BY <1>1, <2>2, <2>3
  <2>5. PICK f : Upto(m - 1, f)
    BY <2>1, <2>4
  <2> HIDE DEF T
  <2>6. PICK k : k = n - m + 1
    OBVIOUS
  <2>7. k \in 1 .. n
    BY <1>1, <2>2, <2>3, <2>6
  <2>8. PICK g : g = [ind \in 1 .. n |-> IF ind = k THEN FromStep(s, k, f) ELSE f[ind]]
    OBVIOUS
  <2>9. g[k] = FromStep(s, k, f) /\ \A ind \in 1 .. n : ind # k => g[ind] = f[ind]
    BY <2>7, <2>8
  <2>10. \A ind \in k .. n : FromStep(s, ind, g) = FromStep(s, ind, f)
    <3> SUFFICES ASSUME NEW ind \in k .. n
                 PROVE  FromStep(s, ind, g) = FromStep(s, ind, f)
      OBVIOUS
    <3>1. ind \in 1 .. Len(s) + 1 /\ \A j \in ind + 1 .. Len(s) + 1 : g[j] = f[j]
      BY <1>1, <2>7, <2>9
    <3> QED
      BY <3>1, FromStepSame
  <2>11. Upto(m, g)
    <3> SUFFICES ASSUME NEW ind \in 1 .. n, ind > n - m
                 PROVE  g[ind] = FromStep(s, ind, g)
      OBVIOUS
    <3>1. ind \in k .. n
      BY <1>1, <2>2, <2>6
    <3>2. CASE ind = k
      BY <2>9, <2>10, <3>1, <3>2
    <3>3. CASE ind # k
      <4>1. ind > n - (m - 1)
        BY <1>1, <2>2, <2>6, <3>1, <3>3
      <4> QED
        BY <2>5, <2>9, <2>10, <3>1, <3>3, <4>1
    <3> QED
      BY <3>2, <3>3
  <2> QED
    BY <2>2, <2>11
<1>3. n \in 0 .. n
  BY <1>1
<1>4. PICK f : Upto(n, f)
  BY <1>2, <1>3
<1>5. \A ind \in 1 .. n : f[ind] = FromStep(s, ind, f)
  BY <1>1, <1>4
<1>6. PICK g : g = [ind \in 1 .. n |-> f[ind]]
  OBVIOUS
<1>7. \A ind \in 1 .. n : FromStep(s, ind, g) = FromStep(s, ind, f)
  <2> SUFFICES ASSUME NEW ind \in 1 .. n
               PROVE  FromStep(s, ind, g) = FromStep(s, ind, f)
    OBVIOUS
  <2>1. ind \in 1 .. Len(s) + 1 /\ \A j \in ind + 1 .. Len(s) + 1 : g[j] = f[j]
    BY <1>1, <1>6
  <2> QED
    BY <2>1, FromStepSame
<1>8. g = [ind \in 1 .. n |-> FromStep(s, ind, g)]
  BY <1>5, <1>6, <1>7
<1> QED
  BY <1>1, <1>8 DEF IsFrom

\* f[ind] is what the loop makes of s from ind on.
Loop(s, f) == /\ \A ind \in 1 .. Len(s) + 1 : f[ind] = FromStep(s, ind, f)
              /\ Split(s) = f[1]

LEMMA LoopOf ==
    ASSUME NEW s \in Seq(Chars)
    PROVE  \E f : Loop(s, f)
<1>1. PICK f : f = CHOOSE g : IsFrom(s, g)
  OBVIOUS
<1>2. IsFrom(s, f) /\ Split(s) = f[1]
  BY <1>1, FromExists, SplitIsFrom
<1>3. \A ind \in 1 .. Len(s) + 1 : f[ind] = FromStep(s, ind, f)
  BY <1>2 DEF IsFrom
<1> QED
  BY <1>2, <1>3 DEF Loop

\* Split() makes components: not empty, and without a slash.
LEMMA SplitType ==
    ASSUME NEW s \in Seq(Chars)
    PROVE  Split(s) \in Seq(Component)
<1>1. PICK f : Loop(s, f)
  BY LoopOf
<1>2. PICK n : n = Len(s) + 1 /\ n \in Nat \ {0}
  OBVIOUS
<1>3. \A i, j \in 1 .. Len(s) : i <= j /\ (\A k \in i .. j : s[k] # "/")
                                  => SubSeq(s, i, j) \in Component
  <2> SUFFICES ASSUME NEW i \in 1 .. Len(s), NEW j \in 1 .. Len(s), i <= j,
                      \A k \in i .. j : s[k] # "/"
               PROVE  SubSeq(s, i, j) \in Component
    OBVIOUS
  <2>1. PICK c : c = SubSeq(s, i, j)
    OBVIOUS
  <2>2. i \in Int /\ j \in Int /\ \A k \in i .. j : s[k] \in Chars
    BY ElementOfSeq
  <2>3. /\ c \in Seq(Chars) /\ Len(c) = j - i + 1
        /\ \A k \in 1 .. j - i + 1 : c[k] = s[i + k - 1]
    BY <2>1, <2>2, SubSeqProperties
  <2>4. \A k \in 1 .. j - i + 1 : i + k - 1 \in i .. j
    BY <2>2
  <2>5. c # <<>>
    BY <2>2, <2>3
  <2> QED
    BY <2>1, <2>3, <2>4, <2>5 DEF Component
<1> DEFINE T == {m \in 0 .. n - 1 : f[n - m] \notin Seq(Component)}
<1>4. T = {}
  <2> SUFFICES ASSUME T # {} PROVE FALSE
    OBVIOUS
  <2>1. PICK m \in T : \A y \in T : m <= y
    <3>1. T \in SUBSET Nat
      BY <1>2
    <3> HIDE DEF T
    <3> QED
      BY <3>1, LeastExists
  <2>2. m \in 0 .. n - 1 /\ f[n - m] \notin Seq(Component)
    BY <2>1
  <2>3. \A y \in 0 .. n - 1 : y < m => f[n - y] \in Seq(Component)
    BY <2>1, <2>2
  <2> HIDE DEF T
  <2>4. PICK ind : ind = n - m
    OBVIOUS
  <2>5. ind \in 1 .. Len(s) + 1 /\ f[ind] \notin Seq(Component)
    BY <1>2, <2>2, <2>4
  <2>6. \A j \in ind + 1 .. n : f[j] \in Seq(Component)
    <3> SUFFICES ASSUME NEW j \in ind + 1 .. n PROVE f[j] \in Seq(Component)
      OBVIOUS
    <3>1. PICK y : y = n - j
      OBVIOUS
    <3>2. y \in 0 .. n - 1 /\ y < m /\ n - y = j
      BY <1>2, <2>2, <2>4, <3>1
    <3> QED
      BY <2>3, <3>2
  <2>7. f[ind] = FromStep(s, ind, f)
    BY <1>1, <2>5 DEF Loop
  <2>8. CASE ind > Len(s)
    BY <2>5, <2>7, <2>8 DEF FromStep
  <2>9. CASE ind <= Len(s) /\ Slashes(s, ind) = {}
    <3>1. f[ind] = <<SubSeq(s, ind, Len(s))>>
      BY <1>2, <2>5, <2>7, <2>9 DEF FromStep
    <3>2. SubSeq(s, ind, Len(s)) \in Component
      BY <1>2, <1>3, <2>5, <2>9 DEF Slashes
    <3> QED
      BY <2>5, <3>1, <3>2
  <2>10. CASE ind <= Len(s) /\ Slashes(s, ind) # {}
    <3>1. PICK x : x = Min(Slashes(s, ind))
      OBVIOUS
    <3>2. x \in ind .. Len(s) /\ s[x] = "/" /\ \A j \in ind .. x - 1 : s[j] # "/"
      BY <2>5, <2>10, <3>1, FirstSlash
    <3>3. CASE x = ind
      <4>1. f[ind] = f[ind + 1]
        BY <1>2, <2>5, <2>7, <2>10, <3>1, <3>3 DEF FromStep
      <4>2. ind + 1 \in ind + 1 .. n
        BY <1>2, <2>5, <2>10
      <4> QED
        BY <2>5, <2>6, <4>1, <4>2
    <3>4. CASE x # ind
      <4>1. f[ind] = <<SubSeq(s, ind, x - 1)>> \o f[x + 1]
        BY <1>2, <2>5, <2>7, <2>10, <3>1, <3>4 DEF FromStep
      <4>2. SubSeq(s, ind, x - 1) \in Component
        BY <1>2, <1>3, <2>5, <3>2, <3>4
      <4>3. f[x + 1] \in Seq(Component)
        BY <1>2, <2>5, <2>6, <3>2
      <4>4. <<SubSeq(s, ind, x - 1)>> \in Seq(Component)
        BY <4>2
      <4> QED
        BY <2>5, <4>1, <4>3, <4>4, ConcatProperties
    <3> QED
      BY <3>3, <3>4
  <2> QED
    BY <1>2, <2>5, <2>8, <2>9, <2>10
<1>5. n - 1 \in 0 .. n - 1 /\ n - (n - 1) = 1
  BY <1>2
<1>6. f[1] \in Seq(Component)
  BY <1>4, <1>5
<1> QED
  BY <1>1, <1>6 DEF Loop

\* s is b slashes and then the components of P with slashes between them;
\* component k is followed by position e[k].
Spells(s, P, b, e) ==
    /\ P \in Seq(Component) /\ P # <<>> /\ b \in Nat
    /\ e \in [0 .. Len(P) -> Nat] /\ e[0] = b
    /\ \A k \in 1 .. Len(P) : e[k] = e[k - 1] + Len(P[k]) + 1
    /\ s \in Seq(Chars) /\ Len(s) = e[Len(P)] - 1
    /\ \A i \in 1 .. b : s[i] = "/"
    /\ \A k \in 1 .. Len(P) : \A i \in 1 .. Len(P[k]) : s[e[k - 1] + i] = P[k][i]
    /\ \A k \in 1 .. Len(P) - 1 : s[e[k]] = "/"

LEMMA EndsGrow ==
    ASSUME NEW s, NEW P, NEW b, NEW e, Spells(s, P, b, e), NEW k \in 0 .. Len(P)
    PROVE  e[k] <= e[Len(P)]
<1>1. PICK n : n = Len(P) /\ n \in Nat
  BY DEF Spells
<1>2. e \in [0 .. n -> Nat]
  BY <1>1 DEF Spells
<1>3. \A j \in 1 .. n : e[j - 1] <= e[j]
  <2> SUFFICES ASSUME NEW j \in 1 .. n PROVE e[j - 1] <= e[j]
    OBVIOUS
  <2>1. e[j] = e[j - 1] + Len(P[j]) + 1
    BY <1>1 DEF Spells
  <2>2. P[j] \in Component
    BY <1>1, ElementOfSeq DEF Spells
  <2>3. Len(P[j]) \in Nat
    BY <2>2 DEF Component
  <2>4. j \in 0 .. n /\ j - 1 \in 0 .. n
    BY <1>1
  <2>5. e[j] \in Nat /\ e[j - 1] \in Nat
    BY <1>2, <2>4
  <2> QED
    BY <2>1, <2>3, <2>5
<1> DEFINE T == {m \in 0 .. n : ~ (e[n - m] <= e[n])}
<1>4. T = {}
  <2> SUFFICES ASSUME T # {} PROVE FALSE
    OBVIOUS
  <2>1. PICK m \in T : \A y \in T : m <= y
    <3>1. T \in SUBSET Nat
      OBVIOUS
    <3> HIDE DEF T
    <3> QED
      BY <3>1, LeastExists
  <2>2. m \in 0 .. n /\ ~ (e[n - m] <= e[n])
    BY <2>1
  <2>3. m # 0
    BY <1>1, <1>2, <2>2
  <2>4. m - 1 \in 0 .. n /\ ~ (m <= m - 1)
    BY <1>1, <2>2, <2>3
  <2>5. e[n - (m - 1)] <= e[n]
    BY <2>1, <2>4
  <2> HIDE DEF T
  <2>6. PICK j : j = n - (m - 1)
    OBVIOUS
  <2>7. j \in 1 .. n /\ j - 1 = n - m /\ j \in 0 .. n /\ j - 1 \in 0 .. n
    BY <1>1, <2>2, <2>3, <2>6
  <2>8. e[j - 1] <= e[j] /\ e[j] \in Nat /\ e[j - 1] \in Nat /\ e[n] \in Nat
    <3>1. e[j - 1] <= e[j]
      BY <1>3, <2>7
    <3>2. n \in 0 .. n
      BY <1>1
    <3> QED
      BY <1>2, <2>7, <3>1, <3>2
  <2> QED
    BY <2>2, <2>5, <2>6, <2>7, <2>8
<1>5. n - k \in 0 .. n /\ n - (n - k) = k
  BY <1>1
<1> QED
  BY <1>1, <1>4, <1>5

\* The component that starts behind e[k].
LEMMA SplitRound ==
    ASSUME NEW s, NEW P, NEW b, NEW e, Spells(s, P, b, e), NEW f, Loop(s, f),
           NEW k \in 1 .. Len(P)
    PROVE  /\ e[k - 1] + 1 \in 1 .. Len(s)
           /\ k = Len(P) => f[e[k - 1] + 1] = <<P[k]>>
           /\ k # Len(P) => f[e[k - 1] + 1] = <<P[k]>> \o f[e[k] + 1]
<1>1. PICK n, c, ind, L : n = Len(P) /\ c = P[k] /\ ind = e[k - 1] + 1 /\ L = Len(c)
  OBVIOUS
<1>2. /\ n \in Nat /\ k \in 1 .. n /\ k \in 0 .. n /\ k - 1 \in 0 .. n /\ n \in 0 .. n
      /\ e \in [0 .. n -> Nat]
  BY <1>1 DEF Spells
<1>3. c \in Component
  BY <1>1, ElementOfSeq DEF Spells
<1>4. c \in Seq(Chars) /\ L \in Nat \ {0} /\ \A i \in 1 .. L : c[i] # "/"
  BY <1>1, <1>3, EmptySeq DEF Component
<1>5. /\ ind \in Nat \ {0} /\ e[k] \in Nat /\ e[k] = ind + L
      /\ e[n] \in Nat /\ e[k] <= e[n] /\ Len(s) = e[n] - 1 /\ s \in Seq(Chars)
  <2>1. e[k] = e[k - 1] + L + 1 /\ Len(s) = e[n] - 1 /\ s \in Seq(Chars)
    BY <1>1 DEF Spells
  <2>2. e[k] <= e[n]
    BY <1>1, <1>2, EndsGrow
  <2>3. e[k] \in Nat /\ e[k - 1] \in Nat /\ e[n] \in Nat
    BY <1>2
  <2>4. PICK x, y, z : x = e[k - 1] /\ y = e[k] /\ z = e[n]
    OBVIOUS
  <2>5. x \in Nat /\ y = x + L + 1 /\ ind = x + 1
    BY <1>1, <2>1, <2>3, <2>4
  <2>6. ind \in Nat \ {0} /\ y = ind + L
    BY <1>4, <2>5
  <2> QED
    BY <2>1, <2>2, <2>3, <2>4, <2>6
<1>6. \A i \in 1 .. L : s[ind + i - 1] = c[i]
  <2>1. \A i \in 1 .. L : s[e[k - 1] + i] = c[i]
    BY <1>1 DEF Spells
  <2>2. \A i \in 1 .. L : e[k - 1] + i = ind + i - 1
    <3>1. PICK x : x = e[k - 1]
      OBVIOUS
    <3>2. x \in Nat /\ ind = x + 1
      BY <1>1, <1>2, <3>1
    <3>3. \A i \in 1 .. L : x + i = ind + i - 1
      BY <1>4, <3>2
    <3> QED
      BY <3>1, <3>3
  <2> QED
    BY <2>1, <2>2, Zenon
<1>7. \A j \in ind .. ind + L - 1 : s[j] # "/"
  <2> SUFFICES ASSUME NEW j \in ind .. ind + L - 1 PROVE s[j] # "/"
    OBVIOUS
  <2>1. PICK i : i = j - ind + 1
    OBVIOUS
  <2>2. i \in 1 .. L /\ ind + i - 1 = j
    BY <1>4, <1>5, <2>1
  <2> QED
    BY <1>4, <1>6, <2>2
<1>8. SubSeq(s, ind, ind + L - 1) = c
  <2>1. PICK d : d = SubSeq(s, ind, ind + L - 1)
    OBVIOUS
  <2>2. /\ ind \in Int /\ ind + L - 1 \in Int /\ ind <= ind + L - 1
        /\ ind + L - 1 - ind + 1 = L
        /\ \A i \in ind .. ind + L - 1 : i \in 1 .. Len(s)
    BY <1>4, <1>5
  <2>3. \A i \in ind .. ind + L - 1 : s[i] \in Chars
    BY <1>5, <2>2, ElementOfSeq
  <2>4. /\ d \in Seq(Chars) /\ Len(d) = L
        /\ \A i \in 1 .. L : d[i] = s[ind + i - 1]
    <3>1. PICK j : j = ind + L - 1
      OBVIOUS
    <3>2. ind \in Int /\ j \in Int /\ ind <= j /\ j - ind + 1 = L
      BY <1>4, <1>5, <3>1
    <3>3. \A i \in ind .. j : s[i] \in Chars
      BY <2>3, <3>1
    <3>4. /\ SubSeq(s, ind, j) \in Seq(Chars)
          /\ Len(SubSeq(s, ind, j)) = j - ind + 1
          /\ \A i \in 1 .. j - ind + 1 : SubSeq(s, ind, j)[i] = s[ind + i - 1]
      BY <3>2, <3>3, SubSeqProperties
    <3> QED
      BY <2>1, <3>1, <3>2, <3>4
  <2>5. \A i \in 1 .. L : d[i] = c[i]
    BY <1>6, <2>4
  <2>6. d = c
    BY <1>1, <1>4, <2>4, <2>5, SeqEqual
  <2> QED
    BY <2>1, <2>6
<1>9. ind \in 1 .. Len(s) /\ ind \in 1 .. Len(s) + 1 /\ ~ (ind > Len(s))
  BY <1>4, <1>5
<1>10. f[ind] = FromStep(s, ind, f)
  BY <1>9 DEF Loop
<1>11. CASE k = n
  <2>1. Len(s) = ind + L - 1
    <3>1. e[k] = ind + L /\ Len(s) = e[k] - 1
      BY <1>5, <1>11
    <3>2. PICK y : y = e[k]
      OBVIOUS
    <3>3. y = ind + L /\ Len(s) = y - 1
      BY <3>1, <3>2
    <3> QED
      BY <1>4, <1>5, <3>3
  <2>2. Slashes(s, ind) = {}
    BY <1>7, <2>1 DEF Slashes
  <2>3. f[ind] = <<SubSeq(s, ind, Len(s))>>
    BY <1>9, <1>10, <2>2 DEF FromStep
  <2>4. f[ind] = <<c>>
    BY <1>8, <2>1, <2>3
  <2> QED
    BY <1>1, <1>9, <1>11, <2>4
<1>12. CASE k # n
  <2>1. PICK m : m = Min(Slashes(s, ind))
    OBVIOUS
  <2>2. s[e[k]] = "/" /\ e[k] \in ind .. Len(s)
    <3>1. k \in 1 .. n - 1 /\ k + 1 \in 1 .. n /\ k + 1 \in 0 .. n /\ k + 1 - 1 = k
      BY <1>2, <1>12
    <3>2. s[e[k]] = "/"
      BY <1>1, <3>1 DEF Spells
    <3>3. e[k + 1] = e[k] + Len(P[k + 1]) + 1
      BY <1>1, <3>1 DEF Spells
    <3>4. P[k + 1] \in Component
      BY <1>1, <3>1, ElementOfSeq DEF Spells
    <3>5. Len(P[k + 1]) \in Nat \ {0}
      BY <3>4, EmptySeq DEF Component
    <3>6. e[k + 1] <= e[n] /\ e[k + 1] \in Nat
      BY <1>1, <1>2, <3>1, EndsGrow
    <3>7. PICK y, z, v, M : y = e[k] /\ z = e[n] /\ v = e[k + 1] /\ M = Len(P[k + 1])
      OBVIOUS
    <3>8. /\ y \in Nat /\ z \in Nat /\ v \in Nat /\ M \in Nat \ {0}
          /\ y = ind + L /\ v = y + M + 1 /\ v <= z /\ Len(s) = z - 1
      BY <1>5, <3>3, <3>5, <3>6, <3>7
    <3>9. y \in ind .. Len(s)
      BY <1>4, <1>5, <3>8
    <3> QED
      BY <3>2, <3>7, <3>9
  <2>3. Slashes(s, ind) # {}
    BY <2>2 DEF Slashes
  <2>4. m \in ind .. Len(s) /\ s[m] = "/" /\ \A j \in ind .. m - 1 : s[j] # "/"
    BY <1>5, <2>1, <2>3, FirstSlash
  <2>5. m = ind + L
    <3>1. ~ (m < ind + L)
      BY <1>4, <1>5, <1>7, <2>4
    <3>2. ~ (m > ind + L)
      BY <1>4, <1>5, <2>2, <2>4
    <3> QED
      BY <1>4, <1>5, <2>4, <3>1, <3>2
  <2>6. f[ind] = <<SubSeq(s, ind, m - 1)>> \o f[m + 1]
    <3>1. m # ind
      BY <1>4, <1>5, <2>5
    <3> QED
      BY <1>9, <1>10, <2>1, <2>3, <3>1 DEF FromStep
  <2>7. m - 1 = ind + L - 1 /\ m + 1 = e[k] + 1
    BY <1>4, <1>5, <2>5
  <2>8. f[ind] = <<c>> \o f[e[k] + 1]
    BY <1>8, <2>6, <2>7
  <2> QED
    BY <1>1, <1>9, <1>12, <2>8
<1> QED
  BY <1>11, <1>12

\* Split() gives back the components that were spelled.
LEMMA SplitSpelled ==
    ASSUME NEW s, NEW P, NEW b, NEW e, Spells(s, P, b, e)
    PROVE  Split(s) = P
<1>1. PICK n : n = Len(P)
  OBVIOUS
<1>2. /\ s \in Seq(Chars) /\ P \in Seq(Component) /\ n \in Nat \ {0}
      /\ e \in [0 .. n -> Nat] /\ b \in Nat /\ e[0] = b
  BY <1>1, EmptySeq DEF Spells
<1>3. PICK f : Loop(s, f)
  BY <1>2, LoopOf
<1> DEFINE T == {m \in 0 .. n - 1 : f[e[n - m - 1] + 1] # SubSeq(P, n - m, n)}
<1>4. T = {}
  <2> SUFFICES ASSUME T # {} PROVE FALSE
    OBVIOUS
  <2>1. PICK m \in T : \A y \in T : m <= y
    <3>1. T \in SUBSET Nat
      BY <1>2
    <3> HIDE DEF T
    <3> QED
      BY <3>1, LeastExists
  <2>2. m \in 0 .. n - 1 /\ f[e[n - m - 1] + 1] # SubSeq(P, n - m, n)
    BY <2>1
  <2>3. m # 0 => f[e[n - (m - 1) - 1] + 1] = SubSeq(P, n - (m - 1), n)
    <3>1. m # 0 => m - 1 \in 0 .. n - 1 /\ ~ (m <= m - 1)
      BY <1>2, <2>2
    <3> QED
      BY <2>1, <3>1
  <2> HIDE DEF T
  <2>4. PICK k : k = n - m
    OBVIOUS
  <2>5. /\ k \in 1 .. n /\ n - m - 1 = k - 1
        /\ n - (m - 1) - 1 = k /\ n - (m - 1) = k + 1 /\ (m = 0 <=> k = n)
    BY <1>2, <2>2, <2>4
  <2>6. /\ f[e[k - 1] + 1] # SubSeq(P, k, n)
        /\ k # n => f[e[k] + 1] = SubSeq(P, k + 1, n)
    BY <2>2, <2>3, <2>4, <2>5
  <2>7. /\ k = n => f[e[k - 1] + 1] = <<P[k]>>
        /\ k # n => f[e[k - 1] + 1] = <<P[k]>> \o f[e[k] + 1]
    BY <1>1, <1>3, <2>5, SplitRound
  <2>8. SubSeq(P, k, n) = <<P[k]>> \o SubSeq(P, k + 1, n)
    BY <1>1, <1>2, <2>5, SubSeqRecursiveFirst
  <2>9. CASE k = n
    <3>1. SubSeq(P, k + 1, n) = <<>>
      BY <1>2, <2>5, <2>9, SubSeqEmpty
    <3>2. <<P[k]>> \in Seq(Component)
      BY <1>1, <1>2, <2>5
    <3>3. <<P[k]>> \o <<>> = <<P[k]>>
      BY <3>2, ConcatEmptySeq
    <3> QED
      BY <2>6, <2>7, <2>8, <2>9, <3>1, <3>3
  <2> QED
    BY <2>6, <2>7, <2>8, <2>9
<1>5. f[b + 1] = P
  <2>1. n - 1 \in 0 .. n - 1 /\ n - (n - 1) - 1 = 0 /\ n - (n - 1) = 1
    BY <1>2
  <2>2. f[e[0] + 1] = SubSeq(P, 1, n)
    BY <1>4, <2>1
  <2> QED
    BY <1>1, <1>2, <2>2, SubSeqFull
<1>6. b <= Len(s)
  <2>1. 1 \in 1 .. Len(P) /\ 1 - 1 = 0
    BY <1>1, <1>2
  <2>2. e[1 - 1] + 1 \in 1 .. Len(s)
    BY <1>3, <2>1, SplitRound
  <2> QED
    BY <1>2, <2>1, <2>2
<1> DEFINE U == {i \in 0 .. b : f[1] # f[i + 1]}
<1>7. U = {}
  <2> SUFFICES ASSUME U # {} PROVE FALSE
    OBVIOUS
  <2>1. PICK i \in U : \A y \in U : i <= y
    <3>1. U \in SUBSET Nat
      BY <1>2
    <3> HIDE DEF U
    <3> QED
      BY <3>1, LeastExists
  <2>2. i \in 0 .. b /\ f[1] # f[i + 1]
    BY <2>1
  <2>3. i # 0
    BY <2>2
  <2>4. i - 1 \in 0 .. b /\ ~ (i <= i - 1) /\ i \in 1 .. b /\ i - 1 + 1 = i
    BY <1>2, <2>2, <2>3
  <2>5. f[1] = f[i]
    BY <2>1, <2>4
  <2> HIDE DEF U
  <2>6. s[i] = "/" /\ i \in 1 .. Len(s) /\ i \in 1 .. Len(s) + 1 /\ i \in Nat \ {0}
    <3>1. s[i] = "/"
      BY <2>4 DEF Spells
    <3> QED
      BY <1>2, <1>6, <2>4, <3>1
  <2>7. Slashes(s, i) # {}
    BY <1>2, <2>6 DEF Slashes
  <2>8. PICK m : m = Min(Slashes(s, i))
    OBVIOUS
  <2>9. m \in i .. Len(s) /\ \A j \in i .. m - 1 : s[j] # "/"
    BY <1>2, <2>6, <2>7, <2>8, FirstSlash
  <2>10. m = i
    BY <2>6, <2>9
  <2>11. f[i] = f[i + 1]
    <3>1. f[i] = FromStep(s, i, f) /\ ~ (i > Len(s))
      BY <1>2, <1>3, <2>6 DEF Loop
    <3> QED
      BY <2>7, <2>8, <2>10, <3>1 DEF FromStep
  <2> QED
    BY <2>2, <2>5, <2>11
<1>8. f[1] = f[b + 1]
  <2>1. b \in 0 .. b
    BY <1>2
  <2> QED
    BY <1>7, <2>1
<1> QED
  BY <1>3, <1>5, <1>8 DEF Loop

-------------------------------------------------------------------------------
(* FormulateRawPath().                                                     *)

IsSpell(ph, w) ==
    w = [i \in 0 .. Len(ph.path) |->
            IF i = 0 THEN IF ph.is_absolute THEN Slash ELSE <<>>
            ELSE w[i - 1] \o ph.path[i] \o Slash]

Spelt(ph) == (CHOOSE w : IsSpell(ph, w))[Len(ph.path)]

LEMMA RawIsSpell ==
    ASSUME NEW ph
    PROVE  FormulateRawPath(ph) = IF Len(Spelt(ph)) <= 1 THEN Spelt(ph)
                                  ELSE Front(Spelt(ph))
  BY Zenon DEF FormulateRawPath, IsSpell, Spelt

\* The strings that the loop has put together after each round.
Writes(ph, w) ==
    /\ w \in [0 .. Len(ph.path) -> Seq(Chars)]
    /\ w[0] = IF ph.is_absolute THEN Slash ELSE <<>>
    /\ \A i \in 1 .. Len(ph.path) : w[i] = w[i - 1] \o ph.path[i] \o Slash
    /\ Spelt(ph) = w[Len(ph.path)]

LEMMA SlashIsString == Slash \in Seq(Chars) /\ Len(Slash) = 1 /\ Slash[1] = "/"
<1>1. "/" \in Chars
  BY MountManagerAssumption
<1> QED
  BY <1>1 DEF Slash

LEMMA WritesOf ==
    ASSUME NEW ph, ph.path \in Seq(Component)
    PROVE  \E w : Writes(ph, w)
<1>1. PICK P, n : P = ph.path /\ n = Len(P)
  OBVIOUS
<1>2. PICK V : V = Seq(Chars)
  OBVIOUS
<1>3. PICK x : x = IF ph.is_absolute THEN Slash ELSE <<>>
  OBVIOUS
<1>4. x \in V /\ n \in Nat /\ P \in Seq(Component)
  BY <1>1, <1>2, <1>3, SlashIsString
<1>5. PICK F : F = [k \in 1 .. n |-> [v \in V |-> v \o P[k] \o Slash]]
  OBVIOUS
<1>6. \A k \in 1 .. n : \A v \in V : v \o P[k] \o Slash \in V
  <2> SUFFICES ASSUME NEW k \in 1 .. n, NEW v \in V PROVE v \o P[k] \o Slash \in V
    OBVIOUS
  <2>1. P[k] \in Component
    BY <1>1, <1>4, ElementOfSeq
  <2>2. P[k] \in Seq(Chars)
    BY <2>1 DEF Component
  <2>3. v \o P[k] \in Seq(Chars)
    BY <1>2, <2>2, ConcatProperties
  <2> QED
    BY <1>2, <2>3, SlashIsString, ConcatProperties
<1>7. F \in [1 .. n -> [V -> V]]
  BY <1>5, <1>6
<1>8. PICK u : Does(V, x, n, F, u)
  BY <1>4, <1>7, LoopExists
<1>9. /\ u \in [0 .. n -> V] /\ u[0] = x
      /\ \A k \in 1 .. n : u[k] = u[k - 1] \o P[k] \o Slash
  <2>1. /\ u \in [0 .. n -> V] /\ u[0] = x
        /\ \A k \in 1 .. n : u[k] = F[k][u[k - 1]]
    BY <1>8 DEF Does
  <2>2. \A k \in 1 .. n : u[k - 1] \in V
    BY <1>4, <2>1
  <2> QED
    BY <1>5, <2>1, <2>2
<1>10. IsSpell(ph, u)
  <2>1. u = [i \in 0 .. n |-> u[i]]
    BY <1>9
  <2>2. \A i \in 0 .. n : u[i] = IF i = 0 THEN x ELSE u[i - 1] \o P[i] \o Slash
    <3>1. \A i \in 0 .. n : i # 0 => i \in 1 .. n
      BY <1>4
    <3> QED
      BY <1>9, <3>1, Zenon
  <2> QED
    BY <1>1, <1>3, <2>1, <2>2 DEF IsSpell
<1>11. PICK w : w = CHOOSE v : IsSpell(ph, v)
  OBVIOUS
<1>12. IsSpell(ph, w) /\ Spelt(ph) = w[n]
  BY <1>1, <1>10, <1>11 DEF Spelt
<1>13. \A i \in 0 .. n : w[i] = IF i = 0 THEN x ELSE w[i - 1] \o P[i] \o Slash
  BY <1>1, <1>3, <1>12 DEF IsSpell
<1>14. \A i \in 0 .. n : w[i] = u[i]
  <2> DEFINE T == {i \in 0 .. n : w[i] # u[i]}
  <2> SUFFICES ASSUME T # {} PROVE FALSE
    OBVIOUS
  <2>1. PICK i \in T : \A y \in T : i <= y
    <3>1. T \in SUBSET Nat
      OBVIOUS
    <3> HIDE DEF T
    <3> QED
      BY <3>1, LeastExists
  <2>2. i \in 0 .. n /\ w[i] # u[i]
    BY <2>1
  <2>3. i # 0
    BY <1>9, <1>13, <2>2
  <2>4. i - 1 \in 0 .. n /\ ~ (i <= i - 1) /\ i \in 1 .. n
    BY <1>4, <2>2, <2>3
  <2>5. w[i - 1] = u[i - 1]
    BY <2>1, <2>4
  <2> QED
    BY <1>9, <1>13, <2>2, <2>3, <2>4, <2>5
<1>15. Spelt(ph) = u[n]
  BY <1>4, <1>12, <1>14
<1>16. Writes(ph, u)
  BY <1>1, <1>2, <1>3, <1>9, <1>15 DEF Writes
<1> QED
  BY <1>16

\* One round of it.
Glue(v, c) == v \o c \o Slash

LEMMA WriteStep ==
    ASSUME NEW v \in Seq(Chars), NEW c \in Seq(Chars), NEW z, z = Glue(v, c)
    PROVE  /\ z \in Seq(Chars) /\ Len(z) = Len(v) + Len(c) + 1
           /\ \A i \in 1 .. Len(v) : z[i] = v[i]
           /\ \A i \in 1 .. Len(c) : z[Len(v) + i] = c[i]
           /\ z[Len(z)] = "/"
<1>1. PICK y, m, k : y = v \o c /\ m = Len(v) /\ k = Len(c)
  OBVIOUS
<1>2. m \in Nat /\ k \in Nat
  BY <1>1
<1>3. /\ y \in Seq(Chars) /\ Len(y) = m + k
      /\ \A i \in 1 .. m + k : y[i] = IF i <= m THEN v[i] ELSE c[i - m]
  BY <1>1, ConcatProperties
<1>4. /\ z \in Seq(Chars) /\ Len(z) = m + k + 1
      /\ \A i \in 1 .. m + k + 1 : z[i] = IF i <= m + k THEN y[i] ELSE Slash[i - (m + k)]
  <2>1. z = y \o Slash
    BY <1>1 DEF Glue
  <2>2. /\ z \in Seq(Chars) /\ Len(z) = Len(y) + Len(Slash)
        /\ \A i \in 1 .. Len(y) + Len(Slash) :
               z[i] = IF i <= Len(y) THEN y[i] ELSE Slash[i - Len(y)]
    <3>1. PICK sl : sl = Slash
      OBVIOUS
    <3>2. sl \in Seq(Chars)
      BY <3>1, SlashIsString
    <3>3. /\ y \o sl \in Seq(Chars) /\ Len(y \o sl) = Len(y) + Len(sl)
          /\ \A i \in 1 .. Len(y) + Len(sl) :
                 (y \o sl)[i] = IF i <= Len(y) THEN y[i] ELSE sl[i - Len(y)]
      BY <1>3, <3>2, ConcatProperties
    <3> QED
      BY <2>1, <3>1, <3>3, Zenon
  <2>3. Len(y) = m + k /\ Len(Slash) = 1
    BY <1>3, SlashIsString
  <2> QED
    BY <2>2, <2>3
<1>5. \A i \in 1 .. m : z[i] = v[i]
  <2> SUFFICES ASSUME NEW i \in 1 .. m PROVE z[i] = v[i]
    OBVIOUS
  <2>1. i \in 1 .. m + k /\ i \in 1 .. m + k + 1 /\ i <= m /\ i <= m + k
    BY <1>2
  <2> QED
    BY <1>3, <1>4, <2>1
<1>6. \A i \in 1 .. k : z[m + i] = c[i]
  <2> SUFFICES ASSUME NEW i \in 1 .. k PROVE z[m + i] = c[i]
    OBVIOUS
  <2>1. /\ m + i \in 1 .. m + k /\ m + i \in 1 .. m + k + 1 /\ ~ (m + i <= m)
        /\ m + i <= m + k /\ m + i - m = i
    BY <1>2
  <2>2. PICK a : a = m + i
    OBVIOUS
  <2>3. z[a] = y[a] /\ y[a] = c[a - m]
    BY <1>3, <1>4, <2>1, <2>2
  <2>4. a - m = i
    BY <1>2, <2>2
  <2> QED
    BY <2>2, <2>3, <2>4, Zenon
<1>7. z[m + k + 1] = "/"
  <2>1. /\ m + k + 1 \in 1 .. m + k + 1 /\ ~ (m + k + 1 <= m + k)
        /\ m + k + 1 - (m + k) = 1
    BY <1>2
  <2>2. PICK a : a = m + k + 1
    OBVIOUS
  <2>3. z[a] = Slash[a - (m + k)]
    BY <1>4, <2>1, <2>2
  <2>4. a - (m + k) = 1
    BY <1>2, <2>2
  <2>5. z[a] = Slash[1]
    BY <2>3, <2>4, Zenon
  <2> QED
    BY <2>2, <2>5, SlashIsString, Zenon
<1> QED
  BY <1>1, <1>4, <1>5, <1>6, <1>7

\* What the loop has written after k rounds, e[j] long after j: the components
\* so far, each with a slash behind it.
Written(w, P, b, e, k) ==
    /\ \A i \in 1 .. b : w[k][i] = "/"
    /\ \A j \in 0 .. k : e[j] <= e[k]
    /\ \A j \in 1 .. k : w[k][e[j]] = "/"
    /\ \A j \in 1 .. k : \A i \in 1 .. Len(P[j]) : w[k][e[j - 1] + i] = P[j][i]

Pieces(P, b, e, w) ==
    /\ P \in Seq(Component) /\ b \in Nat
    /\ w \in [0 .. Len(P) -> Seq(Chars)]
    /\ e = [k \in 0 .. Len(P) |-> Len(w[k])]
    /\ e[0] = b /\ \A i \in 1 .. b : w[0][i] = "/"
    /\ \A k \in 1 .. Len(P) : w[k] = Glue(w[k - 1], P[k])

LEMMA WrittenAll ==
    ASSUME NEW P, NEW b, NEW e, NEW w, Pieces(P, b, e, w)
    PROVE  /\ \A k \in 1 .. Len(P) : e[k] = e[k - 1] + Len(P[k]) + 1
           /\ \A k \in 0 .. Len(P) : Written(w, P, b, e, k)
<1>1. PICK n : n = Len(P) /\ n \in Nat /\ b \in Nat /\ e[0] = b
  BY DEF Pieces
<1>2. \A k \in 0 .. n : e[k] = Len(w[k]) /\ e[k] \in Nat /\ w[k] \in Seq(Chars)
  <2> SUFFICES ASSUME NEW k \in 0 .. n
               PROVE  e[k] = Len(w[k]) /\ e[k] \in Nat /\ w[k] \in Seq(Chars)
    OBVIOUS
  <2>1. PICK x : x = w[k]
    OBVIOUS
  <2>2. x \in Seq(Chars) /\ e[k] = Len(x)
    BY <1>1, <2>1 DEF Pieces
  <2> QED
    BY <2>1, <2>2
<1>3. \A k \in 1 .. n : /\ P[k] \in Seq(Chars) /\ Len(P[k]) \in Nat
                        /\ k \in 0 .. n /\ k - 1 \in 0 .. n
  <2> SUFFICES ASSUME NEW k \in 1 .. n
               PROVE  /\ P[k] \in Seq(Chars) /\ Len(P[k]) \in Nat
                      /\ k \in 0 .. n /\ k - 1 \in 0 .. n
    OBVIOUS
  <2>1. P[k] \in Component
    BY <1>1, ElementOfSeq DEF Pieces
  <2> QED
    BY <1>1, <2>1 DEF Component
<1>4. \A k \in 1 .. n :
          /\ e[k] = e[k - 1] + Len(P[k]) + 1
          /\ \A i \in 1 .. e[k - 1] : w[k][i] = w[k - 1][i]
          /\ \A i \in 1 .. Len(P[k]) : w[k][e[k - 1] + i] = P[k][i]
          /\ w[k][e[k]] = "/"
  <2> SUFFICES ASSUME NEW k \in 1 .. n
               PROVE  /\ e[k] = e[k - 1] + Len(P[k]) + 1
                      /\ \A i \in 1 .. e[k - 1] : w[k][i] = w[k - 1][i]
                      /\ \A i \in 1 .. Len(P[k]) : w[k][e[k - 1] + i] = P[k][i]
                      /\ w[k][e[k]] = "/"
    OBVIOUS
  <2>1. PICK v, c, z : v = w[k - 1] /\ c = P[k] /\ z = w[k]
    OBVIOUS
  <2>2. v \in Seq(Chars) /\ c \in Seq(Chars) /\ z = Glue(v, c)
    BY <1>1, <1>2, <1>3, <2>1 DEF Pieces
  <2>3. /\ Len(z) = Len(v) + Len(c) + 1
        /\ \A i \in 1 .. Len(v) : z[i] = v[i]
        /\ \A i \in 1 .. Len(c) : z[Len(v) + i] = c[i]
        /\ z[Len(z)] = "/"
    BY <2>2, WriteStep
  <2>4. e[k] = Len(z) /\ e[k - 1] = Len(v)
    BY <1>2, <1>3, <2>1
  <2> QED
    BY <2>1, <2>3, <2>4
<1> DEFINE T == {k \in 0 .. n : ~ Written(w, P, b, e, k)}
<1>5. T = {}
  <2> SUFFICES ASSUME T # {} PROVE FALSE
    OBVIOUS
  <2>1. PICK k \in T : \A y \in T : k <= y
    <3>1. T \in SUBSET Nat
      OBVIOUS
    <3> HIDE DEF T
    <3> QED
      BY <3>1, LeastExists
  <2>2. k \in 0 .. n /\ ~ Written(w, P, b, e, k)
    BY <2>1
  <2>3. k # 0
    <3> SUFFICES ASSUME k = 0 PROVE FALSE
      OBVIOUS
    <3>1. e[0] <= e[0] /\ \A i \in 1 .. b : w[0][i] = "/"
      BY <1>1 DEF Pieces
    <3> QED
      BY <2>2, <3>1 DEF Written
  <2>4. k - 1 \in 0 .. n /\ ~ (k <= k - 1) /\ k \in 1 .. n
    BY <1>1, <2>2, <2>3
  <2>5. Written(w, P, b, e, k - 1)
    BY <2>1, <2>4
  <2> HIDE DEF T
  <2>6. PICK x, y, v, z, L : /\ x = e[k - 1] /\ y = e[k] /\ L = Len(P[k])
                             /\ v = w[k - 1] /\ z = w[k]
    OBVIOUS
  <2>7. /\ x \in Nat /\ y \in Nat /\ L \in Nat /\ y = x + L + 1
        /\ \A i \in 1 .. x : z[i] = v[i]
        /\ \A i \in 1 .. L : z[x + i] = P[k][i]
        /\ z[y] = "/"
    BY <1>2, <1>3, <1>4, <2>4, <2>6
  <2>8. /\ \A i \in 1 .. b : v[i] = "/"
        /\ \A j \in 0 .. k - 1 : e[j] <= x
        /\ \A j \in 1 .. k - 1 : v[e[j]] = "/"
        /\ \A j \in 1 .. k - 1 : \A i \in 1 .. Len(P[j]) : v[e[j - 1] + i] = P[j][i]
    BY <2>5, <2>6 DEF Written
  <2>9. \A j \in 0 .. k - 1 : e[j] \in Nat /\ e[j] <= x
    <3> SUFFICES ASSUME NEW j \in 0 .. k - 1 PROVE e[j] \in Nat /\ e[j] <= x
      OBVIOUS
    <3>1. j \in 0 .. n
      BY <1>1, <2>4
    <3> QED
      BY <1>2, <2>8, <3>1
  <2>10. \A j \in 0 .. k : e[j] <= y
    <3> SUFFICES ASSUME NEW j \in 0 .. k PROVE e[j] <= y
      OBVIOUS
    <3>1. CASE j = k
      <4>1. e[j] = y
        BY <2>6, <3>1, Zenon
      <4>2. y <= y
        BY <2>7
      <4> QED
        BY <4>1, <4>2, Zenon
    <3>2. CASE j # k
      <4>1. j \in 0 .. k - 1
        BY <2>4, <3>2
      <4>2. PICK a : a = e[j]
        OBVIOUS
      <4>3. a \in Nat /\ a <= x
        BY <2>9, <4>1, <4>2
      <4> QED
        BY <2>7, <4>2, <4>3
    <3> QED
      BY <3>1, <3>2
  <2>11. \A i \in 1 .. b : z[i] = "/"
    <3>1. 0 \in 0 .. k - 1
      BY <2>4
    <3>2. b <= x
      BY <1>1, <2>9, <3>1
    <3>3. \A i \in 1 .. b : i \in 1 .. x
      BY <1>1, <2>7, <3>2
    <3> QED
      BY <2>7, <2>8, <3>3
  <2>12. \A j \in 1 .. k - 1 : /\ e[j] \in 1 .. x
                               /\ \A i \in 1 .. Len(P[j]) : e[j - 1] + i \in 1 .. x
    <3> SUFFICES ASSUME NEW j \in 1 .. k - 1
                 PROVE  /\ e[j] \in 1 .. x
                        /\ \A i \in 1 .. Len(P[j]) : e[j - 1] + i \in 1 .. x
      OBVIOUS
    <3>1. j \in 1 .. n /\ j \in 0 .. k - 1
      BY <1>1, <2>4
    <3>2. PICK a, d, M : a = e[j] /\ d = e[j - 1] /\ M = Len(P[j])
      OBVIOUS
    <3>3. d \in Nat /\ M \in Nat /\ a = d + M + 1 /\ a <= x
      BY <1>2, <1>3, <1>4, <2>9, <3>1, <3>2
    <3>4. a \in 1 .. x /\ \A i \in 1 .. M : d + i \in 1 .. x
      BY <2>7, <3>3
    <3> QED
      BY <3>2, <3>4
  <2>13. \A j \in 1 .. k : j = k \/ j \in 1 .. k - 1
    BY <2>4
  <2>14. \A j \in 1 .. k : z[e[j]] = "/"
    <3> SUFFICES ASSUME NEW j \in 1 .. k PROVE z[e[j]] = "/"
      OBVIOUS
    <3>1. CASE j = k
      BY <2>6, <2>7, <3>1
    <3>2. CASE j \in 1 .. k - 1
      BY <2>7, <2>8, <2>12, <3>2
    <3> QED
      BY <2>13, <3>1, <3>2
  <2>15. \A j \in 1 .. k : \A i \in 1 .. Len(P[j]) : z[e[j - 1] + i] = P[j][i]
    <3> SUFFICES ASSUME NEW j \in 1 .. k, NEW i \in 1 .. Len(P[j])
                 PROVE  z[e[j - 1] + i] = P[j][i]
      OBVIOUS
    <3>1. CASE j = k
      BY <2>6, <2>7, <3>1
    <3>2. CASE j \in 1 .. k - 1
      <4>1. PICK a : a = e[j - 1] + i
        OBVIOUS
      <4>2. a \in 1 .. x /\ v[a] = P[j][i]
        BY <2>8, <2>12, <3>2, <4>1
      <4> QED
        BY <2>7, <4>1, <4>2
    <3> QED
      BY <2>13, <3>1, <3>2
  <2>16. Written(w, P, b, e, k)
    BY <2>6, <2>10, <2>11, <2>14, <2>15 DEF Written
  <2> QED
    BY <2>2, <2>16
<1> QED
  BY <1>1, <1>4, <1>5

-------------------------------------------------------------------------------
(* What FormulateRawPath() writes for an absolute path.                    *)

Abs(P) == [path |-> P, is_absolute |-> TRUE]
Str(P) == FormulateRawPath(Abs(P))

LEMMA AbsPath ==
    ASSUME NEW P
    PROVE  Abs(P).path = P /\ Abs(P).is_absolute
  BY DEF Abs

LEMMA AbsExcept ==
    ASSUME NEW P, NEW Q
    PROVE  [Abs(P) EXCEPT !.path = Q] = Abs(Q)
<1>1. ASSUME NEW v
      PROVE  [[path |-> P, is_absolute |-> v] EXCEPT !.path = Q]
                 = [path |-> Q, is_absolute |-> v]
  OBVIOUS
<1> QED
  BY <1>1, Zenon DEF Abs

LEMMA CollapsedAbs ==
    ASSUME NEW P
    PROVE  Collapsed(Abs(P)) = Abs(PathCollapse(P))
<1>1. Abs(P).path = P
  BY AbsPath
<1>2. Collapsed(Abs(P)) = [Abs(P) EXCEPT !.path = PathCollapse(P)]
  BY <1>1, Zenon DEF Collapsed
<1>3. [Abs(P) EXCEPT !.path = PathCollapse(P)] = Abs(PathCollapse(P))
  BY AbsExcept
<1> QED
  BY <1>2, <1>3, Zenon

LEMMA RawRoot == Str(<<>>) = Slash
<1>1. PICK P, ph : P = <<>> /\ ph = Abs(P)
  OBVIOUS
<1>2. ph.path = P /\ ph.is_absolute /\ P \in Seq(Component) /\ Len(P) = 0
  BY <1>1, AbsPath
<1>3. PICK w : Writes(ph, w)
  BY <1>2, WritesOf
<1>4. Spelt(ph) = w[0] /\ w[0] = Slash
  BY <1>2, <1>3 DEF Writes
<1>5. Spelt(ph) = Slash /\ Len(Slash) <= 1
  BY <1>4, SlashIsString
<1>6. FormulateRawPath(ph) = Slash
  BY <1>5, RawIsSpell, Zenon
<1> QED
  BY <1>1, <1>6 DEF Str

LEMMA FrontFacts ==
    ASSUME NEW V, NEW z \in Seq(V), z # <<>>
    PROVE  /\ Front(z) \in Seq(V) /\ Len(Front(z)) = Len(z) - 1
           /\ \A i \in 1 .. Len(z) - 1 : Front(z)[i] = z[i]
<1>1. PICK n : n = Len(z) - 1
  OBVIOUS
<1>2. n \in Nat /\ n <= Len(z) /\ n - 1 + 1 = n
  BY <1>1, EmptySeq
<1>3. Front(z) = SubSeq(z, 1, n)
  BY <1>1 DEF Front
<1>4. \A i \in 1 .. n : z[i] \in V
  BY <1>2, ElementOfSeq
<1>5. SubSeq(z, 1, n) = [i \in 1 .. n |-> z[i]]
  BY <1>2
<1> QED
  BY <1>1, <1>2, <1>3, <1>4, <1>5

LEMMA RawSpells ==
    ASSUME NEW P \in Seq(Component), P # <<>>
    PROVE  \E e : Spells(Str(P), P, 1, e)
<1>1. PICK n, ph : n = Len(P) /\ ph = Abs(P)
  OBVIOUS
<1>2. n \in Nat \ {0} /\ ph.path = P /\ ph.is_absolute
  BY <1>1, AbsPath, EmptySeq
<1>3. PICK w : Writes(ph, w)
  BY <1>2, WritesOf
<1>4. /\ w \in [0 .. n -> Seq(Chars)] /\ w[0] = Slash
      /\ \A i \in 1 .. n : w[i] = Glue(w[i - 1], P[i])
      /\ Spelt(ph) = w[n]
  BY <1>1, <1>2, <1>3 DEF Writes, Glue
<1>5. PICK e : e = [k \in 0 .. n |-> Len(w[k])]
  OBVIOUS
<1>6. e[0] = 1 /\ \A i \in 1 .. 1 : w[0][i] = "/"
  <2>1. 0 \in 0 .. n
    BY <1>2
  <2>2. e[0] = Len(Slash)
    BY <1>4, <1>5, <2>1
  <2>3. w[0][1] = "/"
    BY <1>4, SlashIsString
  <2> QED
    BY <2>2, <2>3, SlashIsString
<1>7. Pieces(P, 1, e, w)
  BY <1>1, <1>4, <1>5, <1>6 DEF Pieces
<1>8. /\ \A k \in 1 .. n : e[k] = e[k - 1] + Len(P[k]) + 1
      /\ Written(w, P, 1, e, n)
  BY <1>1, <1>2, <1>7, WrittenAll
<1>9. e \in [0 .. n -> Nat] /\ \A k \in 0 .. n : e[k] = Len(w[k])
  <2>1. \A k \in 0 .. n : Len(w[k]) \in Nat
    <3> SUFFICES ASSUME NEW k \in 0 .. n PROVE Len(w[k]) \in Nat
      OBVIOUS
    <3>1. PICK x : x = w[k]
      OBVIOUS
    <3>2. x \in Seq(Chars)
      BY <1>4, <3>1
    <3> QED
      BY <3>1, <3>2
  <2> QED
    BY <1>5, <2>1
<1>10. PICK z, N : z = w[n] /\ N = e[n]
  OBVIOUS
<1>11. z \in Seq(Chars) /\ Len(z) = N /\ N \in Nat
  BY <1>2, <1>4, <1>9, <1>10
<1>12. \A k \in 1 .. n : /\ P[k] \in Seq(Chars) /\ Len(P[k]) \in Nat \ {0}
                         /\ e[k] \in Nat /\ e[k - 1] \in Nat
  <2> SUFFICES ASSUME NEW k \in 1 .. n
               PROVE  /\ P[k] \in Seq(Chars) /\ Len(P[k]) \in Nat \ {0}
                      /\ e[k] \in Nat /\ e[k - 1] \in Nat
    OBVIOUS
  <2>1. k \in 0 .. n /\ k - 1 \in 0 .. n
    BY <1>2
  <2>2. P[k] \in Component
    BY <1>1, ElementOfSeq
  <2>3. P[k] \in Seq(Chars) /\ P[k] # <<>>
    BY <2>2 DEF Component
  <2>4. Len(P[k]) \in Nat \ {0}
    BY <2>3, EmptySeq
  <2> QED
    BY <1>9, <2>1, <2>3, <2>4
<1>13. \A k \in 0 .. n : e[k] <= N
  BY <1>8, <1>10 DEF Written
<1>14. /\ \A k \in 1 .. n : e[k - 1] + Len(P[k]) <= N - 1
       /\ \A k \in 1 .. n - 1 : e[k] \in 1 .. N - 1
       /\ 1 <= N - 1
  <2>1. ASSUME NEW k \in 1 .. n
        PROVE  e[k - 1] + Len(P[k]) <= N - 1 /\ e[k] <= N /\ e[k - 1] + 1 < e[k]
    <3>1. PICK x, y, L : x = e[k - 1] /\ y = e[k] /\ L = Len(P[k])
      OBVIOUS
    <3>2. x \in Nat /\ y \in Nat /\ L \in Nat \ {0} /\ y = x + L + 1 /\ y <= N
      BY <1>2, <1>8, <1>12, <1>13, <3>1
    <3>3. x + L <= N - 1 /\ y <= N /\ x + 1 < y
      BY <1>11, <3>2
    <3> QED
      BY <3>1, <3>3
  <2>2. ASSUME NEW k \in 1 .. n - 1 PROVE e[k] \in 1 .. N - 1
    <3>1. k \in 1 .. n /\ k + 1 \in 1 .. n /\ k + 1 - 1 = k
      BY <1>2
    <3>2. PICK x, y, u : x = e[k] /\ y = e[k + 1] /\ u = e[k - 1]
      OBVIOUS
    <3>3. x \in Nat /\ y \in Nat /\ u \in Nat
      BY <1>12, <3>1, <3>2
    <3>4. x + 1 < y /\ y <= N /\ u + 1 < x
      BY <2>1, <3>1, <3>2
    <3>5. x \in 1 .. N - 1
      BY <1>11, <3>3, <3>4
    <3> QED
      BY <3>2, <3>5, Zenon
  <2>3. 1 <= N - 1
    <3>1. 1 \in 1 .. n /\ 1 - 1 = 0
      BY <1>2
    <3>2. PICK y : y = e[1]
      OBVIOUS
    <3>3. y \in Nat /\ y <= N /\ 1 + 1 < y
      BY <1>6, <1>12, <2>1, <3>1, <3>2
    <3> QED
      BY <1>11, <3>3
  <2> QED
    BY <2>1, <2>2, <2>3
<1>15. PICK s : s = Str(P)
  OBVIOUS
<1>16. s \in Seq(Chars) /\ Len(s) = N - 1 /\ \A i \in 1 .. N - 1 : s[i] = z[i]
  <2>1. ~ (N <= 1) /\ z # <<>>
    BY <1>11, <1>14
  <2>2. s = Front(z)
    <3>1. Spelt(ph) = z /\ Len(z) = N
      BY <1>4, <1>10, <1>11
    <3>2. FormulateRawPath(ph) = Front(z)
      BY <2>1, <3>1, RawIsSpell, Zenon
    <3> QED
      BY <1>1, <1>15, <3>2 DEF Str
  <2>3. /\ Front(z) \in Seq(Chars) /\ Len(Front(z)) = Len(z) - 1
        /\ \A i \in 1 .. Len(z) - 1 : Front(z)[i] = z[i]
    BY <1>11, <2>1, FrontFacts
  <2> QED
    BY <1>11, <2>2, <2>3
<1>17. /\ \A i \in 1 .. 1 : z[i] = "/"
       /\ \A j \in 1 .. n : z[e[j]] = "/"
       /\ \A j \in 1 .. n : \A i \in 1 .. Len(P[j]) : z[e[j - 1] + i] = P[j][i]
  BY <1>8, <1>10 DEF Written
<1>18. \A i \in 1 .. 1 : s[i] = "/"
  BY <1>11, <1>14, <1>16, <1>17
<1>19. \A k \in 1 .. n - 1 : s[e[k]] = "/"
  <2> SUFFICES ASSUME NEW k \in 1 .. n - 1 PROVE s[e[k]] = "/"
    OBVIOUS
  <2>1. k \in 1 .. n
    BY <1>2
  <2> QED
    BY <1>14, <1>16, <1>17, <2>1
<1>20. \A k \in 1 .. n : \A i \in 1 .. Len(P[k]) : s[e[k - 1] + i] = P[k][i]
  <2> SUFFICES ASSUME NEW k \in 1 .. n, NEW i \in 1 .. Len(P[k])
               PROVE  s[e[k - 1] + i] = P[k][i]
    OBVIOUS
  <2>1. PICK x, L, a : x = e[k - 1] /\ L = Len(P[k]) /\ a = x + i
    OBVIOUS
  <2>2. x \in Nat /\ L \in Nat /\ x + L <= N - 1 /\ i \in 1 .. L
    BY <1>12, <1>14, <2>1
  <2>3. a \in 1 .. N - 1
    <3>1. a = x + i
      BY <2>1
    <3> QED
      BY <1>11, <2>2, <3>1
  <2>4. z[a] = P[k][i]
    BY <1>17, <2>1
  <2> QED
    BY <1>16, <2>1, <2>3, <2>4
<1>21. Spells(s, P, 1, e)
  BY <1>1, <1>6, <1>8, <1>9, <1>10, <1>16, <1>18, <1>19, <1>20 DEF Spells
<1> QED
  BY <1>15, <1>21

-------------------------------------------------------------------------------
(* The table of mounts.                                                    *)

\* The entries of mount_map_ are mounts, or NULL for the empty string only.
MapOK == /\ \A k \in DOMAIN mount_map : mount_map[k] \in Mounts \cup {NULL}
         /\ cwd_mount \in Mounts \cup {NULL}
         /\ NoNullMount

\* The calls of KernelProxy leave the table alone.
LEMMA CallsKeepMap ==
    ASSUME NEW s \in CallPaths,
           \/ Chdir(s) \/ WrapRmdir(s)
           \/ MkdirPath(s) \/ RmdirPath(s) \/ RemovePath(s) \/ CreatePath(s)
    PROVE  mount_map' = mount_map /\ cwd_mount' = cwd_mount
  BY DEF Chdir, WrapRmdir, MkdirPath, RmdirPath, RmdirAt, RemovePath, CreatePath,
         MountCall

LEMMA MapInvariance == Spec => []MapOK
<1>1. Init => MapOK
  BY MountManagerAssumption DEF Init, MapOK, NoNullMount
<1>2. MapOK /\ [Next]_vars => MapOK'
  <2> SUFFICES ASSUME MapOK, [Next]_vars PROVE MapOK'
    OBVIOUS
  <2> USE DEF MapOK
  <2>1. ASSUME NEW m \in Mounts, NEW k \in MountPaths, AddMount(m, k) PROVE MapOK'
    <3> DEFINE v == IF k = <<>> THEN NULL ELSE m
    <3>1. /\ DOMAIN mount_map' = DOMAIN mount_map \cup {k}
          /\ mount_map'[k] = v
          /\ \A l \in DOMAIN mount_map : l # k => mount_map'[l] = mount_map[l]
          /\ cwd_mount' = cwd_mount
      BY <2>1 DEF AddMount, SetMount
    <3>2. v \in Mounts \cup {NULL} /\ (v = NULL => k = <<>>)
      BY MountManagerAssumption
    <3> HIDE DEF v
    <3>3. \A l \in DOMAIN mount_map' : mount_map'[l] \in Mounts \cup {NULL}
      BY <3>1, <3>2
    <3>4. NoNullMount'
      BY <3>1, <3>2 DEF NoNullMount
    <3> QED
      BY <3>1, <3>3, <3>4
  <2>2. ASSUME NEW k \in MountPaths, RemoveMount(k) PROVE MapOK'
    <3>1. /\ DOMAIN mount_map' = DOMAIN mount_map \ {k}
          /\ \A l \in DOMAIN mount_map' : mount_map'[l] = mount_map[l]
          /\ cwd_mount' = IF cwd_mount = mount_map[k] THEN NULL ELSE cwd_mount
      BY <2>2 DEF RemoveMount
    <3> QED
      BY <3>1 DEF NoNullMount
  <2>3. ASSUME ClearMounts PROVE MapOK'
    BY <2>3 DEF ClearMounts, NoNullMount
  <2>4. ASSUME mount_map' = mount_map, cwd_mount' = cwd_mount PROVE MapOK'
    BY <2>4 DEF NoNullMount
  <2> QED
    BY <2>1, <2>2, <2>3, <2>4, CallsKeepMap DEF Next, vars
<1> QED
  BY <1>1, <1>2, PTL DEF Spec

(***************************************************************************)
(* However mounts come and go, no key but the empty string is left without *)
(* a mount, although AddMount() makes entries with operator[].             *)
(***************************************************************************)
THEOREM NullTheorem == Spec => []NoNullMount
  BY MapInvariance, PTL DEF MapOK

\* The root has no component.
LEMMA SplitSlash == Split(Slash) = <<>>
<1>1. PICK s : s = Slash
  OBVIOUS
<1>2. s \in Seq(Chars) /\ Len(s) = 1 /\ s[1] = "/"
  BY <1>1, SlashIsString
<1>3. PICK f : Loop(s, f)
  BY <1>2, LoopOf
<1>4. f[2] = <<>>
  <2>1. 2 \in 1 .. Len(s) + 1 /\ 2 > Len(s)
    BY <1>2
  <2>2. f[2] = FromStep(s, 2, f)
    BY <1>3, <2>1 DEF Loop
  <2> QED
    BY <2>1, <2>2, Zenon DEF FromStep
<1>5. f[1] = f[2]
  <2>1. 1 \in Slashes(s, 1) /\ ~ (1 > Len(s)) /\ 1 \in 1 .. Len(s) + 1
    BY <1>2 DEF Slashes
  <2>2. PICK m : m = Min(Slashes(s, 1))
    OBVIOUS
  <2>3. m \in 1 .. Len(s)
    BY <1>2, <2>1, <2>2, FirstSlash
  <2>4. m = 1
    BY <1>2, <2>3
  <2>5. f[1] = FromStep(s, 1, f)
    BY <1>3, <2>1 DEF Loop
  <2>6. FromStep(s, 1, f) = f[1 + 1]
    BY <2>1, <2>2, <2>4, Zenon DEF FromStep
  <2> QED
    BY <2>5, <2>6
<1> QED
  BY <1>1, <1>3, <1>4, <1>5 DEF Loop

\* The string of an absolute path: it starts with a slash, and Split() reads
\* the path back from it.
LEMMA StrFacts ==
    ASSUME NEW P \in Seq(Component)
    PROVE  /\ Str(P) \in Seq(Chars) /\ Len(Str(P)) \in Nat
           /\ IsAbsolute(Str(P)) /\ Split(Str(P)) = P
<1>1. CASE P = <<>>
  <2>1. PICK s : s = Slash
    OBVIOUS
  <2>2. Str(P) = s
    BY <1>1, <2>1, RawRoot
  <2>3. s \in Seq(Chars) /\ Len(s) = 1 /\ s[1] = "/"
    BY <2>1, SlashIsString
  <2>4. IsAbsolute(s)
    <3>1. Len(s) # Len(<<>>)
      BY <2>3
    <3> QED
      BY <2>3, <3>1, Zenon DEF IsAbsolute
  <2>5. Split(s) = P
    BY <1>1, <2>1, SplitSlash
  <2> QED
    BY <2>2, <2>3, <2>4, <2>5
<1>2. CASE P # <<>>
  <2>1. PICK s, e : s = Str(P) /\ Spells(s, P, 1, e)
    BY <1>2, RawSpells
  <2>2. s \in Seq(Chars) /\ Split(s) = P
    BY <2>1, SplitSpelled DEF Spells
  <2>3. s[1] = "/"
    BY <2>1 DEF Spells
  <2>4. s # <<>>
    <3>1. PICK n : n = Len(P) /\ n \in Nat \ {0}
      BY <1>2, EmptySeq
    <3>2. 0 \in 0 .. n /\ 1 \in 1 .. n /\ 1 - 1 = 0 /\ n \in 0 .. n /\ 1 \in 0 .. n
      BY <3>1
    <3>3. P[1] \in Component
      BY <3>1, <3>2, ElementOfSeq
    <3>4. Len(P[1]) \in Nat \ {0}
      <4>1. PICK c : c = P[1] /\ c \in Seq(Chars) /\ c # <<>>
        BY <3>3 DEF Component
      <4>2. Len(c) \in Nat \ {0}
        BY <4>1, EmptySeq
      <4> QED
        BY <4>1, <4>2
    <3>5. PICK x, y, L, N : x = e[0] /\ y = e[1] /\ L = Len(P[1]) /\ N = e[n]
      OBVIOUS
    <3>6. x = 1 /\ y = x + L + 1 /\ N \in Nat /\ Len(s) = N - 1 /\ L \in Nat \ {0}
      BY <2>1, <3>1, <3>2, <3>4, <3>5 DEF Spells
    <3>7. y <= N
      BY <2>1, <3>1, <3>2, <3>5, EndsGrow
    <3>8. Len(s) > 0
      BY <3>6, <3>7
    <3> QED
      BY <3>8
  <2>5. IsAbsolute(s)
    BY <2>3, <2>4 DEF IsAbsolute
  <2> QED
    BY <2>1, <2>2, <2>5
<1> QED
  BY <1>1, <1>2

\* chdir() keeps an absolute path without "." and "..".
LEMMA TargetPath ==
    ASSUME NEW P \in Seq(Name), NEW s \in Seq(Chars), NEW d, d = Abs(P)
    PROVE  \E Q \in Seq(Name) :
               Collapsed(IF IsAbsolute(s) THEN SetPath(s) ELSE AppendPath(d, s)) = Abs(Q)
<1>1. Split(s) \in Seq(Component) /\ P \in Seq(Component)
  BY SplitType, NamesAreComponents
<1>2. CASE IsAbsolute(s)
  <2>1. SetPath(s) = Abs(Split(s))
    BY <1>2 DEF SetPath, Abs
  <2>2. Collapsed(Abs(Split(s))) = Abs(PathCollapse(Split(s)))
    BY CollapsedAbs
  <2> QED
    BY <1>1, <1>2, <2>1, <2>2, CollapseType, Zenon
<1>3. CASE ~ IsAbsolute(s)
  <2>1. AppendPath(d, s) = Abs(P \o Split(s))
    <3>1. d.path = P
      BY AbsPath
    <3>2. AppendPath(d, s) = [d EXCEPT !.path = P \o Split(s)]
      BY <3>1, Zenon DEF AppendPath
    <3> QED
      BY <3>2, AbsExcept, Zenon
  <2>2. P \o Split(s) \in Seq(Component)
    BY <1>1, ConcatProperties
  <2>3. Collapsed(Abs(P \o Split(s))) = Abs(PathCollapse(P \o Split(s)))
    BY CollapsedAbs
  <2> QED
    BY <1>3, <2>1, <2>2, <2>3, CollapseType, Zenon
<1> QED
  BY <1>2, <1>3

-------------------------------------------------------------------------------
(* The working directory and the mounts.                                   *)

\* What the steps keep besides MapOK: mounts are mounted at the strings that
\* were given, the working directory is an absolute path of names, and no mount
\* outgrows its bound.
CwdOK == \E P \in Seq(Name) : cwd = Abs(P)
PlacesOK == /\ DOMAIN mount_map \subseteq MountPaths \cup {Slash}
            /\ CwdOK
            /\ DOMAIN trees = Mounts
            /\ \A m \in Mounts : trees[m].size <= MaxNodes

LEMMA ChdirKeepsCwd ==
    ASSUME PlacesOK, NEW s \in CallPaths, Chdir(s)
    PROVE  PlacesOK'
<1>1. s \in Seq(Chars)
  BY MountManagerAssumption
<1>2. PICK d : d = cwd
  OBVIOUS
<1>3. PICK P \in Seq(Name) : d = Abs(P)
  BY <1>2 DEF PlacesOK, CwdOK
<1>4. cwd' = Collapsed(IF IsAbsolute(s) THEN SetPath(s) ELSE AppendPath(d, s))
  BY <1>2, Zenon DEF Chdir, Target
<1>5. CwdOK'
  <2>1. PICK Q \in Seq(Name) : cwd' = Abs(Q)
    BY <1>1, <1>3, <1>4, TargetPath
  <2> QED
    BY <2>1 DEF CwdOK
<1> QED
  BY <1>5 DEF PlacesOK, Chdir

LEMMA MountCallKeeps ==
    ASSUME PlacesOK, NEW p, NEW r, MountCall(p, r)
    PROVE  PlacesOK'
<1>1. /\ trees' = [trees EXCEPT ![p.mount] = r.fs] /\ r.fs.size <= MaxNodes
      /\ mount_map' = mount_map /\ cwd' = cwd
  BY DEF MountCall
<1>2. /\ DOMAIN trees' = Mounts
      /\ \A m \in Mounts : trees'[m] = IF m = p.mount THEN r.fs ELSE trees[m]
  BY <1>1 DEF PlacesOK
<1>3. \A m \in Mounts : trees'[m].size <= MaxNodes
  BY <1>1, <1>2 DEF PlacesOK
<1>4. CwdOK'
  BY <1>1 DEF PlacesOK, CwdOK
<1> QED
  BY <1>1, <1>2, <1>3, <1>4 DEF PlacesOK

LEMMA PlacesInvariance == Spec => []PlacesOK
<1>1. Init => PlacesOK
  <2> SUFFICES ASSUME Init PROVE PlacesOK
    OBVIOUS
  <2>1. NewMount.size = 1
    <3>1. OnHeap(EmptyAllocator) = {} /\ EmptyAllocator.size = 0
      BY DEF OnHeap, Index, EmptyAllocator
    <3>2. NewMount.size = EmptyAllocator.size + 1
      BY <3>1 DEF NewMount, Alloc
    <3> QED
      BY <3>1, <3>2
  <2>2. CwdOK
    <3>1. IsAbsolute(Slash)
      BY DEF IsAbsolute, Slash
    <3>2. cwd = Abs(<<>>)
      BY <3>1, SplitSlash DEF Init, SetPath, Abs
    <3>3. <<>> \in Seq(Name)
      OBVIOUS
    <3> QED
      BY <3>2, <3>3 DEF CwdOK
  <2>3. \A m \in Mounts : trees[m].size <= MaxNodes
    <3>1. \A m \in Mounts : trees[m] = NewMount
      BY DEF Init
    <3>2. MaxNodes \in Nat \ {0}
      BY MountManagerAssumption
    <3> QED
      BY <2>1, <3>1, <3>2
  <2>4. DOMAIN trees = Mounts /\ DOMAIN mount_map \subseteq MountPaths \cup {Slash}
    BY DEF Init
  <2> QED
    BY <2>2, <2>3, <2>4 DEF PlacesOK
<1>2. PlacesOK /\ [Next]_vars => PlacesOK'
  <2> SUFFICES ASSUME PlacesOK, [Next]_vars PROVE PlacesOK'
    OBVIOUS
  <2>1. ASSUME DOMAIN mount_map' \subseteq DOMAIN mount_map \cup MountPaths,
               cwd' = cwd, trees' = trees
        PROVE  PlacesOK'
    BY <2>1 DEF PlacesOK, CwdOK
  <2>2. ASSUME NEW m \in Mounts, NEW k \in MountPaths, AddMount(m, k)
        PROVE  PlacesOK'
    BY <2>1, <2>2 DEF AddMount, SetMount
  <2>3. ASSUME NEW k \in MountPaths, RemoveMount(k) PROVE PlacesOK'
    BY <2>1, <2>3 DEF RemoveMount
  <2>4. ASSUME ClearMounts PROVE PlacesOK'
    BY <2>1, <2>4 DEF ClearMounts
  <2>5. ASSUME NEW s \in CallPaths, Chdir(s) \/ WrapRmdir(s) PROVE PlacesOK'
    BY <2>5, ChdirKeepsCwd DEF WrapRmdir
  <2>6. ASSUME NEW s \in CallPaths,
               MkdirPath(s) \/ RmdirPath(s) \/ RemovePath(s) \/ CreatePath(s)
        PROVE  PlacesOK'
    BY <2>6, MountCallKeeps, Zenon DEF MkdirPath, RmdirPath, RmdirAt, RemovePath, CreatePath
  <2>7. ASSUME UNCHANGED vars PROVE PlacesOK'
    BY <2>1, <2>7 DEF vars
  <2> QED
    BY <2>2, <2>3, <2>4, <2>5, <2>6, <2>7 DEF Next
<1> QED
  BY <1>1, <1>2, PTL DEF Spec

(***************************************************************************)
(* Type correctness: mount_map_ holds mounts under the strings that were   *)
(* given, cwd_ stays an absolute path whatever chdir() is called with, and *)
(* the mounts keep to their bound.                                         *)
(***************************************************************************)
THEOREM TypeTheorem == Spec => []TypeOK
<1>1. MapOK /\ PlacesOK => TypeOK
  <2> SUFFICES ASSUME MapOK, PlacesOK PROVE TypeOK
    OBVIOUS
  <2>1. PICK P \in Seq(Name) : cwd = Abs(P)
    BY DEF PlacesOK, CwdOK
  <2>2. cwd.path = P /\ cwd.is_absolute
    BY <2>1, AbsPath
  <2>3. \A i \in DOMAIN P : P[i] # <<>>
    <3> SUFFICES ASSUME NEW i \in DOMAIN P PROVE P[i] # <<>>
      OBVIOUS
    <3>1. P[i] \in Name
      BY ElementOfSeq
    <3> QED
      BY <3>1 DEF Name, Component
  <2> QED
    BY <2>2, <2>3 DEF TypeOK, MapOK, PlacesOK
<1> QED
  BY <1>1, MapInvariance, PlacesInvariance, PTL

\* FormulatePath() of the working directory.
LEMMA CwdString ==
    ASSUME NEW d, NEW P \in Seq(Name), d = Abs(P)
    PROVE  Collapsed(d) = d /\ FormulatePath(d) = Str(P)
<1>1. PathCollapse(P) = P
  BY CollapseNames
<1>2. Collapsed(d) = Abs(P)
  BY <1>1, CollapsedAbs, Zenon
<1> QED
  BY <1>2 DEF FormulatePath, Str

(***************************************************************************)
(* __wrap_getcwd(buf, size) never stores more than size bytes, for every   *)
(* working directory and every size but 0: the check of getcwd() against   *)
(* size - 1 leaves room for the final zero.                                *)
(***************************************************************************)
THEOREM GetcwdTheorem == Spec => []GetcwdFits
<1>1. PlacesOK => GetcwdFits
  <2> SUFFICES ASSUME PlacesOK, NEW size \in 1 .. SizeMod - 1
               PROVE  WrapGetcwd(size) <= size
    BY DEF GetcwdFits
  <2>1. PICK P \in Seq(Name) : cwd = Abs(P)
    BY DEF PlacesOK, CwdOK
  <2>2. PICK n : n = Len(FormulatePath(cwd))
    OBVIOUS
  <2>3. n \in Nat
    BY <2>1, <2>2, CwdString, NamesAreComponents, StrFacts
  <2>4. SizeMod \in Nat \ {0}
    BY MountManagerAssumption
  <2>5. (size - 1) % SizeMod = size - 1
    BY <2>4
  <2>6. PICK z : z = size - 1
    OBVIOUS
  <2>7. Getcwd(z) = IF z <= 0 \/ z < n THEN -1 ELSE n
    BY <2>2, Zenon DEF Getcwd
  <2>8. WrapGetcwd(size) = Getcwd(z) + 1
    BY <2>5, <2>6 DEF WrapGetcwd
  <2> QED
    BY <2>3, <2>4, <2>6, <2>7, <2>8
<1> QED
  BY <1>1, PlacesInvariance, PTL

(***************************************************************************)
(* chdir(getcwd()) changes nothing: FormulatePath() writes the working     *)
(* directory so that Split() and PathCollapse() read the same path back.   *)
(***************************************************************************)
THEOREM RoundTripTheorem == Spec => []CwdRoundTrip
<1>1. PlacesOK => CwdRoundTrip
  <2> SUFFICES ASSUME PlacesOK PROVE CwdRoundTrip
    OBVIOUS
  <2>1. PICK P \in Seq(Name) : cwd = Abs(P)
    BY DEF PlacesOK, CwdOK
  <2>2. FormulatePath(cwd) = Str(P) /\ Collapsed(Abs(P)) = Abs(P)
    BY <2>1, CwdString
  <2>3. IsAbsolute(Str(P)) /\ Split(Str(P)) = P
    BY NamesAreComponents, StrFacts
  <2>4. SetPath(Str(P)) = Abs(P)
    BY <2>3 DEF SetPath, Abs
  <2> QED
    BY <2>1, <2>2, <2>4 DEF CwdRoundTrip
<1> QED
  BY <1>1, PlacesInvariance, PTL

-------------------------------------------------------------------------------
(* The string of a path and those of the paths around it.                  *)

\* What FormulateRawPath() puts the next component behind.
Open(P) == Spelt(Abs(P))

LEMMA OpenFacts ==
    ASSUME NEW P \in Seq(Component)
    PROVE  \E w : /\ w \in [0 .. Len(P) -> Seq(Chars)] /\ w[0] = Slash
                  /\ \A i \in 1 .. Len(P) : w[i] = Glue(w[i - 1], P[i])
                  /\ Open(P) = w[Len(P)]
<1>1. PICK ph : ph = Abs(P)
  OBVIOUS
<1>2. ph.path = P /\ ph.is_absolute
  BY <1>1, AbsPath
<1>3. PICK w : Writes(ph, w)
  BY <1>2, WritesOf
<1>4. /\ w \in [0 .. Len(P) -> Seq(Chars)] /\ w[0] = Slash
      /\ \A i \in 1 .. Len(P) : w[i] = Glue(w[i - 1], P[i])
      /\ Open(P) = w[Len(P)]
  BY <1>1, <1>2, <1>3 DEF Writes, Glue, Open
<1> QED
  BY <1>4

LEMMA OpenType ==
    ASSUME NEW P \in Seq(Component)
    PROVE  Open(P) \in Seq(Chars)
<1>1. PICK w : w \in [0 .. Len(P) -> Seq(Chars)] /\ Open(P) = w[Len(P)]
  BY OpenFacts
<1>2. Len(P) \in 0 .. Len(P)
  OBVIOUS
<1> QED
  BY <1>1, <1>2

LEMMA OpenRoot == Open(<<>>) = Slash
<1>1. PICK P : P = <<>>
  OBVIOUS
<1>2. P \in Seq(Component) /\ Len(P) = 0
  BY <1>1
<1>3. Open(P) = Slash
  BY <1>2, OpenFacts
<1> QED
  BY <1>1, <1>3

LEMMA OpenAppend ==
    ASSUME NEW P \in Seq(Component), NEW c \in Component
    PROVE  Open(Append(P, c)) = Glue(Open(P), c)
<1>1. PICK R, n : R = Append(P, c) /\ n = Len(P)
  OBVIOUS
<1>2. /\ R \in Seq(Component) /\ n \in Nat /\ Len(R) = n + 1 /\ R[n + 1] = c
      /\ \A i \in 1 .. n : R[i] = P[i]
  BY <1>1, AppendProperties
<1>3. PICK w : /\ w \in [0 .. n -> Seq(Chars)] /\ w[0] = Slash
               /\ \A i \in 1 .. n : w[i] = Glue(w[i - 1], P[i])
               /\ Open(P) = w[n]
  BY <1>1, OpenFacts
<1>4. PICK u : /\ u \in [0 .. n + 1 -> Seq(Chars)] /\ u[0] = Slash
               /\ \A i \in 1 .. n + 1 : u[i] = Glue(u[i - 1], R[i])
               /\ Open(R) = u[n + 1]
  BY <1>2, OpenFacts
<1> DEFINE T == {i \in 0 .. n : u[i] # w[i]}
<1>5. T = {}
  <2> SUFFICES ASSUME T # {} PROVE FALSE
    OBVIOUS
  <2>1. PICK i \in T : \A y \in T : i <= y
    <3>1. T \in SUBSET Nat
      OBVIOUS
    <3> HIDE DEF T
    <3> QED
      BY <3>1, LeastExists
  <2>2. i \in 0 .. n /\ u[i] # w[i]
    BY <2>1
  <2>3. i # 0
    BY <1>3, <1>4, <2>2
  <2>4. i - 1 \in 0 .. n /\ ~ (i <= i - 1) /\ i \in 1 .. n /\ i \in 1 .. n + 1
    BY <1>2, <2>2, <2>3
  <2>5. u[i - 1] = w[i - 1]
    BY <2>1, <2>4
  <2> QED
    BY <1>2, <1>3, <1>4, <2>2, <2>4, <2>5
<1>6. u[n] = w[n]
  BY <1>2, <1>5
<1>7. PICK m : m = n + 1
  OBVIOUS
<1>8. u[n + 1] = Glue(u[n], R[n + 1])
  <2>1. m \in 1 .. n + 1 /\ m - 1 = n
    BY <1>2, <1>7
  <2>2. u[m] = Glue(u[m - 1], R[m])
    BY <1>4, <2>1
  <2> QED
    BY <1>7, <2>1, <2>2, Zenon
<1> QED
  BY <1>1, <1>2, <1>3, <1>4, <1>6, <1>8, Zenon

LEMMA FrontGlue ==
    ASSUME NEW v \in Seq(Chars), NEW c \in Component
    PROVE  Len(Glue(v, c)) > 1 /\ Front(Glue(v, c)) = v \o c
<1>1. PICK y, z : y = v \o c /\ z = Glue(v, c)
  OBVIOUS
<1>2. c \in Seq(Chars) /\ Len(c) \in Nat \ {0}
  BY EmptySeq DEF Component
<1>3. y \in Seq(Chars) /\ Len(y) = Len(v) + Len(c)
  BY <1>1, <1>2, ConcatProperties
<1>4. z \in Seq(Chars) /\ Len(z) = Len(y) + 1 /\ Len(z) > 1
  BY <1>1, <1>2, <1>3, WriteStep
<1>5. \A i \in 1 .. Len(y) : z[i] = y[i]
  <2>1. PICK sl : sl = Slash /\ sl \in Seq(Chars)
    BY SlashIsString
  <2>2. z = y \o sl
    BY <1>1, <2>1 DEF Glue
  <2>3. \A i \in 1 .. Len(y) : i \in 1 .. Len(y) + Len(sl) /\ i <= Len(y)
    BY <1>3, <2>1
  <2> QED
    BY <1>3, <2>1, <2>2, <2>3, ConcatProperties
<1>6. z # <<>>
  BY <1>4
<1>7. /\ Front(z) \in Seq(Chars) /\ Len(Front(z)) = Len(z) - 1
      /\ \A i \in 1 .. Len(z) - 1 : Front(z)[i] = z[i]
  BY <1>4, <1>6, FrontFacts
<1>8. Front(z) = y
  <2>1. PICK x : x = Front(z)
    OBVIOUS
  <2>2. x \in Seq(Chars) /\ Len(x) = Len(y) /\ \A i \in 1 .. Len(y) : x[i] = y[i]
    BY <1>3, <1>4, <1>5, <1>7, <2>1
  <2> QED
    BY <1>3, <2>1, <2>2, SeqEqual
<1> QED
  BY <1>1, <1>4, <1>8

\* A component more.
LEMMA StrAppend ==
    ASSUME NEW P \in Seq(Component), NEW c \in Component
    PROVE  Str(Append(P, c)) = Open(P) \o c
<1>1. PICK v, R : v = Open(P) /\ R = Append(P, c)
  OBVIOUS
<1>2. v \in Seq(Chars) /\ Spelt(Abs(R)) = Glue(v, c)
  BY <1>1, OpenType, OpenAppend DEF Open
<1>3. ~ (Len(Glue(v, c)) <= 1) /\ Front(Glue(v, c)) = v \o c
  <2>1. PICK l : l = Len(Glue(v, c))
    OBVIOUS
  <2>2. l \in Nat
    <3>1. c \in Seq(Chars)
      BY DEF Component
    <3> QED
      BY <1>2, <2>1, <3>1, WriteStep
  <2>3. l > 1 /\ Front(Glue(v, c)) = v \o c
    BY <1>2, <2>1, FrontGlue
  <2>4. ~ (l <= 1)
    BY <2>2, <2>3
  <2> QED
    BY <2>1, <2>3, <2>4
<1>4. Str(R) = v \o c
  BY <1>2, <1>3, RawIsSpell, Zenon DEF Str
<1> QED
  BY <1>1, <1>4

\* A path that is not empty is one with its last component behind the rest.
LEMMA LastFront ==
    ASSUME NEW V, NEW P \in Seq(V), P # <<>>
    PROVE  /\ Front(P) \in Seq(V) /\ Last(P) \in V
           /\ P = Append(Front(P), Last(P))
<1>1. PICK Q, c : Q = Front(P) /\ c = P[Len(P)]
  OBVIOUS
<1>2. Len(P) \in Nat \ {0}
  BY EmptySeq
<1>3. /\ Q \in Seq(V) /\ Len(Q) = Len(P) - 1
      /\ \A i \in 1 .. Len(P) - 1 : Q[i] = P[i]
  BY <1>1, FrontFacts
<1>4. c \in V
  BY <1>1, <1>2, ElementOfSeq
<1>5. PICK R : R = Append(Q, c)
  OBVIOUS
<1>6. /\ R \in Seq(V) /\ Len(R) = Len(P)
      /\ \A i \in 1 .. Len(Q) : R[i] = Q[i]
      /\ R[Len(Q) + 1] = c
  BY <1>2, <1>3, <1>4, <1>5, AppendProperties
<1>7. \A i \in 1 .. Len(P) : R[i] = P[i]
  <2> SUFFICES ASSUME NEW i \in 1 .. Len(P) PROVE R[i] = P[i]
    OBVIOUS
  <2>1. CASE i = Len(P)
    BY <1>1, <1>2, <1>3, <1>6, <2>1
  <2>2. CASE i # Len(P)
    <3>1. i \in 1 .. Len(P) - 1 /\ i \in 1 .. Len(Q)
      BY <1>2, <1>3, <2>2
    <3> QED
      BY <1>3, <1>6, <3>1
  <2> QED
    BY <2>1, <2>2
<1>8. R = P
  BY <1>6, <1>7, SeqEqual
<1> QED
  BY <1>1, <1>3, <1>4, <1>5, <1>8 DEF Last

\* What the next component is put behind is the string and a slash, except at
\* the root.
LEMMA OpenIsStr ==
    ASSUME NEW P \in Seq(Component), P # <<>>
    PROVE  Open(P) = Str(P) \o Slash
<1>1. PICK Q, c : Q = Front(P) /\ c = Last(P)
  OBVIOUS
<1>2. Q \in Seq(Component) /\ c \in Component /\ P = Append(Q, c)
  BY <1>1, LastFront
<1>3. Open(P) = Glue(Open(Q), c) /\ Str(P) = Open(Q) \o c
  BY <1>2, OpenAppend, StrAppend
<1> QED
  BY <1>3 DEF Glue

\* Slashes and one component.
LEMMA SplitOne ==
    ASSUME NEW z \in Seq(Chars), NEW c \in Component, NEW b \in Nat,
           Len(z) = b + Len(c),
           \A i \in 1 .. b : z[i] = "/",
           \A i \in 1 .. Len(c) : z[b + i] = c[i]
    PROVE  Split(z) = <<c>>
<1>1. PICK P, e : P = <<c>> /\ e = [k \in 0 .. 1 |-> IF k = 0 THEN b ELSE b + Len(c) + 1]
  OBVIOUS
<1>2. c \in Seq(Chars) /\ Len(c) \in Nat
  BY DEF Component
<1>3. P \in Seq(Component) /\ P # <<>> /\ Len(P) = 1 /\ P[1] = c
  BY <1>1
<1>4. e \in [0 .. 1 -> Nat] /\ e[0] = b /\ e[1] = b + Len(c) + 1
  BY <1>1, <1>2
<1>5. \A k \in 1 .. 1 : k = 1 /\ k - 1 = 0
  OBVIOUS
<1>6. \A k \in 1 .. 1 : e[k] = e[k - 1] + Len(P[k]) + 1
  <2> SUFFICES ASSUME NEW k \in 1 .. 1 PROVE e[k] = e[k - 1] + Len(P[k]) + 1
    OBVIOUS
  <2>1. e[k] = e[1] /\ e[k - 1] = e[0] /\ P[k] = c
    BY <1>3, <1>5, Zenon
  <2> QED
    BY <1>4, <2>1
<1>7. \A k \in 1 .. 1 : \A i \in 1 .. Len(P[k]) : z[e[k - 1] + i] = P[k][i]
  <2> SUFFICES ASSUME NEW k \in 1 .. 1 PROVE \A i \in 1 .. Len(P[k]) : z[e[k - 1] + i] = P[k][i]
    OBVIOUS
  <2>1. e[k - 1] = b /\ P[k] = c
    BY <1>3, <1>4, <1>5, Zenon
  <2> QED
    BY <2>1
<1>8. Len(z) = e[1] - 1
  BY <1>2, <1>4
<1>9. 1 .. 1 - 1 = {}
  OBVIOUS
<1>10. Spells(z, P, b, e)
  BY <1>3, <1>4, <1>6, <1>7, <1>8, <1>9 DEF Spells
<1> QED
  BY <1>1, <1>10, SplitSpelled

\* Without its first slash a string is the same path.
LEMMA SplitTail ==
    ASSUME NEW P \in Seq(Component), P # <<>>
    PROVE  Split(SubSeq(Str(P), 2, Len(Str(P)))) = P
<1>1. PICK s, e : s = Str(P) /\ Spells(s, P, 1, e)
  BY RawSpells
<1>2. PICK n, N : n = Len(P) /\ N = Len(s)
  OBVIOUS
<1>3. n \in Nat \ {0} /\ N \in Nat /\ s \in Seq(Chars)
  BY <1>1, <1>2, EmptySeq DEF Spells
<1>4. /\ e \in [0 .. n -> Nat] /\ e[0] = 1 /\ N = e[n] - 1
      /\ \A k \in 1 .. n : e[k] = e[k - 1] + Len(P[k]) + 1
      /\ \A k \in 1 .. n : \A i \in 1 .. Len(P[k]) : s[e[k - 1] + i] = P[k][i]
      /\ \A k \in 1 .. n - 1 : s[e[k]] = "/"
  BY <1>1, <1>2 DEF Spells
<1>5. \A k \in 1 .. n : /\ P[k] \in Seq(Chars) /\ Len(P[k]) \in Nat \ {0}
                        /\ k \in 0 .. n /\ k - 1 \in 0 .. n
  <2> SUFFICES ASSUME NEW k \in 1 .. n
               PROVE  /\ P[k] \in Seq(Chars) /\ Len(P[k]) \in Nat \ {0}
                      /\ k \in 0 .. n /\ k - 1 \in 0 .. n
    OBVIOUS
  <2>1. PICK c : c = P[k] /\ c \in Component
    BY <1>2, ElementOfSeq
  <2>2. c \in Seq(Chars) /\ c # <<>>
    BY <2>1 DEF Component
  <2>3. Len(c) \in Nat \ {0}
    BY <2>2, EmptySeq
  <2> QED
    BY <1>3, <2>1, <2>2, <2>3
<1>6. \A k \in 0 .. n : e[k] \in Nat /\ e[k] >= 1 /\ e[k] <= N + 1
  <2> SUFFICES ASSUME NEW k \in 0 .. n
               PROVE  e[k] \in Nat /\ e[k] >= 1 /\ e[k] <= N + 1
    OBVIOUS
  <2>1. e[k] \in Nat /\ e[n] \in Nat
    BY <1>3, <1>4
  <2>2. e[k] <= e[n]
    BY <1>1, <1>2, EndsGrow
  <2>3. k = 0 \/ k \in 1 .. n
    BY <1>3
  <2>4. e[k] >= 1
    <3>1. CASE k = 0
      BY <1>4, <3>1
    <3>2. CASE k \in 1 .. n
      <4>1. PICK x, y, L : x = e[k - 1] /\ y = e[k] /\ L = Len(P[k])
        OBVIOUS
      <4>2. x \in Nat /\ L \in Nat /\ y = x + L + 1
        BY <1>4, <1>5, <3>2, <4>1
      <4>3. y >= 1
        BY <4>2
      <4> QED
        BY <4>1, <4>3
    <3> QED
      BY <2>3, <3>1, <3>2
  <2> QED
    BY <1>3, <1>4, <2>1, <2>2, <2>4
<1>7. PICK z, d : z = SubSeq(s, 2, N) /\ d = [k \in 0 .. n |-> e[k] - 1]
  OBVIOUS
<1>8. z \in Seq(Chars) /\ Len(z) = N - 1 /\ \A i \in 1 .. N - 1 : z[i] = s[i + 1]
  <2>1. N >= 1
    <3>1. PICK x, y, L : x = e[0] /\ y = e[1] /\ L = Len(P[1])
      OBVIOUS
    <3>2. 1 \in 1 .. n /\ 1 - 1 = 0 /\ 1 \in 0 .. n
      BY <1>3
    <3>3. y = x + L + 1 /\ x = 1 /\ L \in Nat \ {0} /\ y <= N + 1
      BY <1>4, <1>5, <1>6, <3>1, <3>2
    <3> QED
      BY <1>3, <3>3
  <2>2. \A i \in 2 .. N : s[i] \in Chars
    BY <1>2, <1>3, ElementOfSeq
  <2>3. z \in Seq(Chars)
    BY <1>3, <1>7, <2>2, SubSeqProperties
  <2>4. Len(z) = N - 1
    BY <1>3, <1>7, <2>1
  <2> QED
    BY <1>3, <1>7, <2>3, <2>4
<1>9. /\ d \in [0 .. n -> Nat] /\ d[0] = 0
      /\ \A k \in 0 .. n : d[k] = e[k] - 1
  <2>1. ASSUME NEW k \in 0 .. n PROVE e[k] - 1 \in Nat
    <3>1. PICK x : x = e[k] /\ x \in Nat /\ x >= 1
      BY <1>6
    <3>2. x - 1 \in Nat
      BY <3>1
    <3> QED
      BY <3>1, <3>2
  <2>2. \A k \in 0 .. n : d[k] = e[k] - 1
    BY <1>7
  <2>3. d \in [0 .. n -> Nat]
    BY <1>7, <2>1
  <2>4. 0 \in 0 .. n
    BY <1>3
  <2> QED
    BY <1>4, <2>2, <2>3, <2>4
<1>10. \A k \in 1 .. n : d[k] = d[k - 1] + Len(P[k]) + 1
  <2> SUFFICES ASSUME NEW k \in 1 .. n PROVE d[k] = d[k - 1] + Len(P[k]) + 1
    OBVIOUS
  <2>1. PICK x, y, L : x = e[k - 1] /\ y = e[k] /\ L = Len(P[k])
    OBVIOUS
  <2>2. x \in Nat /\ y \in Nat /\ L \in Nat /\ y = x + L + 1
    BY <1>4, <1>5, <1>6, <2>1
  <2>3. PICK p, q : p = d[k] /\ q = d[k - 1] /\ p = y - 1 /\ q = x - 1
    BY <1>5, <1>9, <2>1
  <2>4. p = q + L + 1
    BY <2>2, <2>3
  <2> QED
    BY <2>1, <2>3, <2>4, Zenon
<1>11. \A k \in 1 .. n : \A i \in 1 .. Len(P[k]) : z[d[k - 1] + i] = P[k][i]
  <2> SUFFICES ASSUME NEW k \in 1 .. n, NEW i \in 1 .. Len(P[k])
               PROVE  z[d[k - 1] + i] = P[k][i]
    OBVIOUS
  <2>1. PICK x, y, L, a : x = e[k - 1] /\ y = e[k] /\ L = Len(P[k]) /\ a = d[k - 1] + i
    OBVIOUS
  <2>2. x \in Nat /\ x >= 1 /\ y \in Nat /\ L \in Nat /\ y = x + L + 1 /\ y <= N + 1
        /\ i \in 1 .. L
    BY <1>4, <1>5, <1>6, <2>1
  <2>3. a = x - 1 + i
    BY <1>5, <1>9, <2>1
  <2>4. a \in 1 .. N - 1 /\ a + 1 = x + i
    BY <1>3, <2>2, <2>3
  <2>5. z[a] = s[a + 1]
    BY <1>8, <2>4
  <2>6. s[x + i] = P[k][i]
    BY <1>4, <2>1
  <2>7. z[a] = P[k][i]
    BY <2>4, <2>5, <2>6, Zenon
  <2> QED
    BY <2>1, <2>7, Zenon
<1>12. \A k \in 1 .. n - 1 : z[d[k]] = "/"
  <2> SUFFICES ASSUME NEW k \in 1 .. n - 1 PROVE z[d[k]] = "/"
    OBVIOUS
  <2>1. k \in 1 .. n /\ k + 1 \in 1 .. n /\ k + 1 - 1 = k
    BY <1>3
  <2>2. PICK u, x, y, a : u = e[k - 1] /\ x = e[k] /\ y = e[k + 1] /\ a = d[k]
    OBVIOUS
  <2>3. /\ u \in Nat /\ x \in Nat /\ y \in Nat /\ u >= 1 /\ x >= u + 1 /\ y >= x + 1
        /\ y <= N + 1
    <3>1. PICK L \in Nat : x = u + L + 1
      BY <1>4, <1>5, <2>1, <2>2
    <3>2. PICK M \in Nat : y = x + M + 1
      <4>1. PICK j : j = k + 1
        OBVIOUS
      <4>2. j \in 1 .. n /\ j - 1 = k
        BY <2>1, <4>1
      <4>3. e[j] = e[j - 1] + Len(P[j]) + 1 /\ Len(P[j]) \in Nat
        BY <1>4, <1>5, <4>2
      <4>4. e[j] = y /\ e[j - 1] = x
        BY <2>2, <4>1, <4>2, Zenon
      <4> QED
        BY <4>3, <4>4
    <3>3. u \in Nat /\ x \in Nat /\ y \in Nat /\ u >= 1 /\ y <= N + 1
      BY <1>5, <1>6, <2>1, <2>2
    <3> QED
      BY <3>1, <3>2, <3>3
  <2>4. a = x - 1
    BY <1>5, <1>9, <2>1, <2>2
  <2>5. a \in 1 .. N - 1 /\ a + 1 = x
    BY <1>3, <2>3, <2>4
  <2>6. z[a] = s[a + 1]
    BY <1>8, <2>5
  <2>7. s[x] = "/"
    BY <1>4, <2>2
  <2> QED
    BY <2>2, <2>5, <2>6, <2>7, Zenon
<1>13. Len(z) = d[n] - 1
  <2>1. n \in 0 .. n
    BY <1>3
  <2>2. PICK x : x = e[n] /\ x \in Nat
    BY <1>6, <2>1
  <2>3. d[n] = x - 1 /\ N = x - 1
    BY <1>4, <1>9, <2>1, <2>2
  <2> QED
    BY <1>3, <1>8, <2>3
<1>14. \A i \in 1 .. 0 : z[i] = "/"
  OBVIOUS
<1>15. Spells(z, P, 0, d)
  BY <1>2, <1>8, <1>9, <1>10, <1>11, <1>12, <1>13, <1>14 DEF Spells
<1> QED
  BY <1>1, <1>2, <1>7, <1>15, SplitSpelled

LEMMA PrefixElements ==
    ASSUME NEW k \in Seq(Chars), NEW s \in Seq(Chars)
    PROVE  IsPrefix(k, s) <=> /\ Len(k) <= Len(s)
                              /\ \A i \in 1 .. Len(k) : k[i] = s[i]
<1>1. PICK n : n = Len(k) /\ n \in Nat
  OBVIOUS
<1>2. SubSeq(k, 1, n) = k
  BY <1>1
<1>3. SUFFICES ASSUME n <= Len(s)
               PROVE  SubSeq(k, 1, n) = SubSeq(s, 1, n) <=> \A i \in 1 .. n : k[i] = s[i]
  BY <1>1 DEF IsPrefix
<1>4. PICK t : t = SubSeq(s, 1, n)
  OBVIOUS
<1>5. \A i \in 1 .. n : s[i] \in Chars
  BY <1>1, <1>3, ElementOfSeq
<1>6. t \in Seq(Chars)
  BY <1>1, <1>4, <1>5, SubSeqProperties
<1>7. Len(t) = n /\ \A i \in 1 .. n : t[i] = s[i]
  BY <1>1, <1>3, <1>4
<1>8. (\A i \in 1 .. n : k[i] = s[i]) => k = t
  BY <1>1, <1>6, <1>7, SeqEqual
<1> QED
  BY <1>2, <1>4, <1>7, <1>8

-------------------------------------------------------------------------------
(* Where GetMount() sends a path.                                          *)

\* The longest key that a string starts with, and what follows it.
Best(s) == CHOOSE k \in Keys(s) : \A l \in Keys(s) : Len(k) >= Len(l)
Rest(s) == IF Best(s) = s THEN Slash ELSE SubSeq(s, Len(Best(s)) + 1, Len(s))

LEMMA GetMountIs ==
    ASSUME NEW s
    PROVE  GetMount(s) = IF Keys(s) = {} THEN [mount |-> NULL, rest |-> s]
                         ELSE [mount |-> mount_map[Best(s)], rest |-> Rest(s)]
  BY Zenon DEF GetMount, Keys, Best, Rest

\* The place of a string, in these terms.
Routed(m, r) == IF m = NULL THEN NULL
                ELSE [mount |-> m, path |-> PathCollapse(Split(r))]

LEMMA PlaceIs ==
    ASSUME NEW s
    PROVE  Place(s) = IF Keys(s) = {} THEN NULL ELSE Routed(mount_map[Best(s)], Rest(s))
<1>1. CASE Keys(s) = {}
  <2>1. GetMount(s).mount = NULL
    BY <1>1, GetMountIs
  <2> QED
    BY <1>1, <2>1 DEF Place
<1>2. CASE Keys(s) # {}
  <2>1. GetMount(s).mount = mount_map[Best(s)] /\ GetMount(s).rest = Rest(s)
    BY <1>2, GetMountIs
  <2>2. NewPathHandle(Rest(s)).path = PathCollapse(Split(Rest(s)))
    BY DEF NewPathHandle
  <2> QED
    BY <1>2, <2>1, <2>2, Zenon DEF Place, Routed
<1> QED
  BY <1>1, <1>2

LEMMA KeysAreStrings ==
    ASSUME PlacesOK, NEW k \in DOMAIN mount_map
    PROVE  k \in Seq(Chars)
  BY MountManagerAssumption, SlashIsString DEF PlacesOK

LEMMA BestIsKey ==
    ASSUME PlacesOK, NEW s \in Seq(Chars), Keys(s) # {}
    PROVE  Best(s) \in Keys(s) /\ \A l \in Keys(s) : Len(Best(s)) >= Len(l)
<1>1. \A k \in Keys(s) : k \in Seq(Chars) /\ Len(k) \in 0 .. Len(s)
  <2> SUFFICES ASSUME NEW k \in Keys(s)
               PROVE  k \in Seq(Chars) /\ Len(k) \in 0 .. Len(s)
    OBVIOUS
  <2>1. k \in Seq(Chars) /\ IsPrefix(k, s)
    BY KeysAreStrings DEF Keys
  <2>2. Len(k) <= Len(s)
    BY <2>1, PrefixElements
  <2> QED
    BY <2>1, <2>2
<1>2. PICK n, S : n = Len(s) + 1 /\ S = {Len(k) : k \in Keys(s)}
  OBVIOUS
<1>3. n \in Nat /\ S \in SUBSET (0 .. n - 1) /\ S # {}
  BY <1>1, <1>2
<1>4. PICK m \in S : \A j \in S : m >= j
  BY <1>3, MaxExists
<1>5. PICK k \in Keys(s) : m = Len(k)
  BY <1>2, <1>4
<1>6. \A l \in Keys(s) : Len(k) >= Len(l)
  BY <1>2, <1>4, <1>5
<1> QED
  BY <1>5, <1>6, Zenon DEF Best

\* s is the string t of a directory and a name behind it.
Behind(s, t, c) ==
    /\ t \in Seq(Chars) /\ c \in Component
    /\ \/ t = Slash /\ s = Slash \o c
       \/ t # <<>> /\ s = (t \o Slash) \o c

LEMMA BehindFacts ==
    ASSUME NEW s, NEW t, NEW c, Behind(s, t, c)
    PROVE  /\ s \in Seq(Chars) /\ 1 <= Len(t) /\ Len(t) < Len(s)
           /\ \A i \in 1 .. Len(t) : s[i] = t[i]
           /\ \A i \in Len(t) + 2 .. Len(s) : s[i] # "/"
           /\ t = Slash /\ s = Slash \o c => \A i \in 2 .. Len(s) : s[i] # "/"
<1>1. /\ c \in Seq(Chars) /\ Len(c) \in Nat \ {0} /\ t \in Seq(Chars) /\ Len(t) \in Nat
      /\ \A i \in 1 .. Len(c) : c[i] # "/"
  BY EmptySeq DEF Behind, Component
<1>2. PICK sl : sl = Slash /\ sl \in Seq(Chars) /\ Len(sl) = 1 /\ sl[1] = "/"
  BY SlashIsString
<1>3. ASSUME NEW x \in Seq(Chars), s = x \o c
      PROVE  /\ s \in Seq(Chars) /\ Len(s) = Len(x) + Len(c)
             /\ \A i \in 1 .. Len(x) : s[i] = x[i]
             /\ \A i \in Len(x) + 1 .. Len(s) : s[i] # "/"
  <2>1. /\ s \in Seq(Chars) /\ Len(s) = Len(x) + Len(c)
        /\ \A i \in 1 .. Len(x) + Len(c) : s[i] = IF i <= Len(x) THEN x[i] ELSE c[i - Len(x)]
    BY <1>1, <1>3, ConcatProperties
  <2>2. \A i \in 1 .. Len(x) : s[i] = x[i]
    <3>1. \A i \in 1 .. Len(x) : i \in 1 .. Len(x) + Len(c) /\ i <= Len(x)
      BY <1>1
    <3> QED
      BY <2>1, <3>1
  <2>3. \A i \in Len(x) + 1 .. Len(s) : s[i] # "/"
    <3> SUFFICES ASSUME NEW i \in Len(x) + 1 .. Len(s) PROVE s[i] # "/"
      OBVIOUS
    <3>1. PICK j : j = i - Len(x)
      OBVIOUS
    <3>2. i \in 1 .. Len(x) + Len(c) /\ ~ (i <= Len(x)) /\ j \in 1 .. Len(c)
      BY <1>1, <2>1, <3>1
    <3>3. s[i] = c[j]
      BY <2>1, <3>1, <3>2
    <3> QED
      BY <1>1, <3>2, <3>3
  <2> QED
    BY <2>1, <2>2, <2>3
<1>4. CASE t = sl /\ s = sl \o c
  <2>1. /\ s \in Seq(Chars) /\ Len(s) = 1 + Len(c)
        /\ \A i \in 1 .. 1 : s[i] = sl[i]
        /\ \A i \in 2 .. Len(s) : s[i] # "/"
    <3>1. /\ s \in Seq(Chars) /\ Len(s) = Len(sl) + Len(c)
          /\ \A i \in 1 .. Len(sl) : s[i] = sl[i]
          /\ \A i \in Len(sl) + 1 .. Len(s) : s[i] # "/"
      BY <1>2, <1>3, <1>4, Zenon
    <3> QED
      BY <1>2, <3>1
  <2>2. Len(t) = 1 /\ 1 <= Len(t) /\ Len(t) < Len(s)
    BY <1>1, <1>2, <1>4, <2>1
  <2>3. \A i \in Len(t) + 2 .. Len(s) : s[i] # "/"
    BY <2>1, <2>2
  <2> QED
    BY <1>4, <2>1, <2>2, <2>3
<1>5. CASE t # <<>> /\ s = (t \o sl) \o c /\ ~ (t = sl /\ s = sl \o c)
  <2>1. PICK x : x = t \o sl
    OBVIOUS
  <2>2. /\ x \in Seq(Chars) /\ Len(x) = Len(t) + 1
        /\ \A i \in 1 .. Len(t) + Len(sl) : x[i] = IF i <= Len(t) THEN t[i] ELSE sl[i - Len(t)]
    BY <1>1, <1>2, <2>1, ConcatProperties
  <2>3. \A i \in 1 .. Len(t) : x[i] = t[i] /\ i \in 1 .. Len(x)
    <3>1. \A i \in 1 .. Len(t) : i \in 1 .. Len(t) + Len(sl) /\ i <= Len(t)
      BY <1>1, <1>2
    <3> QED
      BY <1>1, <2>2, <3>1
  <2>4. /\ s \in Seq(Chars) /\ Len(s) = Len(x) + Len(c)
        /\ \A i \in 1 .. Len(x) : s[i] = x[i]
        /\ \A i \in Len(x) + 1 .. Len(s) : s[i] # "/"
    BY <1>3, <1>5, <2>1, <2>2
  <2>5. Len(t) # 0
    BY <1>1, <1>5, EmptySeq
  <2>6. 1 <= Len(t) /\ Len(t) < Len(s)
    BY <1>1, <2>2, <2>4, <2>5
  <2>7. \A i \in 1 .. Len(t) : s[i] = t[i]
    BY <2>3, <2>4
  <2>8. \A i \in Len(t) + 2 .. Len(s) : s[i] # "/"
    BY <1>1, <2>2, <2>4
  <2> QED
    BY <1>2, <1>5, <2>4, <2>6, <2>7, <2>8
<1> QED
  BY <1>2, <1>4, <1>5 DEF Behind

\* A file starts with the keys that its directory starts with.
LEMMA ParentKeys ==
    ASSUME PlacesOK, NEW s, NEW t, NEW c, Behind(s, t, c)
    PROVE  Keys(t) \subseteq Keys(s)
<1>1. /\ s \in Seq(Chars) /\ t \in Seq(Chars) /\ 1 <= Len(t) /\ Len(t) < Len(s)
      /\ Len(t) \in Nat /\ Len(s) \in Nat
      /\ \A i \in 1 .. Len(t) : s[i] = t[i]
      /\ \A i \in Len(t) + 2 .. Len(s) : s[i] # "/"
      /\ t = Slash /\ s = Slash \o c => \A i \in 2 .. Len(s) : s[i] # "/"
  <2>1. /\ s \in Seq(Chars) /\ 1 <= Len(t) /\ Len(t) < Len(s)
        /\ \A i \in 1 .. Len(t) : s[i] = t[i]
        /\ \A i \in Len(t) + 2 .. Len(s) : s[i] # "/"
        /\ t = Slash /\ s = Slash \o c => \A i \in 2 .. Len(s) : s[i] # "/"
    BY BehindFacts, Zenon
  <2>2. t \in Seq(Chars)
    BY DEF Behind
  <2>3. Len(t) \in Nat /\ Len(s) \in Nat
    BY <2>1, <2>2
  <2> QED
    BY <2>1, <2>2, <2>3, Zenon
<1>2. ASSUME NEW k \in Keys(t) PROVE k \in Keys(s)
  <2>1. k \in Seq(Chars) /\ k \in DOMAIN mount_map /\ k # <<>> /\ IsPrefix(k, t)
    BY KeysAreStrings DEF Keys
  <2>2. Len(k) \in Nat /\ Len(k) <= Len(t) /\ \A i \in 1 .. Len(k) : k[i] = t[i]
    BY <1>1, <2>1, PrefixElements
  <2>3. Len(k) <= Len(s) /\ \A i \in 1 .. Len(k) : k[i] = s[i]
    <3>1. \A i \in 1 .. Len(k) : i \in 1 .. Len(t)
      BY <1>1, <2>2
    <3>2. Len(k) <= Len(s)
      BY <1>1, <2>2
    <3> QED
      BY <1>1, <2>2, <3>1, <3>2
  <2>4. IsPrefix(k, s)
    BY <1>1, <2>1, <2>3, PrefixElements
  <2> QED
    BY <2>1, <2>4 DEF Keys
<1> QED
  BY <1>2

\* FormulatePath() of an absolute handle, and the strings it writes.
LEMMA FormulateAbs ==
    ASSUME NEW P
    PROVE  FormulatePath(Abs(P)) = Str(PathCollapse(P))
  BY CollapsedAbs DEF FormulatePath, Str

LEMMA AbsHandles ==
    ASSUME NEW s, IsAbsolute(s)
    PROVE  SetPath(s) = Abs(Split(s)) /\ NewPathHandle(s) = Abs(PathCollapse(Split(s)))
<1>1. IsAbsolute(s) = TRUE
  BY DEF IsAbsolute
<1> QED
  BY <1>1, Zenon DEF SetPath, NewPathHandle, Abs

LEMMA CanonicalString ==
    ASSUME NEW s \in Seq(Chars), Canonical(s)
    PROVE  \E P \in Seq(Name) : s = Str(P) /\ Split(s) = P /\ PathCollapse(P) = P
<1>1. IsAbsolute(s) /\ FormulatePath(SetPath(s)) = s
  BY DEF Canonical
<1>2. PICK P : P = PathCollapse(Split(s))
  OBVIOUS
<1>3. P \in Seq(Name) /\ P \in Seq(Component)
  BY <1>2, SplitType, CollapseType, NamesAreComponents
<1>4. s = Str(P)
  BY <1>1, <1>2, AbsHandles, FormulateAbs
<1> QED
  BY <1>3, <1>4, StrFacts, CollapseNames

\* The handles of open(): the path itself and its parent.
LEMMA OpenHandles ==
    ASSUME NEW P \in Seq(Name), P # <<>>, NEW s, s = Str(P)
    PROVE  /\ OpenHandlePath(s) = Abs(P)
           /\ FormulatePath(NewPathHandle(s)) = s /\ s # <<>>
           /\ FormulatePath(Abs(P)) = s
           /\ FormulatePath(NewPathHandle(s \o SlashDotDot)) = Str(Front(P))
<1>1. P \in Seq(Component) /\ PathCollapse(P) = P
  BY NamesAreComponents, CollapseNames
<1>2. s \in Seq(Chars) /\ IsAbsolute(s) /\ Split(s) = P
  BY <1>1, StrFacts
<1>3. s # <<>>
  BY <1>2, Zenon DEF IsAbsolute
<1>4. NewPathHandle(s) = Abs(P) /\ FormulatePath(Abs(P)) = s
  BY <1>1, <1>2, AbsHandles, FormulateAbs
<1>5. OpenHandlePath(s) = Abs(P)
  <2>1. Abs(P).is_absolute
    BY AbsPath
  <2> QED
    BY <1>4, <2>1, Zenon DEF OpenHandlePath
<1>6. PICK R, r : R = Append(P, DotDotName) /\ r = s \o SlashDotDot
  OBVIOUS
<1>7. R \in Seq(Component) /\ PathCollapse(R) = Front(P)
  <2>1. DotDotName \in Component
    BY DotDotIsComponent
  <2>2. R \in Seq(Component)
    BY <1>1, <1>6, <2>1, AppendProperties
  <2> QED
    BY <1>6, <2>2, CollapseUp
<1>8. r = Str(R)
  <2>1. PICK sl, d : sl = Slash /\ d = DotDotName
    OBVIOUS
  <2>2. sl \in Seq(Chars) /\ d \in Component /\ d \in Seq(Chars)
    BY <2>1, SlashIsString, DotDotIsComponent DEF Component
  <2>3. Str(R) = (s \o sl) \o d
    <3>1. Open(P) = s \o sl
      BY <1>1, <2>1, OpenIsStr
    <3>2. Str(R) = Open(P) \o d
      BY <1>1, <1>6, <2>1, <2>2, StrAppend
    <3> QED
      BY <3>1, <3>2
  <2>4. SlashDotDot = sl \o d
    BY <2>1 DEF SlashDotDot, Slash, DotDotName
  <2>5. (s \o sl) \o d = s \o (sl \o d)
    BY <1>2, <2>2, ConcatAssociative
  <2> QED
    BY <1>6, <2>3, <2>4, <2>5
<1>9. IsAbsolute(r) /\ Split(r) = R
  BY <1>7, <1>8, StrFacts
<1>10. FormulatePath(NewPathHandle(r)) = Str(Front(P))
  <2>1. NewPathHandle(r) = Abs(Front(P))
    BY <1>7, <1>9, AbsHandles
  <2>2. PathCollapse(Front(P)) = Front(P)
    BY LastFront, CollapseNames
  <2> QED
    BY <2>1, <2>2, FormulateAbs
<1> QED
  BY <1>3, <1>4, <1>5, <1>6, <1>10

\* A path lies behind its parent.
LEMMA ParentBehind ==
    ASSUME NEW P \in Seq(Component), P # <<>>
    PROVE  Behind(Str(P), Str(Front(P)), Last(P))
<1>1. PICK Q, c, s, t : Q = Front(P) /\ c = Last(P) /\ s = Str(P) /\ t = Str(Q)
  OBVIOUS
<1>2. Q \in Seq(Component) /\ c \in Component /\ P = Append(Q, c)
  BY <1>1, LastFront
<1>3. s = Open(Q) \o c /\ t \in Seq(Chars)
  BY <1>1, <1>2, StrAppend, StrFacts
<1>4. CASE Q = <<>>
  BY <1>1, <1>2, <1>3, <1>4, OpenRoot, RawRoot DEF Behind
<1>5. CASE Q # <<>>
  <2>1. t # <<>>
    <3>1. IsAbsolute(t)
      BY <1>1, <1>2, StrFacts
    <3> QED
      BY <3>1, Zenon DEF IsAbsolute
  <2>2. Open(Q) = t \o Slash
    BY <1>1, <1>2, <1>5, OpenIsStr
  <2> QED
    BY <1>1, <1>2, <1>3, <2>1, <2>2 DEF Behind
<1> QED
  BY <1>4, <1>5

Joined(z, x, y, m, n) == /\ x \in Seq(Chars) /\ y \in Seq(Chars) /\ z = x \o y
                         /\ m = Len(x) /\ n = Len(y)

LEMMA ConcatIs ==
    ASSUME NEW x, NEW y, NEW z, NEW m, NEW n, Joined(z, x, y, m, n)
    PROVE  /\ z \in Seq(Chars) /\ Len(z) = m + n
           /\ \A i \in 1 .. m + n : z[i] = IF i <= m THEN x[i] ELSE y[i - m]
<1>1. x \in Seq(Chars) /\ y \in Seq(Chars)
  BY DEF Joined
<1>2. /\ x \o y \in Seq(Chars)
      /\ Len(x \o y) = Len(x) + Len(y)
      /\ \A i \in 1 .. Len(x) + Len(y) :
             (x \o y)[i] = IF i <= Len(x) THEN x[i] ELSE y[i - Len(x)]
  BY <1>1, ConcatProperties
<1> QED
  BY <1>2, Zenon DEF Joined

LEMMA JoinedParts ==
    ASSUME NEW x, NEW y, NEW z, NEW m, NEW n, Joined(z, x, y, m, n)
    PROVE  /\ Len(z) = m + n
           /\ \A i \in 1 .. m : z[i] = x[i]
           /\ \A i \in 1 .. n : z[m + i] = y[i]
<1>1. m \in Nat /\ n \in Nat
  BY DEF Joined
<1>2. /\ Len(z) = m + n
      /\ \A i \in 1 .. m + n : z[i] = IF i <= m THEN x[i] ELSE y[i - m]
  BY ConcatIs
<1>3. \A i \in 1 .. m : i \in 1 .. m + n /\ i <= m
  BY <1>1
<1>4. ASSUME NEW i \in 1 .. n PROVE z[m + i] = y[i]
  <2>1. PICK j : j = m + i
    OBVIOUS
  <2>2. j \in 1 .. m + n /\ ~ (j <= m) /\ j - m = i
    BY <1>1, <2>1
  <2>3. z[j] = y[j - m]
    BY <1>2, <2>2
  <2> QED
    BY <2>1, <2>2, <2>3, Zenon
<1> QED
  BY <1>2, <1>3, <1>4

LEMMA SuffixIs ==
    ASSUME NEW x \in Seq(Chars), NEW m, NEW n \in Nat, m = Len(x), n <= m,
           NEW z, z = SubSeq(x, n + 1, m)
    PROVE  z \in Seq(Chars) /\ Len(z) = m - n /\ \A i \in 1 .. m - n : z[i] = x[n + i]
<1>1. m \in Nat
  OBVIOUS
<1>2. \A i \in n + 1 .. m : x[i] \in Chars
  BY <1>1, ElementOfSeq
<1>3. z \in Seq(Chars)
  BY <1>1, <1>2, SubSeqProperties
<1>4. Len(z) = m - n /\ \A i \in 1 .. m - n : z[i] = x[n + i]
  BY <1>1
<1> QED
  BY <1>3, <1>4

LEMMA ConcatThree ==
    ASSUME NEW x \in Seq(Chars), NEW y \in Seq(Chars), NEW z \in Seq(Chars)
    PROVE  (x \o y) \o z = x \o (y \o z)
  BY ConcatAssociative

\* What GetMount() leaves of t behind the key b.
LeftOver(b, t) == IF b = t THEN Slash ELSE SubSeq(t, Len(b) + 1, Len(t))

\* The same names are left of a path and of its parent with the name added.
LEMMA RestsAgree ==
    ASSUME NEW s, NEW t, NEW c, Behind(s, t, c),
           NEW b \in Seq(Chars), b # <<>>, b # s, IsPrefix(b, t),
           NEW r, r = LeftOver(b, t)
    PROVE  Split((r \o Slash) \o c) = Split(SubSeq(s, Len(b) + 1, Len(s)))
<1>1. /\ c \in Seq(Chars) /\ c \in Component /\ Len(c) \in Nat
      /\ t \in Seq(Chars) /\ Len(t) \in Nat
  BY DEF Behind, Component
<1>2. PICK sl : sl = Slash /\ sl \in Seq(Chars) /\ Len(sl) = 1 /\ sl[1] = "/"
  BY SlashIsString
<1>3. PICK y, Y : y = sl \o c /\ Y = Len(y)
  OBVIOUS
<1>4. /\ y \in Seq(Chars) /\ Y = 1 + Len(c) /\ Y \in Nat
      /\ y[1] = "/" /\ \A i \in 1 .. Len(c) : y[1 + i] = c[i]
  <2>1. /\ y \in Seq(Chars) /\ Len(y) = Len(sl) + Len(c)
        /\ \A i \in 1 .. Len(sl) + Len(c) : y[i] = IF i <= Len(sl) THEN sl[i] ELSE c[i - Len(sl)]
    BY <1>1, <1>2, <1>3, ConcatProperties
  <2>2. /\ Len(y) = 1 + Len(c)
        /\ \A i \in 1 .. 1 + Len(c) : y[i] = IF i <= 1 THEN sl[i] ELSE c[i - 1]
    BY <1>2, <2>1
  <2>3. y[1] = "/"
    BY <1>1, <1>2, <2>2
  <2>4. ASSUME NEW i \in 1 .. Len(c) PROVE y[1 + i] = c[i]
    <3>1. PICK j : j = 1 + i
      OBVIOUS
    <3>2. j \in 1 .. 1 + Len(c) /\ ~ (j <= 1) /\ j - 1 = i
      BY <1>1, <3>1
    <3>3. y[j] = c[j - 1]
      BY <2>2, <3>2
    <3> QED
      BY <3>1, <3>2, <3>3, Zenon
  <2> QED
    BY <1>1, <1>3, <2>1, <2>2, <2>3, <2>4
<1>4a. y \in Seq(Chars) /\ Len(y) = Y
  BY <1>3, <1>4
<1>5. PICK B, T, S : B = Len(b) /\ T = Len(t) /\ S = Len(s)
  OBVIOUS
<1>6. B \in Nat /\ B <= T /\ B # 0 /\ T \in Nat /\ \A i \in 1 .. B : b[i] = t[i]
  BY <1>1, <1>5, PrefixElements, EmptySeq
<1>7. s \in Seq(Chars) /\ S \in Nat /\ T < S
  <2>1. s \in Seq(Chars) /\ T < S
    BY <1>5, BehindFacts
  <2> QED
    BY <1>5, <2>1
<1>8. PICK u : u = SubSeq(s, B + 1, S)
  OBVIOUS
<1>9. u \in Seq(Chars) /\ Len(u) = S - B /\ \A i \in 1 .. S - B : u[i] = s[B + i]
  <2>1. \A i \in B + 1 .. S : s[i] \in Chars
    BY <1>5, <1>6, <1>7, ElementOfSeq
  <2>2. u \in Seq(Chars)
    BY <1>6, <1>7, <1>8, <2>1, SubSeqProperties
  <2>3. Len(u) = S - B /\ \A i \in 1 .. S - B : u[i] = s[B + i]
    BY <1>6, <1>7, <1>8
  <2> QED
    BY <2>2, <2>3
<1>10. (t = sl /\ s = y) \/ s = t \o y
  <2>1. (t \o sl) \o c = t \o (sl \o c)
    BY <1>1, <1>2, ConcatThree
  <2> QED
    BY <1>2, <1>3, <2>1 DEF Behind
<1>11. s = t \o y => /\ S = T + Y
                     /\ \A i \in 1 .. T : s[i] = t[i]
                     /\ \A i \in 1 .. Y : s[T + i] = y[i]
  <2>1. s = t \o y => Joined(s, t, y, T, Y)
    BY <1>1, <1>5, <1>4a DEF Joined
  <2>2. Joined(s, t, y, T, Y) => /\ Len(s) = T + Y
                                 /\ \A i \in 1 .. T : s[i] = t[i]
                                 /\ \A i \in 1 .. Y : s[T + i] = y[i]
    BY JoinedParts
  <2> QED
    BY <1>5, <2>1, <2>2
<1>12. PICK z : z = (r \o sl) \o c
  OBVIOUS
<1>13. CASE b = t
  <2>1. z = sl \o y /\ B = T
    <3>1. (sl \o sl) \o c = sl \o (sl \o c)
      BY <1>1, <1>2, ConcatThree
    <3> QED
      BY <1>2, <1>3, <1>5, <1>12, <1>13, <3>1 DEF LeftOver
  <2>2. Split(z) = <<c>>
    <3>1. /\ z \in Seq(Chars) /\ Len(z) = Len(sl) + Y
          /\ \A i \in 1 .. Len(sl) + Y : z[i] = IF i <= Len(sl) THEN sl[i] ELSE y[i - Len(sl)]
      <4>1. Joined(z, sl, y, Len(sl), Y)
        BY <1>2, <1>4a, <2>1 DEF Joined
      <4> QED
        BY <4>1, ConcatIs
    <3>2. /\ Len(z) = 1 + Y
          /\ \A i \in 1 .. 1 + Y : z[i] = IF i <= 1 THEN sl[i] ELSE y[i - 1]
      BY <1>2, <3>1
    <3>3. ASSUME NEW i \in 1 .. 2 PROVE z[i] = "/"
      <4>1. CASE i = 1
        BY <1>2, <1>4, <3>2, <4>1
      <4>2. CASE i = 2
        <5>1. i \in 1 .. 1 + Y /\ ~ (i <= 1) /\ i - 1 = 1
          BY <1>1, <1>4, <4>2
        <5>2. z[i] = y[i - 1]
          BY <3>2, <5>1
        <5> QED
          BY <1>4, <5>1, <5>2, Zenon
      <4> QED
        BY <4>1, <4>2
    <3>4. ASSUME NEW i \in 1 .. Len(c) PROVE z[2 + i] = c[i]
      <4>1. PICK j : j = 2 + i
        OBVIOUS
      <4>2. j \in 1 .. 1 + Y /\ ~ (j <= 1) /\ j - 1 = 1 + i
        BY <1>1, <1>4, <4>1
      <4>3. z[j] = y[j - 1] /\ y[1 + i] = c[i]
        BY <1>4, <3>2, <4>2
      <4> QED
        BY <4>1, <4>2, <4>3, Zenon
    <3>5. Len(z) = 2 + Len(c)
      BY <1>1, <1>4, <3>2
    <3> QED
      BY <1>1, <3>1, <3>3, <3>4, <3>5, SplitOne
  <2>3. CASE t = sl /\ s = y
    <3>1. B = 1 /\ S = Y
      BY <1>2, <1>3, <1>5, <2>1, <2>3
    <3>2. Len(u) = 0 + Len(c)
      BY <1>1, <1>4, <1>9, <3>1
    <3>3. \A i \in 1 .. Len(c) : u[0 + i] = c[i]
      <4> SUFFICES ASSUME NEW i \in 1 .. Len(c) PROVE u[0 + i] = c[i]
        OBVIOUS
      <4>1. i \in 1 .. S - B /\ 0 + i = i
        BY <1>1, <1>4, <3>1
      <4>2. u[i] = s[B + i] /\ y[1 + i] = c[i]
        BY <1>4, <1>9, <4>1
      <4> QED
        BY <2>3, <3>1, <4>1, <4>2, Zenon
    <3>4. \A i \in 1 .. 0 : u[i] = "/"
      OBVIOUS
    <3>5. Split(u) = <<c>>
      BY <1>1, <1>9, <3>2, <3>3, <3>4, SplitOne
    <3> QED
      BY <1>2, <1>5, <1>8, <1>12, <2>2, <3>5
  <2>4. CASE s = t \o y
    <3>1. Len(u) = 1 + Len(c)
      BY <1>1, <1>4, <1>6, <1>9, <1>11, <2>1, <2>4
    <3>2. ASSUME NEW i \in 1 .. Y PROVE u[i] = y[i]
      <4>1. i \in 1 .. S - B
        BY <1>4, <1>6, <1>11, <2>1, <2>4
      <4>2. u[i] = s[B + i] /\ s[T + i] = y[i]
        BY <1>9, <1>11, <2>4, <4>1
      <4> QED
        BY <2>1, <4>2, Zenon
    <3>3. \A i \in 1 .. 1 : u[i] = "/"
      <4>1. 1 \in 1 .. Y /\ \A i \in 1 .. 1 : i = 1
        BY <1>1, <1>4
      <4>2. u[1] = y[1]
        BY <3>2, <4>1, Zenon
      <4> QED
        BY <1>4, <4>1, <4>2, Zenon
    <3>4. \A i \in 1 .. Len(c) : u[1 + i] = c[i]
      <4>1. \A i \in 1 .. Len(c) : 1 + i \in 1 .. Y
        BY <1>1, <1>4
      <4> QED
        BY <1>4, <3>2, <4>1
    <3>5. Split(u) = <<c>>
      BY <1>1, <1>9, <3>1, <3>3, <3>4, SplitOne
    <3> QED
      BY <1>2, <1>5, <1>8, <1>12, <2>2, <3>5
  <2> QED
    BY <1>10, <2>3, <2>4
<1>14. CASE b # t
  <2>1. B # T
    <3>1. B = T => b = t
      BY <1>1, <1>5, <1>6, SeqEqual
    <3> QED
      BY <1>14, <3>1
  <2>2. T # 1
    BY <1>6, <2>1
  <2>3. s = t \o y
    <3>1. t # sl
      BY <1>2, <1>5, <2>2
    <3> QED
      BY <1>10, <3>1
  <2>4. r = SubSeq(t, B + 1, T)
    BY <1>5, <1>14 DEF LeftOver
  <2>5. PICK q : q = T - B
    OBVIOUS
  <2>6. q \in Nat /\ r \in Seq(Chars) /\ Len(r) = q /\ \A i \in 1 .. q : r[i] = t[B + i]
    <3>1. r \in Seq(Chars) /\ Len(r) = T - B /\ \A i \in 1 .. T - B : r[i] = t[B + i]
      BY <1>1, <1>5, <1>6, <2>4, SuffixIs
    <3>2. q \in Nat
      BY <1>6, <2>5
    <3> QED
      BY <2>5, <3>1, <3>2
  <2>7. z = r \o y
    <3>1. r \in Seq(Chars) /\ sl \in Seq(Chars) /\ c \in Seq(Chars)
      BY <1>1, <1>2, <2>6
    <3>2. (r \o sl) \o c = r \o (sl \o c)
      BY <3>1, ConcatThree
    <3> QED
      BY <1>3, <1>12, <3>2, Zenon
  <2>8. /\ z \in Seq(Chars) /\ Len(z) = q + Y
        /\ \A i \in 1 .. q + Y : z[i] = IF i <= q THEN r[i] ELSE y[i - q]
    <3>1. Joined(z, r, y, q, Y)
      BY <1>4a, <2>6, <2>7 DEF Joined
    <3> QED
      BY <3>1, ConcatIs
  <2>9. Len(u) = q + Y /\ S - B = q + Y
    BY <1>4, <1>6, <1>9, <1>11, <2>3, <2>5
  <2>10. ASSUME NEW i \in 1 .. q + Y PROVE z[i] = u[i]
    <3>1. u[i] = s[B + i]
      BY <1>9, <2>9
    <3>2. CASE i <= q
      <4>1. i \in 1 .. q /\ B + i \in 1 .. T
        BY <1>4, <1>6, <2>5, <2>6, <3>2
      <4>2. z[i] = r[i] /\ r[i] = t[B + i] /\ s[B + i] = t[B + i]
        BY <1>11, <2>3, <2>6, <2>8, <3>2, <4>1
      <4> QED
        BY <3>1, <4>2
    <3>3. CASE ~ (i <= q)
      <4>1. PICK j : j = i - q
        OBVIOUS
      <4>2. j \in 1 .. Y /\ T + j = B + i
        <5>1. q \in Nat /\ Y \in Nat /\ B \in Nat /\ T \in Nat /\ q = T - B
          BY <1>4, <1>6, <2>5, <2>6
        <5> QED
          BY <3>3, <4>1, <5>1
      <4>3. z[i] = y[j]
        BY <2>8, <3>3, <4>1
      <4>4. s[T + j] = y[j]
        BY <1>11, <2>3, <4>2
      <4> QED
        BY <3>1, <4>2, <4>3, <4>4, Zenon
    <3> QED
      BY <3>2, <3>3
  <2>11. z = u
    <3>1. \A i \in 1 .. Len(z) : z[i] = u[i]
      BY <2>8, <2>10
    <3> QED
      BY <1>9, <2>8, <2>9, <3>1, SeqEqual
  <2> QED
    BY <1>2, <1>5, <1>8, <1>12, <2>11
<1> QED
  BY <1>13, <1>14

\* open() looks where stat() does, unless a key reaches into the last name.
LEMMA OpenAgrees ==
    ASSUME PlacesOK, NEW s \in Seq(Chars), Canonical(s), s # Slash,
           Keys(s) \subseteq Keys(Parent(s))
    PROVE  OpenPlace(s) = StatPlace(s)
<1>1. PICK P \in Seq(Name) : s = Str(P)
  BY CanonicalString
<1>2. P # <<>>
  BY <1>1, RawRoot
<1>3. PICK t, c : t = Str(Front(P)) /\ c = Last(P)
  OBVIOUS
<1>4. Behind(s, t, c) /\ t \in Seq(Chars)
  BY <1>1, <1>2, <1>3, NamesAreComponents, ParentBehind DEF Behind
<1>5. /\ OpenHandlePath(s) = Abs(P)
      /\ ~ OpenRefuses(s) /\ Parent(s) = t
      /\ FormulatePath(NewPathHandle(FormulatePath(Abs(P)) \o SlashDotDot)) = t
  BY <1>1, <1>2, <1>3, OpenHandles DEF OpenRefuses, Parent
<1>6. PICK g : g = GetMount(t)
  OBVIOUS
<1>7. OpenPlace(s) = Routed(g.mount, (g.rest \o Slash) \o c)
  <2>1. Last(Abs(P).path) = c
    BY <1>3, AbsPath
  <2>2. OpenPlace(s) = IF g.mount = NULL THEN NULL
                       ELSE [mount |-> g.mount,
                             path |-> NewPathHandle(g.rest \o Slash \o c).path]
    BY <1>5, <1>6, <2>1, Zenon DEF OpenPlace
  <2>3. NewPathHandle(g.rest \o Slash \o c).path = PathCollapse(Split(g.rest \o Slash \o c))
    BY DEF NewPathHandle
  <2> QED
    BY <2>2, <2>3, Zenon DEF Routed
<1>8. StatPlace(s) = Place(s)
  <2>1. IsAbsolute(s)
    BY DEF Canonical
  <2> QED
    BY <2>1 DEF StatPlace, NodePlace
<1>9. Keys(s) = Keys(t)
  <2>1. Keys(t) \subseteq Keys(s)
    BY <1>4, ParentKeys
  <2>2. Keys(s) \subseteq Keys(t)
    BY <1>5, Zenon
  <2> QED
    BY <2>1, <2>2, Zenon
<1>10. CASE Keys(t) = {}
  <2>1. g.mount = NULL
    BY <1>6, <1>10, GetMountIs
  <2> QED
    BY <1>7, <1>8, <1>9, <1>10, <2>1, PlaceIs DEF Routed
<1>11. CASE Keys(t) # {}
  <2>1. PICK b : b = Best(t)
    OBVIOUS
  <2>2. Best(s) = b
    BY <1>9, <2>1, Zenon DEF Best
  <2>3. b \in Keys(t)
    BY <1>4, <1>11, <2>1, BestIsKey
  <2>4. b \in Seq(Chars) /\ b # <<>> /\ b # s /\ IsPrefix(b, t)
    <3>1. b \in Seq(Chars) /\ b # <<>> /\ IsPrefix(b, t)
      BY <2>3, KeysAreStrings DEF Keys
    <3>2. Len(b) <= Len(t) /\ Len(t) < Len(s) /\ Len(b) \in Nat /\ Len(t) \in Nat
      BY <1>4, <3>1, PrefixElements, BehindFacts
    <3>3. Len(b) # Len(s)
      BY <3>2
    <3> QED
      BY <3>1, <3>3, Zenon
  <2>5. g.mount = mount_map[b] /\ g.rest = LeftOver(b, t)
    <3>1. Rest(t) = LeftOver(b, t)
      BY <2>1 DEF Rest, LeftOver
    <3> QED
      BY <1>6, <1>11, <2>1, <3>1, GetMountIs
  <2>6. Rest(s) = SubSeq(s, Len(b) + 1, Len(s))
    BY <2>2, <2>4 DEF Rest
  <2>7. PICK r : r = g.rest
    OBVIOUS
  <2>8. Split((r \o Slash) \o c) = Split(SubSeq(s, Len(b) + 1, Len(s)))
    BY <1>4, <2>4, <2>5, <2>7, RestsAgree
  <2>9. Place(s) = Routed(mount_map[b], Rest(s))
    BY <1>9, <1>11, <2>2, PlaceIs
  <2> QED
    BY <1>7, <1>8, <2>5, <2>6, <2>7, <2>8, <2>9, Zenon DEF Routed
<1> QED
  BY <1>10, <1>11

-------------------------------------------------------------------------------
(* The prefixes that access() asks about.                                  *)

IsPrefixes(P, u) ==
    u = [k \in 0 .. Len(P) |-> IF k = 0 THEN Slash ELSE u[k - 1] \o Slash \o P[k]]

Asked(P) == [k \in 1 .. Len(P) + 1 |-> StatPlace((CHOOSE u : IsPrefixes(P, u))[k - 1])]

LEMMA AccessIs ==
    ASSUME NEW s
    PROVE  AccessPlaces(s) = Asked(Target(s).path)
  BY Zenon DEF AccessPlaces, Asked, IsPrefixes

\* The last prefix is the string with one more slash in front.
LEMMA LastPrefix ==
    ASSUME NEW P \in Seq(Component)
    PROVE  \E z : /\ (CHOOSE u : IsPrefixes(P, u))[Len(P)] = z
                  /\ z = IF P = <<>> THEN Slash ELSE Slash \o Str(P)
<1>1. PICK n, V, x : n = Len(P) /\ V = Seq(Chars) /\ x = Slash
  OBVIOUS
<1>2. n \in Nat /\ x \in V /\ x \in Seq(Chars)
  BY <1>1, SlashIsString
<1>3. PICK F : F = [k \in 1 .. n |-> [v \in V |-> v \o x \o P[k]]]
  OBVIOUS
<1>4. \A k \in 1 .. n : P[k] \in Seq(Chars)
  <2> SUFFICES ASSUME NEW k \in 1 .. n PROVE P[k] \in Seq(Chars)
    OBVIOUS
  <2>1. P[k] \in Component
    BY <1>1, ElementOfSeq
  <2> QED
    BY <2>1 DEF Component
<1>5. \A k \in 1 .. n : \A v \in V : v \o x \o P[k] \in V
  <2> SUFFICES ASSUME NEW k \in 1 .. n, NEW v \in V PROVE v \o x \o P[k] \in V
    OBVIOUS
  <2>1. v \o x \in Seq(Chars)
    BY <1>1, <1>2, ConcatProperties
  <2> QED
    BY <1>1, <1>4, <2>1, ConcatProperties
<1>6. F \in [1 .. n -> [V -> V]]
  BY <1>3, <1>5
<1>7. PICK u : Does(V, x, n, F, u)
  BY <1>2, <1>6, LoopExists
<1>8. /\ u \in [0 .. n -> V] /\ u[0] = x
      /\ \A k \in 1 .. n : u[k] = u[k - 1] \o x \o P[k]
  <2>1. /\ u \in [0 .. n -> V] /\ u[0] = x
        /\ \A k \in 1 .. n : u[k] = F[k][u[k - 1]]
    BY <1>7 DEF Does
  <2>2. \A k \in 1 .. n : u[k - 1] \in V
    BY <1>2, <2>1
  <2> QED
    BY <1>3, <2>1, <2>2
<1>9. IsPrefixes(P, u)
  <2>1. u = [i \in 0 .. n |-> u[i]]
    BY <1>8
  <2>2. \A i \in 0 .. n : u[i] = IF i = 0 THEN x ELSE u[i - 1] \o x \o P[i]
    <3>1. \A i \in 0 .. n : i # 0 => i \in 1 .. n
      BY <1>2
    <3> QED
      BY <1>8, <3>1, Zenon
  <2> QED
    BY <1>1, <2>1, <2>2 DEF IsPrefixes
<1>10. PICK w : w = CHOOSE v : IsPrefixes(P, v)
  OBVIOUS
<1>11. IsPrefixes(P, w)
  BY <1>9, <1>10
<1>12. \A i \in 0 .. n : w[i] = IF i = 0 THEN x ELSE w[i - 1] \o x \o P[i]
  BY <1>1, <1>11 DEF IsPrefixes
<1>13. PICK o : /\ o \in [0 .. n -> Seq(Chars)] /\ o[0] = x
                /\ \A i \in 1 .. n : o[i] = Glue(o[i - 1], P[i])
                /\ Open(P) = o[n]
  BY <1>1, OpenFacts
<1> DEFINE OK(i) == w[i] \in Seq(Chars) /\ w[i] \o x = x \o o[i]
           T == {i \in 0 .. n : ~ OK(i)}
<1>14. T = {}
  <2> SUFFICES ASSUME T # {} PROVE FALSE
    OBVIOUS
  <2>1. PICK i \in T : \A y \in T : i <= y
    <3> HIDE DEF OK
    <3>1. T \in SUBSET Nat
      OBVIOUS
    <3> HIDE DEF T
    <3> QED
      BY <3>1, LeastExists
  <2>2. i \in 0 .. n /\ ~ (w[i] \in Seq(Chars) /\ w[i] \o x = x \o o[i])
    BY <2>1
  <2>3. i # 0
    <3> SUFFICES ASSUME i = 0 PROVE FALSE
      OBVIOUS
    <3>1. w[0] = x
      BY <1>12, <2>2
    <3> QED
      BY <1>2, <1>13, <2>2, <3>1
  <2>4. i - 1 \in 0 .. n /\ ~ (i <= i - 1) /\ i \in 1 .. n
    BY <1>2, <2>2, <2>3
  <2>5. w[i - 1] \in Seq(Chars) /\ w[i - 1] \o x = x \o o[i - 1]
    BY <2>1, <2>4
  <2> HIDE DEF T
  <2>6. PICK a, b, c, d : a = w[i - 1] /\ b = o[i - 1] /\ c = P[i] /\ d = w[i]
    OBVIOUS
  <2>7. /\ a \in Seq(Chars) /\ b \in Seq(Chars) /\ c \in Seq(Chars)
        /\ a \o x = x \o b
    BY <1>4, <1>13, <2>4, <2>5, <2>6
  <2>8. d = (a \o x) \o c
    BY <1>12, <2>2, <2>3, <2>6
  <2>9. o[i] = (b \o c) \o x
    BY <1>1, <1>13, <2>4, <2>6 DEF Glue
  <2>10. d = x \o (b \o c)
    <3>1. d = (x \o b) \o c
      BY <2>7, <2>8, Zenon
    <3>2. (x \o b) \o c = x \o (b \o c)
      BY <1>2, <2>7, ConcatThree
    <3> QED
      BY <3>1, <3>2, Zenon
  <2>11. b \o c \in Seq(Chars)
    BY <2>7, ConcatProperties
  <2>12. d \in Seq(Chars)
    BY <1>2, <2>10, <2>11, ConcatProperties
  <2>13. d \o x = x \o ((b \o c) \o x)
    BY <1>2, <2>10, <2>11, ConcatThree
  <2> QED
    BY <2>2, <2>6, <2>9, <2>12, <2>13
<1>15. n \in 0 .. n
  BY <1>2
<1>16. w[n] \in Seq(Chars) /\ w[n] \o x = x \o Open(P)
  BY <1>13, <1>14, <1>15
<1>17. CASE P = <<>>
  <2>1. w[n] = x
    <3>1. n = 0
      BY <1>1, <1>17
    <3> QED
      BY <1>12, <1>15, <3>1
  <2> QED
    BY <1>1, <1>10, <1>17, <2>1
<1>18. CASE P # <<>>
  <2>1. PICK s, z : s = Str(P) /\ z = w[n]
    OBVIOUS
  <2>2. s \in Seq(Chars) /\ Open(P) = s \o x /\ z \in Seq(Chars)
    BY <1>1, <1>16, <1>18, <2>1, StrFacts, OpenIsStr
  <2>3. z \o x = (x \o s) \o x
    <3>1. (x \o s) \o x = x \o (s \o x)
      BY <1>2, <2>2, ConcatThree
    <3> QED
      BY <1>16, <2>1, <2>2, <3>1
  <2>4. x \o s \in Seq(Chars)
    BY <1>2, <2>2, ConcatProperties
  <2>5. z = x \o s
    <3>1. \A a, b, c \in Seq(Chars) : a \o c = b \o c => a = b
      BY ConcatSimplifications
    <3> QED
      BY <1>2, <2>2, <2>3, <2>4, <3>1, Zenon
  <2> QED
    BY <1>1, <1>10, <1>18, <2>1, <2>5
<1> QED
  BY <1>17, <1>18

\* With nothing mounted but the root, access() ends where stat() looks.
LEMMA AccessAgrees ==
    ASSUME PlacesOK, NEW s \in Seq(Chars), Canonical(s),
           DOMAIN mount_map \subseteq {<<>>, Slash}
    PROVE  Last(AccessPlaces(s)) = StatPlace(s)
<1>1. PICK P \in Seq(Name) : s = Str(P) /\ Split(s) = P /\ PathCollapse(P) = P
  BY CanonicalString
<1>2. P \in Seq(Component)
  BY NamesAreComponents
<1>3. IsAbsolute(s) /\ Target(s).path = P
  <2>1. IsAbsolute(s)
    BY DEF Canonical
  <2>2. Target(s) = Abs(P)
    BY <1>1, <2>1, AbsHandles DEF Target
  <2> QED
    BY <2>1, <2>2, AbsPath
<1>4. PICK n : n = Len(P) /\ n \in Nat
  OBVIOUS
<1>5. PICK u, z : /\ u = CHOOSE v : IsPrefixes(P, v)
                  /\ z = u[n]
  OBVIOUS
<1>6. z = IF P = <<>> THEN Slash ELSE Slash \o s
  BY <1>1, <1>2, <1>4, <1>5, LastPrefix
<1>7. Last(AccessPlaces(s)) = StatPlace(z)
  <2>1. AccessPlaces(s) = [k \in 1 .. n + 1 |-> StatPlace(u[k - 1])]
    <3>1. AccessPlaces(s) = Asked(P)
      BY <1>3, AccessIs
    <3> QED
      BY <1>4, <1>5, <3>1 DEF Asked
  <2>2. PICK m : m = n + 1
    OBVIOUS
  <2>3. m - 1 = n /\ m \in Nat /\ m \in 1 .. m
    BY <1>4, <2>2
  <2>4. PICK A : A = AccessPlaces(s)
    OBVIOUS
  <2>5. A = [k \in 1 .. m |-> StatPlace(u[k - 1])]
    BY <2>1, <2>2, <2>4
  <2>6. Len(A) = m
    BY <2>3, <2>5
  <2>7. A[m] = StatPlace(u[m - 1])
    BY <2>3, <2>5
  <2>8. A[m] = StatPlace(z)
    BY <1>5, <2>3, <2>7, Zenon
  <2> QED
    BY <2>4, <2>6, <2>8 DEF Last
<1>8. CASE P = <<>>
  BY <1>1, <1>6, <1>7, <1>8, RawRoot
<1>9. CASE P # <<>>
  <2>1. PICK sl : sl = Slash /\ sl \in Seq(Chars) /\ Len(sl) = 1 /\ sl[1] = "/"
    BY SlashIsString
  <2>2. /\ z \in Seq(Chars) /\ Len(z) = 1 + Len(s)
        /\ \A i \in 1 .. 1 + Len(s) : z[i] = IF i <= 1 THEN sl[i] ELSE s[i - 1]
    <3>1. Joined(z, sl, s, 1, Len(s))
      BY <1>6, <1>9, <2>1 DEF Joined
    <3> QED
      BY <3>1, ConcatIs
  <2>3. Len(s) \in Nat \ {0} /\ Len(s) # 1 /\ s[1] = "/" /\ z[1] = "/"
    <3>1. Len(s) \in Nat /\ Len(s) # 0 /\ s[1] = "/"
      BY <1>3, EmptySeq DEF IsAbsolute
    <3>2. Len(s) # 1
      <4>1. Behind(s, Str(Front(P)), Last(P))
        BY <1>1, <1>2, <1>9, ParentBehind
      <4>2. PICK t : t = Str(Front(P))
        OBVIOUS
      <4>3. t \in Seq(Chars) /\ 1 <= Len(t) /\ Len(t) < Len(s)
        BY <4>1, <4>2, BehindFacts DEF Behind
      <4> QED
        BY <3>1, <4>3
    <3>3. 1 \in 1 .. 1 + Len(s)
      BY <3>1
    <3>4. z[1] = sl[1]
      BY <2>2, <3>3
    <3> QED
      BY <2>1, <3>1, <3>2, <3>4
  <2>4. ASSUME NEW y \in {s, z}
        PROVE  Keys(y) = DOMAIN mount_map \cap {sl}
    <3>1. y \in Seq(Chars) /\ 1 <= Len(y) /\ y[1] = "/"
      BY <2>2, <2>3
    <3>2. IsPrefix(sl, y)
      BY <2>1, <3>1, PrefixElements
    <3>3. sl # <<>>
      <4>1. Len(sl) # Len(<<>>)
        BY <2>1
      <4> QED
        BY <4>1, Zenon
    <3>4. \A k \in DOMAIN mount_map : k = <<>> \/ k = sl
      BY <2>1
    <3> QED
      BY <3>2, <3>3, <3>4, Zenon DEF Keys
  <2>5. CASE Slash \notin DOMAIN mount_map
    <3>1. Keys(s) = {} /\ Keys(z) = {}
      BY <2>1, <2>4, <2>5
    <3>2. Place(s) = NULL /\ Place(z) = NULL
      BY <3>1, PlaceIs
    <3> QED
      BY <1>7, <3>2 DEF StatPlace, NodePlace
  <2>6. CASE Slash \in DOMAIN mount_map
    <3>1. Keys(s) = {sl} /\ Keys(z) = {sl}
      BY <2>1, <2>4, <2>6
    <3>2. Best(s) = sl /\ Best(z) = sl
      <4>1. Keys(s) # {} /\ Keys(z) # {}
        BY <3>1
      <4>2. Best(s) \in Keys(s) /\ Best(z) \in Keys(z)
        BY <2>2, <4>1, BestIsKey
      <4> QED
        BY <3>1, <4>2
    <3>3. s # sl /\ z # sl
      BY <2>1, <2>2, <2>3
    <3>4. Rest(s) = SubSeq(s, 2, Len(s)) /\ Rest(z) = SubSeq(z, 2, Len(z))
      <4>1. Len(sl) + 1 = 2
        BY <2>1
      <4> QED
        BY <3>2, <3>3, <4>1, Zenon DEF Rest
    <3>5. SubSeq(z, 2, Len(z)) = s
      <4>1. PICK N, M, y : N = Len(s) /\ M = Len(z) /\ y = SubSeq(z, 2, M)
        OBVIOUS
      <4>2. N \in Nat /\ M = 1 + N /\ 1 + 1 = 2 /\ 1 <= M
        BY <2>2, <2>3, <4>1
      <4>3. y \in Seq(Chars) /\ Len(y) = M - 1 /\ \A i \in 1 .. M - 1 : y[i] = z[1 + i]
        BY <2>2, <4>1, <4>2, SuffixIs
      <4>4. ASSUME NEW i \in 1 .. N PROVE y[i] = s[i]
        <5>1. PICK j : j = 1 + i
          OBVIOUS
        <5>2. j \in 1 .. 1 + Len(s) /\ ~ (j <= 1) /\ j - 1 = i /\ i \in 1 .. M - 1
          BY <4>1, <4>2, <5>1
        <5>3. z[j] = s[j - 1] /\ y[i] = z[1 + i]
          BY <2>2, <4>3, <5>2
        <5> QED
          BY <5>1, <5>2, <5>3, Zenon
      <4>5. Len(y) = Len(s)
        BY <4>1, <4>2, <4>3
      <4> QED
        BY <4>1, <4>3, <4>4, <4>5, SeqEqual
    <3>6. Split(Rest(s)) = P /\ Split(Rest(z)) = P
      BY <1>1, <1>2, <1>9, <3>4, <3>5, SplitTail
    <3>7. Place(s) = Routed(mount_map[sl], Rest(s)) /\ Place(z) = Routed(mount_map[sl], Rest(z))
      <4>1. Keys(s) # {} /\ Keys(z) # {}
        BY <3>1
      <4> QED
        BY <3>2, <4>1, PlaceIs
    <3>8. Place(s) = Place(z)
      <4>1. Split(Rest(s)) = Split(Rest(z))
        BY <3>6, Zenon
      <4> QED
        BY <3>7, <4>1 DEF Routed
    <3>9. IsAbsolute(z)
      <4>1. z # <<>>
        BY <2>2, <2>3
      <4> QED
        BY <2>3, <4>1, Zenon DEF IsAbsolute
    <3> QED
      BY <1>3, <1>7, <3>8, <3>9 DEF StatPlace, NodePlace
  <2> QED
    BY <2>5, <2>6
<1> QED
  BY <1>8, <1>9

(***************************************************************************)
(* Of a canonical path open() means the file that stat() means, although   *)
(* it looks for the mount of the parent, as long as every key the path     *)
(* starts with is one its parent starts with: no mount is rooted at the    *)
(* path, nor at a string that ends inside its last name.  access() ends at *)
(* that file too, although it asks for the path with a second slash in     *)
(* front, as long as nothing but "/" is mounted.                           *)
(***************************************************************************)
THEOREM AgreeTheorem == Spec => []CanonicalAgree
<1>1. PlacesOK => CanonicalAgree
  <2> SUFFICES ASSUME PlacesOK, NEW s \in Strings, Canonical(s)
               PROVE  /\ s # Slash /\ Keys(s) \subseteq Keys(Parent(s))
                             => OpenPlace(s) = StatPlace(s)
                      /\ DOMAIN mount_map \subseteq {<<>>, Slash}
                             => Last(AccessPlaces(s)) = StatPlace(s)
    BY DEF CanonicalAgree
  <2>1. s \in Seq(Chars)
    BY MountManagerAssumption
  <2> QED
    BY <2>1, OpenAgrees, AccessAgrees
<1> QED
  BY <1>1, PlacesInvariance, PTL

-------------------------------------------------------------------------------
(* Split() finds the maximal runs without a slash.                         *)

LEMMA OrderOf ==
    ASSUME NEW a, NEW n, Rising(a, n), NEW S, S = {a[k] : k \in 1 .. n}
    PROVE  InOrder(S) = [k \in 1 .. n |-> a[k]] /\ Cardinality(S) = n
<1>1. n \in Nat /\ \A k \in 1 .. n : a[k] \in Nat
  BY DEF Rising
<1>2. Cardinality(S) = n
  BY <1>1, CardRising
<1>3. ASSUME NEW k \in 1 .. n
      PROVE  Cardinality({j \in S : j < a[k]}) = k - 1
  <2>1. k - 1 \in 0 .. n /\ \A m \in 1 .. k - 1 : m \in 1 .. n /\ m < k
    BY <1>1
  <2>2. ASSUME NEW j \in S, j < a[k] PROVE j \in {a[m] : m \in 1 .. k - 1}
    <3>1. PICK m \in 1 .. n : j = a[m]
      OBVIOUS
    <3>2. m < k
      <4> SUFFICES ASSUME ~ (m < k) PROVE FALSE
        OBVIOUS
      <4>1. m = k \/ k < m
        BY <1>1
      <4>2. a[m] = a[k] \/ a[k] < a[m]
        BY <4>1 DEF Rising
      <4>3. PICK x, y : x = a[m] /\ y = a[k]
        OBVIOUS
      <4>4. x \in Nat /\ y \in Nat /\ x < y /\ (x = y \/ y < x)
        BY <1>1, <2>2, <3>1, <4>2, <4>3
      <4> QED
        BY <4>4
    <3>3. m \in 1 .. k - 1
      BY <1>1, <3>2
    <3> QED
      BY <3>1, <3>3
  <2>3. ASSUME NEW m \in 1 .. k - 1 PROVE a[m] \in S /\ a[m] < a[k]
    BY <2>1 DEF Rising
  <2>4. {j \in S : j < a[k]} = {a[m] : m \in 1 .. k - 1}
    BY <2>2, <2>3
  <2> QED
    BY <2>1, <2>4, CardRising
<1>4. ASSUME NEW k \in 1 .. n
      PROVE  (CHOOSE i \in S : Cardinality({j \in S : j < i}) = k - 1) = a[k]
  <2>1. a[k] \in S /\ Cardinality({j \in S : j < a[k]}) = k - 1
    BY <1>3
  <2>2. ASSUME NEW i \in S, Cardinality({j \in S : j < i}) = k - 1 PROVE i = a[k]
    <3>1. PICK m \in 1 .. n : i = a[m]
      OBVIOUS
    <3>2. Cardinality({j \in S : j < i}) = m - 1
      BY <1>3, <3>1
    <3>3. m = k
      BY <1>1, <2>2, <3>2
    <3> QED
      BY <3>1, <3>3
  <2> QED
    BY <2>1, <2>2
<1> QED
  BY <1>2, <1>4, Zenon DEF InOrder

Starts(s) == {i \in 1 .. Len(s) : s[i] # "/" /\ (i > 1 => s[i - 1] = "/")}
RunEnd(s, i) == CHOOSE j \in i .. Len(s) :
                    /\ \A k \in i .. j : s[k] # "/"
                    /\ j < Len(s) => s[j + 1] = "/"

LEMMA RunsAre ==
    ASSUME NEW s
    PROVE  Runs(s) = [k \in 1 .. Len(InOrder(Starts(s))) |->
                         SubSeq(s, InOrder(Starts(s))[k],
                                   RunEnd(s, InOrder(Starts(s))[k]))]
  BY Zenon DEF Runs, Starts, RunEnd

LEMMA RunEndIs ==
    ASSUME NEW s, NEW N \in Nat, N = Len(s), NEW i \in Nat, NEW z \in i .. N,
           \A k \in i .. z : s[k] # "/", z < N => s[z + 1] = "/"
    PROVE  RunEnd(s, i) = z
<1>1. ASSUME NEW j \in i .. N, \A m \in i .. j : s[m] # "/", j < N => s[j + 1] = "/"
      PROVE  j = z
  <2>1. ~ (j < z)
    <3> SUFFICES ASSUME j < z PROVE FALSE
      OBVIOUS
    <3>1. j + 1 \in i .. z /\ j < N
      OBVIOUS
    <3> QED
      BY <1>1, <3>1
  <2>2. ~ (z < j)
    <3> SUFFICES ASSUME z < j PROVE FALSE
      OBVIOUS
    <3>1. z + 1 \in i .. j /\ z < N
      OBVIOUS
    <3> QED
      BY <1>1, <3>1
  <2> QED
    BY <2>1, <2>2
<1>2. z \in i .. Len(s) /\ (z < Len(s) => s[z + 1] = "/")
  OBVIOUS
<1>3. \A j \in i .. Len(s) : (\A m \in i .. j : s[m] # "/")
                              /\ (j < Len(s) => s[j + 1] = "/") => j = z
  BY <1>1
<1> QED
  BY <1>2, <1>3 DEF RunEnd

StartsFrom(s, ind) == {i \in Starts(s) : i >= ind}
RunAt(s, i) == SubSeq(s, i, RunEnd(s, i))

\* v lists the runs that start in S.
ListedBy(s, S, v, n, a) == /\ Rising(a, n)
                           /\ S = {a[k] : k \in 1 .. n}
                           /\ v = [k \in 1 .. n |-> RunAt(s, a[k])]
Listed(s, S, v) == \E n, a : ListedBy(s, S, v, n, a)

LEMMA ListedNone ==
    ASSUME NEW s
    PROVE  Listed(s, {}, <<>>)
<1>1. PICK a : a = [k \in 1 .. 0 |-> 0]
  OBVIOUS
<1>2. Rising(a, 0) /\ {} = {a[k] : k \in 1 .. 0}
  BY <1>1 DEF Rising
<1>3. <<>> = [k \in 1 .. 0 |-> RunAt(s, a[k])]
  OBVIOUS
<1>4. ListedBy(s, {}, <<>>, 0, a)
  BY <1>2, <1>3 DEF ListedBy
<1> QED
  BY <1>4 DEF Listed

LEMMA ListedFirst ==
    ASSUME NEW s, NEW S, NEW v, Listed(s, S, v), NEW i \in Nat, \A j \in S : i < j
    PROVE  Listed(s, {i} \cup S, <<RunAt(s, i)>> \o v)
<1>1. PICK n, a : /\ Rising(a, n) /\ S = {a[k] : k \in 1 .. n}
                  /\ v = [k \in 1 .. n |-> RunAt(s, a[k])]
  BY DEF Listed, ListedBy
<1>2. PICK x : x = RunAt(s, i)
  OBVIOUS
<1>3. n \in Nat /\ a \in [1 .. n -> Nat]
  BY <1>1 DEF Rising
<1>4. PICK b : b = [k \in 1 .. n + 1 |-> IF k = 1 THEN i ELSE a[k - 1]]
  OBVIOUS
<1>5. ASSUME NEW k \in 2 .. n + 1 PROVE k - 1 \in 1 .. n /\ b[k] = a[k - 1]
  <2>1. k - 1 \in 1 .. n /\ k \in 1 .. n + 1 /\ k # 1
    BY <1>3
  <2> QED
    BY <1>4, <2>1
<1>6. 1 \in 1 .. n + 1 /\ b[1] = i
  BY <1>3, <1>4
<1>7. \A k \in 1 .. n + 1 : k = 1 \/ k \in 2 .. n + 1
  BY <1>3
<1>8. Rising(b, n + 1)
  <2>1. \A k \in 1 .. n + 1 : b[k] \in Nat
    <3> SUFFICES ASSUME NEW k \in 1 .. n + 1 PROVE b[k] \in Nat
      OBVIOUS
    <3>1. CASE k = 1
      BY <1>6, <3>1
    <3>2. CASE k \in 2 .. n + 1
      <4>1. b[k] = a[k - 1] /\ k - 1 \in 1 .. n
        BY <1>5, <3>2
      <4> QED
        BY <1>3, <4>1
    <3> QED
      BY <1>7, <3>1, <3>2
  <2>2. b \in [1 .. n + 1 -> Nat]
    BY <1>4, <2>1
  <2>3. ASSUME NEW j \in 1 .. n + 1, NEW k \in 1 .. n + 1, j < k PROVE b[j] < b[k]
    <3>1. k \in 2 .. n + 1
      BY <1>3, <2>3
    <3>2. b[k] = a[k - 1] /\ k - 1 \in 1 .. n
      BY <1>5, <3>1
    <3>3. CASE j = 1
      <4>1. a[k - 1] \in S
        BY <1>1, <3>2
      <4>2. i < a[k - 1]
        BY <4>1
      <4> QED
        BY <1>6, <3>2, <3>3, <4>2
    <3>4. CASE j \in 2 .. n + 1
      <4>1. b[j] = a[j - 1] /\ j - 1 \in 1 .. n
        BY <1>5, <3>4
      <4>2. j - 1 < k - 1
        BY <2>3
      <4>3. a[j - 1] < a[k - 1]
        BY <1>1, <3>2, <4>1, <4>2 DEF Rising
      <4> QED
        BY <3>2, <4>1, <4>3
    <3> QED
      BY <1>7, <3>3, <3>4
  <2>4. n + 1 \in Nat
    BY <1>3
  <2> QED
    BY <2>2, <2>3, <2>4 DEF Rising
<1>9. {i} \cup S = {b[k] : k \in 1 .. n + 1}
  <2>1. ASSUME NEW y \in S PROVE y \in {b[k] : k \in 1 .. n + 1}
    <3>1. PICK j \in 1 .. n : y = a[j]
      BY <1>1
    <3>2. PICK k : k = j + 1
      OBVIOUS
    <3>3. k \in 2 .. n + 1 /\ k \in 1 .. n + 1 /\ k - 1 = j
      BY <1>3, <3>2
    <3>4. b[k] = a[k - 1]
      BY <1>5, <3>3
    <3> QED
      BY <3>1, <3>3, <3>4
  <2>2. ASSUME NEW k \in 1 .. n + 1 PROVE b[k] \in {i} \cup S
    <3>1. CASE k = 1
      BY <1>6, <3>1
    <3>2. CASE k \in 2 .. n + 1
      <4>1. b[k] = a[k - 1] /\ k - 1 \in 1 .. n
        BY <1>5, <3>2
      <4> QED
        BY <1>1, <4>1
    <3> QED
      BY <1>7, <3>1, <3>2
  <2> QED
    BY <1>6, <2>1, <2>2
<1>10. <<x>> \o v = [k \in 1 .. n + 1 |-> RunAt(s, b[k])]
  <2>1. PICK l : l = <<x>>
    OBVIOUS
  <2>2. PICK V : V = {v[k] : k \in 1 .. n} \cup {x}
    OBVIOUS
  <2>3. v \in [1 .. n -> V] /\ \A k \in 1 .. n : v[k] = RunAt(s, a[k])
    BY <1>1, <2>2
  <2>4. v \in Seq(V) /\ Len(v) = n
    BY <1>3, <2>3
  <2>5. l \in Seq(V) /\ Len(l) = 1 /\ l[1] = x
    BY <2>1, <2>2
  <2>6. PICK u : u = l \o v
    OBVIOUS
  <2>7. /\ u \in Seq(V) /\ Len(u) = 1 + n
        /\ \A k \in 1 .. 1 + n : u[k] = IF k <= 1 THEN l[k] ELSE v[k - 1]
    <3>1. /\ l \o v \in Seq(V) /\ Len(l \o v) = Len(l) + Len(v)
          /\ \A k \in 1 .. Len(l) + Len(v) :
                 (l \o v)[k] = IF k <= Len(l) THEN l[k] ELSE v[k - Len(l)]
      BY <2>4, <2>5, ConcatProperties
    <3> QED
      BY <2>4, <2>5, <2>6, <3>1, Zenon
  <2>8. ASSUME NEW k \in 1 .. n + 1 PROVE u[k] = RunAt(s, b[k])
    <3>1. k \in 1 .. 1 + n /\ (k # 1 => ~ (k <= 1))
      BY <1>3
    <3>2. u[k] = IF k <= 1 THEN l[k] ELSE v[k - 1]
      BY <2>7, <3>1
    <3>3. CASE k = 1
      <4>1. u[k] = x
        BY <2>5, <3>2, <3>3
      <4> QED
        BY <1>2, <1>6, <3>3, <4>1
    <3>4. CASE k \in 2 .. n + 1
      <4>1. b[k] = a[k - 1] /\ k - 1 \in 1 .. n
        BY <1>5, <3>4
      <4>2. v[k - 1] = RunAt(s, a[k - 1])
        BY <2>3, <4>1
      <4>3. ~ (k <= 1)
        BY <3>4
      <4> QED
        BY <3>2, <4>1, <4>2, <4>3, Zenon
    <3> QED
      BY <1>7, <3>3, <3>4
  <2>9. u = [k \in 1 .. n + 1 |-> u[k]]
    <3>1. Len(u) = n + 1
      BY <1>3, <2>7
    <3> QED
      BY <2>7, <3>1
  <2> QED
    BY <2>1, <2>6, <2>8, <2>9
<1>11. PICK T, u : T = {i} \cup S /\ u = <<x>> \o v
  OBVIOUS
<1>12. Listed(s, T, u)
  <2>1. PICK m : m = n + 1
    OBVIOUS
  <2>2. Rising(b, m)
    BY <1>8, <2>1
  <2>3. T = {b[k] : k \in 1 .. m}
    BY <1>9, <1>11, <2>1
  <2>4. u = [k \in 1 .. m |-> RunAt(s, b[k])]
    BY <1>10, <1>11, <2>1
  <2>5. ListedBy(s, T, u, m, b)
    BY <2>2, <2>3, <2>4, Zenon DEF ListedBy
  <2> QED
    BY <2>5 DEF Listed
<1> QED
  BY <1>2, <1>11, <1>12

\* What starts behind a position where nothing has started.
LEMMA StartsNone ==
    ASSUME NEW s, NEW N \in Nat, N = Len(s), NEW ind \in Nat, ind > N
    PROVE  StartsFrom(s, ind) = {}
  BY DEF StartsFrom, Starts

LEMMA StartsRest ==
    ASSUME NEW s, NEW N \in Nat, N = Len(s), NEW ind \in 1 .. N, NEW z \in ind .. N,
           \A k \in ind .. z : s[k] # "/", z < N => s[z + 1] = "/",
           ind > 1 => s[ind - 1] = "/"
    PROVE  StartsFrom(s, ind) = {ind} \cup StartsFrom(s, z + 2)
<1>1. ASSUME NEW i \in StartsFrom(s, ind), i # ind PROVE i \in StartsFrom(s, z + 2)
  <2>1. i \in 1 .. N /\ s[i] # "/" /\ (i > 1 => s[i - 1] = "/") /\ i > ind
    BY <1>1 DEF StartsFrom, Starts
  <2>2. i > z
    <3> SUFFICES ASSUME ~ (i > z) PROVE FALSE
      OBVIOUS
    <3>1. i - 1 \in ind .. z /\ i > 1
      BY <2>1
    <3> QED
      BY <2>1, <3>1
  <2>3. i # z + 1
    <3> SUFFICES ASSUME i = z + 1 PROVE FALSE
      OBVIOUS
    <3>1. z < N
      BY <2>1
    <3> QED
      BY <2>1, <3>1
  <2>4. i >= z + 2
    BY <2>1, <2>2, <2>3
  <2> QED
    BY <2>4 DEF StartsFrom
<1>2. ASSUME NEW i \in StartsFrom(s, z + 2) PROVE i \in StartsFrom(s, ind)
  <2>1. i \in 1 .. N /\ i >= z + 2 /\ i \in Starts(s)
    BY DEF StartsFrom, Starts
  <2>2. i >= ind
    BY <2>1
  <2> QED
    BY <2>1, <2>2 DEF StartsFrom
<1>3. ind \in StartsFrom(s, ind)
  <2>1. s[ind] # "/" /\ ind \in 1 .. Len(s) /\ ind >= ind
    OBVIOUS
  <2> QED
    BY <2>1 DEF StartsFrom, Starts
<1> QED
  BY <1>1, <1>2, <1>3

LEMMA StartsSlash ==
    ASSUME NEW s, NEW N \in Nat, N = Len(s), NEW ind \in 1 .. N, s[ind] = "/"
    PROVE  StartsFrom(s, ind) = StartsFrom(s, ind + 1)
<1>1. ASSUME NEW i \in Starts(s) PROVE i >= ind <=> i >= ind + 1
  <2>1. i \in 1 .. N /\ i # ind
    BY DEF Starts
  <2> QED
    BY <2>1
<1> QED
  BY <1>1 DEF StartsFrom

\* What the loop makes of s from ind on is the list of the runs there.
Fits(s, f, ind) == (ind = 1 \/ s[ind - 1] = "/") => Listed(s, StartsFrom(s, ind), f[ind])

LEMMA FitsStep ==
    ASSUME NEW s \in Seq(Chars), NEW f, Loop(s, f), NEW ind \in 1 .. Len(s) + 1,
           \A j \in ind + 1 .. Len(s) + 1 : Fits(s, f, j)
    PROVE  Fits(s, f, ind)
<1>1. PICK N : N = Len(s) /\ N \in Nat
  OBVIOUS
<1>2. SUFFICES ASSUME ind = 1 \/ s[ind - 1] = "/"
               PROVE  Listed(s, StartsFrom(s, ind), f[ind])
  BY DEF Fits
<1>3. f[ind] = FromStep(s, ind, f)
  BY DEF Loop
<1>4. CASE ind > N
  <2>1. f[ind] = <<>>
    BY <1>1, <1>3, <1>4 DEF FromStep
  <2>2. StartsFrom(s, ind) = {}
    BY <1>1, <1>4, StartsNone
  <2> QED
    BY <2>1, <2>2, ListedNone
<1>5. CASE ind <= N /\ Slashes(s, ind) = {}
  <2>1. ind \in 1 .. N /\ N \in ind .. N /\ ~ (N < N)
    BY <1>1, <1>5
  <2>2. f[ind] = <<SubSeq(s, ind, N)>>
    BY <1>1, <1>3, <1>5 DEF FromStep
  <2>3. \A k \in ind .. N : s[k] # "/"
    BY <1>1, <1>5 DEF Slashes
  <2>4. RunEnd(s, ind) = N
    BY <1>1, <2>1, <2>3, RunEndIs
  <2>5. StartsFrom(s, ind) = {ind} \cup StartsFrom(s, N + 2)
    BY <1>1, <1>2, <2>1, <2>3, StartsRest
  <2>6. StartsFrom(s, N + 2) = {}
    <3>1. PICK i : i = N + 2 /\ i \in Nat /\ i > N
      BY <1>1
    <3> QED
      BY <1>1, <3>1, StartsNone
  <2>7. Listed(s, {ind} \cup {}, <<RunAt(s, ind)>> \o <<>>)
    <3>1. PICK E : E = {}
      OBVIOUS
    <3>2. Listed(s, E, <<>>) /\ ind \in Nat /\ \A j \in E : ind < j
      BY <2>1, <3>1, ListedNone
    <3>3. Listed(s, {ind} \cup E, <<RunAt(s, ind)>> \o <<>>)
      BY <3>2, ListedFirst
    <3> QED
      BY <3>1, <3>3
  <2>8. PICK x : x = RunAt(s, ind)
    OBVIOUS
  <2>9. <<x>> \o <<>> = <<x>>
    <3>1. <<x>> \in Seq({x})
      OBVIOUS
    <3> QED
      BY <3>1, ConcatEmptySeq
  <2>10. x = SubSeq(s, ind, N)
    BY <2>4, <2>8 DEF RunAt
  <2> QED
    BY <2>2, <2>5, <2>6, <2>7, <2>8, <2>9, <2>10, Zenon
<1>6. CASE ind <= N /\ Slashes(s, ind) # {}
  <2>1. PICK m : m = Min(Slashes(s, ind))
    OBVIOUS
  <2>2. m \in ind .. N /\ s[m] = "/" /\ \A j \in ind .. m - 1 : s[j] # "/"
    <3>1. ind \in Nat \ {0}
      BY <1>1
    <3> QED
      BY <1>1, <1>6, <2>1, <3>1, FirstSlash
  <2>3. ind \in 1 .. N /\ m \in 1 .. N /\ m + 1 \in ind + 1 .. Len(s) + 1
        /\ m + 1 - 1 = m /\ m + 1 \in Nat
    BY <1>1, <1>6, <2>2
  <2>4. Listed(s, StartsFrom(s, m + 1), f[m + 1])
    BY <2>2, <2>3 DEF Fits
  <2>5. CASE m = ind
    <3>1. f[ind] = f[ind + 1]
      BY <1>1, <1>3, <1>6, <2>1, <2>5 DEF FromStep
    <3>2. StartsFrom(s, ind) = StartsFrom(s, ind + 1)
      BY <1>1, <2>2, <2>3, <2>5, StartsSlash
    <3> QED
      BY <2>4, <2>5, <3>1, <3>2
  <2>6. CASE m # ind
    <3>1. f[ind] = <<SubSeq(s, ind, m - 1)>> \o f[m + 1]
      BY <1>1, <1>3, <1>6, <2>1, <2>6 DEF FromStep
    <3>2. PICK z : z = m - 1
      OBVIOUS
    <3>3. z \in ind .. N /\ z + 1 = m /\ z + 2 = m + 1
      BY <1>1, <2>2, <2>6, <3>2
    <3>4. (\A k \in ind .. z : s[k] # "/") /\ s[z + 1] = "/"
      BY <2>2, <3>2, <3>3
    <3>5. RunEnd(s, ind) = z
      <4>1. ind \in Nat
        BY <2>3
      <4> QED
        BY <1>1, <3>3, <3>4, <4>1, RunEndIs
    <3>6. StartsFrom(s, ind) = {ind} \cup StartsFrom(s, m + 1)
      <4>1. ind > 1 => s[ind - 1] = "/"
        BY <1>2
      <4>2. StartsFrom(s, ind) = {ind} \cup StartsFrom(s, z + 2)
        BY <1>1, <2>3, <3>3, <3>4, <4>1, StartsRest
      <4> QED
        BY <3>3, <4>2
    <3>7. Listed(s, {ind} \cup StartsFrom(s, m + 1), <<RunAt(s, ind)>> \o f[m + 1])
      <4>1. PICK S, v : S = StartsFrom(s, m + 1) /\ v = f[m + 1]
        OBVIOUS
      <4>2. \A j \in S : ind < j
        <5> SUFFICES ASSUME NEW j \in S PROVE ind < j
          OBVIOUS
        <5>1. j >= m + 1 /\ j \in 1 .. N
          BY <1>1, <4>1 DEF StartsFrom, Starts
        <5> QED
          BY <2>2, <2>3, <5>1
      <4>3. ind \in Nat
        BY <2>3
      <4>4. Listed(s, S, v)
        BY <2>4, <4>1
      <4>5. Listed(s, {ind} \cup S, <<RunAt(s, ind)>> \o v)
        BY <4>2, <4>3, <4>4, ListedFirst
      <4> QED
        BY <4>1, <4>5
    <3>8. RunAt(s, ind) = SubSeq(s, ind, m - 1)
      BY <3>2, <3>5 DEF RunAt
    <3> QED
      BY <3>1, <3>6, <3>7, <3>8
  <2> QED
    BY <2>5, <2>6
<1> QED
  BY <1>1, <1>4, <1>5, <1>6

LEMMA SplitIsRuns ==
    ASSUME NEW s \in Seq(Chars)
    PROVE  Split(s) = Runs(s)
<1>1. PICK f : Loop(s, f)
  BY LoopOf
<1>2. PICK n : n = Len(s) + 1 /\ n \in Nat \ {0}
  OBVIOUS
<1> DEFINE T == {m \in 0 .. n - 1 : ~ Fits(s, f, n - m)}
<1>3. T = {}
  <2> SUFFICES ASSUME T # {} PROVE FALSE
    OBVIOUS
  <2>1. PICK m \in T : \A y \in T : m <= y
    <3>1. T \in SUBSET Nat
      BY <1>2
    <3> HIDE DEF T
    <3> QED
      BY <3>1, LeastExists
  <2>2. m \in 0 .. n - 1 /\ ~ Fits(s, f, n - m)
    BY <2>1
  <2>3. \A y \in 0 .. n - 1 : y < m => Fits(s, f, n - y)
    BY <2>1, <2>2
  <2> HIDE DEF T
  <2>4. PICK ind : ind = n - m
    OBVIOUS
  <2>5. ind \in 1 .. Len(s) + 1
    BY <1>2, <2>2, <2>4
  <2>6. \A j \in ind + 1 .. Len(s) + 1 : Fits(s, f, j)
    <3> SUFFICES ASSUME NEW j \in ind + 1 .. Len(s) + 1 PROVE Fits(s, f, j)
      OBVIOUS
    <3>1. PICK y : y = n - j
      OBVIOUS
    <3>2. y \in 0 .. n - 1 /\ y < m /\ n - y = j
      BY <1>2, <2>2, <2>4, <3>1
    <3> QED
      BY <2>3, <3>2
  <2>7. Fits(s, f, ind)
    BY <1>1, <2>5, <2>6, FitsStep
  <2> QED
    BY <2>2, <2>4, <2>7
<1>4. n - 1 \in 0 .. n - 1 /\ n - (n - 1) = 1
  BY <1>2
<1>5. Fits(s, f, 1)
  <2>1. Fits(s, f, n - (n - 1))
    BY <1>3, <1>4
  <2> QED
    BY <1>4, <2>1
<1>6. PICK S : S = Starts(s)
  OBVIOUS
<1>7. StartsFrom(s, 1) = S
  <2>1. \A i \in Starts(s) : i >= 1
    BY DEF Starts
  <2> QED
    BY <1>6, <2>1 DEF StartsFrom
<1>8. Listed(s, S, f[1])
  BY <1>5, <1>7 DEF Fits
<1>9. PICK k, a : /\ Rising(a, k) /\ S = {a[i] : i \in 1 .. k}
                  /\ f[1] = [i \in 1 .. k |-> RunAt(s, a[i])]
  BY <1>8 DEF Listed, ListedBy
<1>10. PICK o : o = InOrder(S)
  OBVIOUS
<1>11. o = [i \in 1 .. k |-> a[i]]
  <2>1. k \in Nat /\ Rising(a, k)
    BY <1>9 DEF Rising
  <2>2. InOrder({a[i] : i \in 1 .. k}) = [i \in 1 .. k |-> a[i]]
    BY <2>1, OrderOf
  <2> QED
    BY <1>9, <1>10, <2>2
<1>12. Len(o) = k /\ \A i \in 1 .. k : o[i] = a[i]
  <2>1. k \in Nat
    BY <1>9 DEF Rising
  <2> QED
    BY <1>11, <2>1
<1>13. Runs(s) = [i \in 1 .. Len(o) |-> SubSeq(s, o[i], RunEnd(s, o[i]))]
  BY <1>6, <1>10, RunsAre
<1>14. Runs(s) = [i \in 1 .. k |-> RunAt(s, a[i])]
  BY <1>12, <1>13 DEF RunAt
<1> QED
  BY <1>1, <1>9, <1>14 DEF Loop

LEMMA RunsStr ==
    ASSUME NEW P \in Seq(Component)
    PROVE  Runs(Str(P)) = P
<1>1. Str(P) \in Seq(Chars) /\ Split(Str(P)) = P
  BY StrFacts
<1> QED
  BY <1>1, SplitIsRuns

-------------------------------------------------------------------------------
(* The positions of the components of a path in its string.               *)

\* Where the components of a spelled string begin and end.
Spelling(s, P, n, e) ==
    /\ n = Len(P) /\ n \in Nat \ {0}
    /\ s \in Seq(Chars) /\ Len(s) = e[n] - 1
    /\ e \in [0 .. n -> Nat] /\ e[0] = 1 /\ s[1] = "/"
    /\ \A k \in 1 .. n : /\ P[k] \in Seq(Chars) /\ Len(P[k]) \in Nat \ {0}
                         /\ e[k] = e[k - 1] + Len(P[k]) + 1
                         /\ \A i \in 1 .. Len(P[k]) : P[k][i] # "/"
                         /\ \A i \in 1 .. Len(P[k]) : s[e[k - 1] + i] = P[k][i]
                         /\ s[e[k - 1]] = "/"
                         /\ e[k - 1] < e[k]
    /\ \A j, k \in 0 .. n : j < k => e[j] < e[k]

LEMMA SpellingOf ==
    ASSUME NEW s, NEW P, NEW e, Spells(s, P, 1, e)
    PROVE  Spelling(s, P, Len(P), e)
<1>1. PICK n : n = Len(P)
  OBVIOUS
<1>2. /\ n \in Nat \ {0} /\ s \in Seq(Chars) /\ Len(s) = e[n] - 1
      /\ e \in [0 .. n -> Nat] /\ e[0] = 1 /\ P \in Seq(Component)
      /\ \A k \in 1 .. n : e[k] = e[k - 1] + Len(P[k]) + 1
      /\ \A k \in 1 .. n : \A i \in 1 .. Len(P[k]) : s[e[k - 1] + i] = P[k][i]
      /\ \A k \in 1 .. n - 1 : s[e[k]] = "/"
      /\ s[1] = "/"
  BY <1>1, EmptySeq DEF Spells
<1>3. ASSUME NEW k \in 1 .. n
      PROVE  /\ P[k] \in Seq(Chars) /\ Len(P[k]) \in Nat \ {0}
             /\ \A i \in 1 .. Len(P[k]) : P[k][i] # "/"
             /\ e[k - 1] < e[k]
             /\ s[e[k - 1]] = "/"
  <2>1. PICK c : c = P[k] /\ c \in Component
    BY <1>1, <1>2, ElementOfSeq
  <2>2. c \in Seq(Chars) /\ Len(c) \in Nat \ {0} /\ \A i \in 1 .. Len(c) : c[i] # "/"
    BY <2>1, EmptySeq DEF Component
  <2>3. k \in 0 .. n /\ k - 1 \in 0 .. n
    BY <1>2
  <2>4. e[k - 1] < e[k]
    <3>1. PICK x, y, L : x = e[k - 1] /\ y = e[k] /\ L = Len(c)
      OBVIOUS
    <3>2. x \in Nat /\ L \in Nat /\ y = x + L + 1
      BY <1>2, <2>1, <2>2, <2>3, <3>1
    <3> QED
      BY <3>1, <3>2
  <2>5. s[e[k - 1]] = "/"
    <3>1. CASE k = 1
      <4>1. k - 1 = 0
        BY <3>1
      <4> QED
        BY <1>2, <4>1, Zenon
    <3>2. CASE k # 1
      <4>1. k - 1 \in 1 .. n - 1
        BY <1>2, <3>2
      <4> QED
        BY <1>2, <4>1
    <3> QED
      BY <3>1, <3>2
  <2> QED
    BY <2>1, <2>2, <2>4, <2>5
<1>4. \A j, k \in 0 .. n : j < k => e[j] < e[k]
  <2>1. \A k \in 1 .. n : e[k - 1] < e[k]
    BY <1>3
  <2>2. n \in Nat /\ e \in [0 .. n -> Nat]
    BY <1>2
  <2> QED
    BY <2>1, <2>2, Increasing
<1>5. Spelling(s, P, n, e)
  BY <1>1, <1>2, <1>3, <1>4 DEF Spelling
<1> QED
  BY <1>1, <1>5

\* Component k fills the positions between its ends.
Filled(s, P, e, k) ==
    /\ e[k - 1] \in Nat /\ e[k - 1] >= 1 /\ e[k] \in Nat
    /\ e[k - 1] + 2 <= e[k] /\ e[k] <= Len(s) + 1 /\ Len(s) \in Nat
    /\ Len(P[k]) = e[k] - e[k - 1] - 1
    /\ \A i \in e[k - 1] + 1 .. e[k] - 1 : s[i] # "/" /\ s[i] = P[k][i - e[k - 1]]
    /\ s[e[k - 1]] = "/"
    /\ e[k] <= Len(s) => s[e[k]] = "/"

LEMMA Inside ==
    ASSUME NEW s, NEW P, NEW n, NEW e, Spelling(s, P, n, e), NEW k \in 1 .. n
    PROVE  Filled(s, P, e, k)
<1>1. PICK x, y, L, N : x = e[k - 1] /\ y = e[k] /\ L = Len(P[k]) /\ N = Len(s)
  OBVIOUS
<1>2. n \in Nat \ {0} /\ N \in Nat /\ N = e[n] - 1
  BY <1>1 DEF Spelling
<1>3. k \in 0 .. n /\ k - 1 \in 0 .. n /\ n \in 0 .. n /\ 0 \in 0 .. n
  BY <1>2
<1>4. x \in Nat /\ y \in Nat /\ L \in Nat \ {0} /\ y = x + L + 1
  BY <1>1, <1>3 DEF Spelling
<1>5. x >= 1
  <2>1. CASE k = 1
    <3>1. k - 1 = 0
      BY <2>1
    <3>2. x = 1
      BY <1>1, <3>1 DEF Spelling
    <3> QED
      BY <3>2
  <2>2. CASE k # 1
    <3>1. 0 < k - 1
      BY <2>2
    <3>2. e[0] < e[k - 1] /\ e[0] = 1
      BY <1>3, <3>1 DEF Spelling
    <3> QED
      BY <1>1, <1>4, <3>2
  <2> QED
    BY <2>1, <2>2
<1>6. y <= N + 1
  <2>1. PICK z : z = e[n] /\ z \in Nat /\ N = z - 1
    BY <1>2, <1>3 DEF Spelling
  <2>2. CASE k = n
    <3>1. y = z
      BY <1>1, <2>1, <2>2, Zenon
    <3> QED
      BY <1>4, <2>1, <3>1
  <2>3. CASE k # n
    <3>1. k < n
      BY <1>2, <2>3
    <3>2. e[k] < e[n]
      BY <1>3, <3>1 DEF Spelling
    <3> QED
      BY <1>1, <1>4, <2>1, <3>2
  <2> QED
    BY <2>2, <2>3
<1>7. \A i \in x + 1 .. y - 1 : s[i] # "/" /\ s[i] = P[k][i - x]
  <2> SUFFICES ASSUME NEW i \in x + 1 .. y - 1 PROVE s[i] # "/" /\ s[i] = P[k][i - x]
    OBVIOUS
  <2>1. PICK j : j = i - x
    OBVIOUS
  <2>2. j \in 1 .. L /\ x + j = i
    BY <1>4, <2>1
  <2>3. s[x + j] = P[k][j] /\ P[k][j] # "/"
    BY <1>1, <2>2 DEF Spelling
  <2> QED
    BY <2>1, <2>2, <2>3, Zenon
<1>8. s[x] = "/"
  BY <1>1 DEF Spelling
<1>9. y <= N => s[y] = "/"
  <2> SUFFICES ASSUME y <= N PROVE s[y] = "/"
    OBVIOUS
  <2>1. k # n
    <3> SUFFICES ASSUME k = n PROVE FALSE
      OBVIOUS
    <3>1. N = y - 1
      BY <1>1, <1>2
    <3> QED
      BY <1>2, <1>4, <3>1
  <2>2. PICK j : j = k + 1
    OBVIOUS
  <2>3. j \in 1 .. n /\ j - 1 = k
    BY <1>2, <2>1, <2>2
  <2>4. s[e[j - 1]] = "/"
    BY <2>3 DEF Spelling
  <2> QED
    BY <1>1, <2>3, <2>4, Zenon
<1>10. x + 2 <= y /\ L = y - x - 1
  BY <1>4
<1> QED
  BY <1>1, <1>2, <1>4, <1>5, <1>6, <1>7, <1>8, <1>9, <1>10 DEF Filled

-------------------------------------------------------------------------------
(* The string of a path put together from two.                             *)

\* The string of one component.
LEMMA StrOne ==
    ASSUME NEW c \in Component
    PROVE  Str(<<c>>) = Slash \o c
<1>1. PICK P : P = <<>>
  OBVIOUS
<1>2. P \in Seq(Component) /\ Append(P, c) = <<c>>
  BY <1>1
<1>3. Str(Append(P, c)) = Open(P) \o c
  BY <1>2, StrAppend
<1> QED
  BY <1>1, <1>2, <1>3, OpenRoot

\* A component put behind a string and a slash.
LEMMA StrBehind ==
    ASSUME NEW P \in Seq(Component), P # <<>>, NEW c \in Component
    PROVE  Str(Append(P, c)) = Str(P) \o (Slash \o c)
<1>1. PICK x : x = Str(P)
  OBVIOUS
<1>2. x \in Seq(Chars) /\ Slash \in Seq(Chars) /\ c \in Seq(Chars)
  BY <1>1, StrFacts, SlashIsString DEF Component
<1>3. Str(Append(P, c)) = (x \o Slash) \o c
  BY <1>1, StrAppend, OpenIsStr
<1> QED
  BY <1>1, <1>2, <1>3, ConcatThree

LEMMA ConcatAppend ==
    ASSUME NEW K \in Seq(Component), NEW C \in Seq(Component), NEW c \in Component
    PROVE  K \o Append(C, c) = Append(K \o C, c)
<1>1. PICK l : l = <<c>>
  OBVIOUS
<1>2. l \in Seq(Component) /\ Append(C, c) = C \o l
  BY <1>1, AppendIsConcat
<1>3. PICK B : B = K \o C
  OBVIOUS
<1>4. B \in Seq(Component)
  BY <1>3, ConcatProperties
<1>5. Append(B, c) = B \o l
  BY <1>1, <1>4, AppendIsConcat
<1>6. (K \o C) \o l = K \o (C \o l)
  BY <1>2, ConcatAssociative
<1> QED
  BY <1>2, <1>3, <1>5, <1>6

LEMMA StrConcat ==
    ASSUME NEW K \in Seq(Component), K # <<>>, NEW M \in Seq(Component), M # <<>>
    PROVE  Str(K \o M) = Str(K) \o Str(M)
<1> DEFINE Parted(m) == \A C \in Seq(Component) :
                            C # <<>> /\ Len(C) = m => Str(K \o C) = Str(K) \o Str(C)
           T == {m \in Nat : ~ Parted(m)}
<1>1. T = {}
  <2> SUFFICES ASSUME T # {} PROVE FALSE
    OBVIOUS
  <2>1. PICK m \in T : \A y \in T : m <= y
    <3>1. T \in SUBSET Nat
      OBVIOUS
    <3> HIDE DEF T
    <3> QED
      BY <3>1, LeastExists
  <2>2. PICK C \in Seq(Component) :
            C # <<>> /\ Len(C) = m /\ Str(K \o C) # Str(K) \o Str(C)
    BY <2>1
  <2>3. PICK B, c : B = Front(C) /\ c = Last(C)
    OBVIOUS
  <2>4. B \in Seq(Component) /\ c \in Component /\ C = Append(B, c)
    BY <2>2, <2>3, LastFront
  <2>5. Len(B) = m - 1 /\ Len(B) \in Nat /\ m \in Nat
    BY <2>1, <2>2, <2>3, FrontFacts
  <2>6. B # <<>> => Parted(Len(B))
    <3>1. Len(B) \notin T
      BY <2>1, <2>5
    <3> QED
      BY <2>5, <3>1
  <2>7. PICK x, y : x = Str(K) /\ y = Slash \o c
    OBVIOUS
  <2>8. x \in Seq(Chars) /\ y \in Seq(Chars)
    <3>1. c \in Seq(Chars) /\ Slash \in Seq(Chars)
      BY <2>4, SlashIsString DEF Component
    <3>2. Slash \o c \in Seq(Chars)
      BY <3>1, ConcatProperties
    <3> QED
      BY <2>7, <3>2, StrFacts
  <2>9. PICK A : A = K \o B
    OBVIOUS
  <2>10. A \in Seq(Component) /\ A # <<>> /\ K \o C = Append(A, c)
    <3>1. A \in Seq(Component) /\ Len(A) = Len(K) + Len(B) /\ Len(K) \in Nat \ {0}
      <4>1. Len(K) \in Nat \ {0}
        BY EmptySeq
      <4>2. K \o B \in Seq(Component) /\ Len(K \o B) = Len(K) + Len(B)
        BY <2>4, ConcatProperties
      <4> QED
        BY <2>9, <4>1, <4>2, Zenon
    <3>2. Len(A) # 0
      BY <2>5, <3>1
    <3>3. A # <<>>
      BY <3>2, EmptySeq
    <3>4. K \o Append(B, c) = Append(K \o B, c)
      <4>1. B \in Seq(Component) /\ c \in Component
        BY <2>4
      <4> QED
        BY <4>1, ConcatAppend
    <3>5. K \o C = Append(A, c)
      BY <2>4, <2>9, <3>4, Zenon
    <3> QED
      BY <3>1, <3>3, <3>5, Zenon
  <2>11. Str(K \o C) = Str(A) \o y
    BY <2>4, <2>7, <2>10, StrBehind
  <2>12. CASE B = <<>>
    <3>1. A = K
      BY <2>9, <2>12, ConcatEmptySeq
    <3>2. C = <<c>>
      BY <2>4, <2>12
    <3>3. Str(C) = y
      BY <2>4, <2>7, <3>2, StrOne
    <3> QED
      BY <2>2, <2>11, <3>1, <3>3
  <2>13. CASE B # <<>>
    <3>1. PICK z : z = Str(B)
      OBVIOUS
    <3>2. z \in Seq(Chars) /\ Str(A) = x \o z
      BY <2>4, <2>6, <2>7, <2>9, <2>13, <3>1, StrFacts
    <3>3. Str(C) = z \o y
      BY <2>4, <2>7, <2>13, <3>1, StrBehind
    <3>4. (x \o z) \o y = x \o (z \o y)
      BY <2>8, <3>2, ConcatThree
    <3> QED
      BY <2>2, <2>7, <2>11, <3>2, <3>3, <3>4
  <2> QED
    BY <2>12, <2>13
<1>2. Len(M) \in Nat
  OBVIOUS
<1>3. Parted(Len(M))
  BY <1>1, <1>2
<1> QED
  BY <1>3

\* A sequence cut in two.
Cut(P, n, j, K, M) == /\ n = Len(P) /\ j \in 0 .. n
                      /\ K = SubSeq(P, 1, j) /\ M = SubSeq(P, j + 1, n)
Alike(K, P, j, n) == j <= n /\ \A i \in 1 .. j : K[i] = P[i]

LEMMA CutAt ==
    ASSUME NEW V, NEW P \in Seq(V), NEW n, NEW j, NEW K, NEW M, Cut(P, n, j, K, M)
    PROVE  /\ K \in Seq(V) /\ M \in Seq(V) /\ P = K \o M
           /\ Len(K) = j /\ Len(M) = n - j /\ Alike(K, P, j, n)
<1>1. /\ n = Len(P) /\ n \in Nat /\ j \in 0 .. n
      /\ K = SubSeq(P, 1, j) /\ M = SubSeq(P, j + 1, n)
  BY DEF Cut
<1>2. \A i \in 1 .. n : P[i] \in V
  BY <1>1, ElementOfSeq
<1>3. (\A i \in 1 .. j : P[i] \in V) /\ (\A i \in j + 1 .. n : P[i] \in V)
  BY <1>1, <1>2
<1>4. K \in Seq(V) /\ Len(K) = j /\ \A i \in 1 .. j : K[i] = P[i]
  <2>1. K \in Seq(V)
    BY <1>1, <1>3, SubSeqProperties
  <2> QED
    BY <1>1, <2>1
<1>5. M \in Seq(V) /\ Len(M) = n - j
  <2>1. M \in Seq(V)
    BY <1>1, <1>3, SubSeqProperties
  <2> QED
    BY <1>1, <2>1
<1>6. SubSeq(P, 1, j) \o SubSeq(P, j + 1, n) = SubSeq(P, 1, n)
  <2>1. 1 \in 1 .. Len(P) + 1 /\ j \in 1 - 1 .. Len(P) /\ n \in j .. Len(P)
    BY <1>1
  <2> QED
    BY <2>1, ConcatAdjacentSubSeq
<1>7. SubSeq(P, 1, n) = P
  BY <1>1, SubSeqFull
<1>8. Alike(K, P, j, n)
  BY <1>1, <1>4 DEF Alike
<1> QED
  BY <1>1, <1>4, <1>5, <1>6, <1>7, <1>8

\* A path that starts with another is that one and more.
LEMMA PrefixCut ==
    ASSUME NEW V, NEW K \in Seq(V), NEW P \in Seq(V), IsPrefix(K, P)
    PROVE  \E M \in Seq(V) : P = K \o M
<1>1. PICK j : j = Len(K)
  OBVIOUS
<1>2. j \in 0 .. Len(P) /\ SubSeq(K, 1, j) = SubSeq(P, 1, j)
  BY <1>1 DEF IsPrefix
<1>3. K = SubSeq(P, 1, j)
  BY <1>1, <1>2, SubSeqFull
<1>4. PICK M : M = SubSeq(P, j + 1, Len(P))
  OBVIOUS
<1>5. M \in Seq(V) /\ P = K \o M
  <2>1. PICK n : n = Len(P)
    OBVIOUS
  <2>2. Cut(P, n, j, K, M)
    BY <1>2, <1>3, <1>4, <2>1 DEF Cut
  <2> QED
    BY <2>2, CutAt
<1> QED
  BY <1>5

LEMMA ConcatPrefix ==
    ASSUME NEW V, NEW K \in Seq(V), NEW M \in Seq(V), NEW P, P = K \o M
    PROVE  IsPrefix(K, P) /\ Len(P) = Len(K) + Len(M)
<1>1. PICK j : j = Len(K) /\ j \in Nat
  OBVIOUS
<1>2. P \in Seq(V) /\ Len(P) = j + Len(M) /\ Len(M) \in Nat
  BY <1>1, ConcatProperties
<1>3. SubSeq(K, 1, j) = K
  BY <1>1, SubSeqFull
<1>4. SubSeq(P, 1, j) = K
  <2>1. CASE j = 0
    <3>1. SubSeq(P, 1, j) = <<>>
      BY <2>1, SubSeqEmpty
    <3>2. K = <<>>
      BY <1>1, <2>1, EmptySeq
    <3> QED
      BY <3>1, <3>2
  <2>2. CASE j # 0
    <3>1. 1 \in 1 .. j /\ j \in 1 .. j
      BY <1>1, <2>2
    <3>2. SubSeq(K \o M, 1, j) = SubSeq(K, 1, j)
      BY <1>1, <3>1, SubSeqOfConcat1
    <3> QED
      BY <1>3, <3>2
  <2> QED
    BY <2>1, <2>2
<1>5. j <= Len(P)
  BY <1>1, <1>2
<1> QED
  BY <1>1, <1>2, <1>3, <1>4, <1>5 DEF IsPrefix

-------------------------------------------------------------------------------
(* The mounts around a path are the keys its string starts with.           *)

\* Paths that start alike end their components at the same positions.
LEMMA SameEnds ==
    ASSUME NEW s, NEW P, NEW n, NEW e, Spelling(s, P, n, e),
           NEW t, NEW K, NEW j, NEW d, Spelling(t, K, j, d),
           Alike(K, P, j, n)
    PROVE  d[j] = e[j]
<1> DEFINE T == {m \in 0 .. j : d[m] # e[m]}
<1>1. n \in Nat /\ j \in Nat /\ j <= n
  BY DEF Spelling, Alike
<1>2. T = {}
  <2> SUFFICES ASSUME T # {} PROVE FALSE
    OBVIOUS
  <2>1. PICK m \in T : \A y \in T : m <= y
    <3>1. T \in SUBSET Nat
      OBVIOUS
    <3> HIDE DEF T
    <3> QED
      BY <3>1, LeastExists
  <2>2. m \in 0 .. j /\ d[m] # e[m]
    BY <2>1
  <2>3. m # 0
    <3>1. d[0] = e[0]
      BY DEF Spelling
    <3> QED
      BY <2>2, <3>1, Zenon
  <2>4. PICK i : i = m - 1
    OBVIOUS
  <2>5. i \in 0 .. j /\ ~ (m <= i) /\ m \in 1 .. j /\ m \in 1 .. n
    BY <1>1, <2>2, <2>3, <2>4
  <2>6. d[i] = e[i]
    BY <2>1, <2>5
  <2>7. d[m] = d[i] + Len(K[m]) + 1 /\ e[m] = e[i] + Len(P[m]) + 1
    BY <2>4, <2>5 DEF Spelling
  <2>8. K[m] = P[m]
    BY <2>5 DEF Alike
  <2> QED
    BY <2>2, <2>6, <2>7, <2>8, Zenon
<1>3. j \in 0 .. j
  BY <1>1
<1> QED
  BY <1>2, <1>3

\* The string of a path that is not empty has a character behind its slash.
LEMMA StrLong ==
    ASSUME NEW P \in Seq(Component), P # <<>>
    PROVE  Len(Str(P)) >= 2 /\ Str(P)[1] = "/"
<1>1. PICK s, n : s = Str(P) /\ n = Len(P)
  OBVIOUS
<1>2. PICK e : Spelling(s, P, n, e)
  BY <1>1, RawSpells, SpellingOf
<1>3. n \in Nat \ {0} /\ e[0] = 1 /\ s[1] = "/"
  BY <1>2 DEF Spelling
<1>4. 1 \in 1 .. n /\ 1 - 1 = 0
  BY <1>3
<1>5. Filled(s, P, e, 1)
  BY <1>2, <1>4, Inside
<1>6. e[0] + 2 <= e[1] /\ e[1] <= Len(s) + 1 /\ e[1] \in Nat /\ Len(s) \in Nat
  BY <1>4, <1>5 DEF Filled
<1>7. Len(s) >= 2
  BY <1>3, <1>6
<1> QED
  BY <1>1, <1>3, <1>7

\* A path starts with the string of each one around it, and goes on with a
\* string of what is left.
LEMMA StrPrefix ==
    ASSUME NEW K \in Seq(Component), NEW M \in Seq(Component), M # <<>>,
           NEW k, k = Str(K), NEW s, s = Str(K \o M)
    PROVE  /\ IsPrefix(k, s) /\ Len(k) < Len(s) /\ Len(k) \in Nat /\ Len(s) \in Nat
           /\ Split(SubSeq(s, Len(k) + 1, Len(s))) = M
<1>1. CASE K = <<>>
  <2>1. s = Str(M) /\ k = Slash
    BY <1>1, RawRoot, ConcatEmptySeq
  <2>2. s \in Seq(Chars) /\ Len(s) \in Nat /\ Len(s) >= 2 /\ s[1] = "/"
    BY <2>1, StrFacts, StrLong
  <2>3. k \in Seq(Chars) /\ Len(k) = 1 /\ k[1] = "/"
    BY <2>1, SlashIsString
  <2>4. IsPrefix(k, s)
    BY <2>2, <2>3, PrefixElements
  <2>5. Split(SubSeq(s, 2, Len(s))) = M
    BY <2>1, SplitTail
  <2>6. Len(k) + 1 = 2
    BY <2>3
  <2> QED
    BY <2>2, <2>3, <2>4, <2>5, <2>6
<1>2. CASE K # <<>>
  <2>1. PICK u : u = Str(M)
    OBVIOUS
  <2>2. k \in Seq(Chars) /\ u \in Seq(Chars) /\ s = k \o u
    BY <1>2, <2>1, StrFacts, StrConcat
  <2>3. IsPrefix(k, s) /\ Len(s) = Len(k) + Len(u)
    BY <2>2, ConcatPrefix
  <2>4. Len(k) \in Nat /\ Len(u) \in Nat /\ Len(u) >= 2
    BY <2>1, <2>2, StrLong
  <2>5. PICK x, N, L, z : x = Len(k) /\ N = Len(s) /\ L = Len(u) /\ z = SubSeq(s, x + 1, N)
    OBVIOUS
  <2>6. x \in Nat /\ L \in Nat /\ L >= 2 /\ N = x + L
    BY <2>3, <2>4, <2>5
  <2>7. z = u
    <3>1. x + 1 \in x + 1 .. x + L /\ N \in x + 1 .. x + L
      BY <2>6
    <3>2. SubSeq(k \o u, x + 1, N) = SubSeq(u, x + 1 - x, N - x)
      BY <2>2, <2>5, <3>1, SubSeqOfConcat2
    <3>3. x + 1 - x = 1 /\ N - x = L
      BY <2>6
    <3>4. SubSeq(u, 1, L) = u
      BY <2>2, <2>5, SubSeqFull
    <3> QED
      BY <2>2, <2>5, <3>2, <3>3, <3>4, Zenon
  <2>8. Split(u) = M
    BY <2>1, StrFacts
  <2>9. x < N /\ N \in Nat
    BY <2>6
  <2> QED
    BY <2>3, <2>5, <2>6, <2>7, <2>8, <2>9, Zenon
<1> QED
  BY <1>1, <1>2

\* What FormulateRawPath() writes for names is canonical.
LEMMA StrCanonical ==
    ASSUME NEW K \in Seq(Name)
    PROVE  Canonical(Str(K)) /\ Runs(Str(K)) = K
<1>1. K \in Seq(Component)
  BY NamesAreComponents
<1>2. PICK k : k = Str(K)
  OBVIOUS
<1>3. IsAbsolute(k) /\ Split(k) = K
  BY <1>1, <1>2, StrFacts
<1>4. SetPath(k) = Abs(K)
  BY <1>3, AbsHandles
<1>5. FormulatePath(Abs(K)) = Str(PathCollapse(K))
  BY FormulateAbs
<1>6. PathCollapse(K) = K
  BY CollapseNames
<1>7. Canonical(k)
  BY <1>2, <1>3, <1>4, <1>5, <1>6 DEF Canonical
<1> QED
  BY <1>1, <1>2, <1>7, RunsStr

\* k is the string of the path K around P, which goes on with M.
Leads(k, K, M, P) == /\ K \in Seq(Name) /\ M \in Seq(Name)
                     /\ P = K \o M /\ k = Str(K)

LEMMA LeadsFacts ==
    ASSUME NEW k, NEW K, NEW M, NEW P, Leads(k, K, M, P), NEW s, s = Str(P)
    PROVE  /\ K \in Seq(Component) /\ M \in Seq(Component)
           /\ IsPrefix(k, s) /\ IsPrefix(K, P) /\ Len(P) = Len(K) + Len(M)
           /\ Len(K) \in Nat /\ Len(M) \in Nat /\ Len(k) \in Nat
           /\ Runs(k) = K /\ Canonical(k) /\ k # <<>>
           /\ M = <<>> => P = K /\ k = s
           /\ M # <<>> => /\ Len(k) < Len(s) /\ k # s
                          /\ Split(SubSeq(s, Len(k) + 1, Len(s))) = M
<1>1. K \in Seq(Name) /\ M \in Seq(Name) /\ P = K \o M /\ k = Str(K)
  BY DEF Leads
<1>2. K \in Seq(Component) /\ M \in Seq(Component)
  BY <1>1, NamesAreComponents
<1>3. IsPrefix(K, P) /\ Len(P) = Len(K) + Len(M)
  BY <1>1, ConcatPrefix
<1>4. Runs(k) = K /\ Canonical(k)
  BY <1>1, StrCanonical
<1>5. k \in Seq(Chars) /\ Len(k) \in Nat /\ IsAbsolute(k)
  BY <1>1, <1>2, StrFacts
<1>6. k # <<>>
  BY <1>5 DEF IsAbsolute
<1>7. M = <<>> => P = K /\ k = s
  BY <1>1, ConcatEmptySeq
<1>8. M # <<>> => /\ IsPrefix(k, s) /\ Len(k) < Len(s) /\ k # s
                  /\ Split(SubSeq(s, Len(k) + 1, Len(s))) = M
  <2> SUFFICES ASSUME M # <<>>
               PROVE  /\ IsPrefix(k, s) /\ Len(k) < Len(s) /\ k # s
                      /\ Split(SubSeq(s, Len(k) + 1, Len(s))) = M
    OBVIOUS
  <2>1. /\ IsPrefix(k, s) /\ Len(k) < Len(s) /\ Len(k) \in Nat /\ Len(s) \in Nat
        /\ Split(SubSeq(s, Len(k) + 1, Len(s))) = M
    BY <1>1, <1>2, StrPrefix
  <2>2. k # s
    <3>1. Len(k) # Len(s)
      BY <2>1
    <3> QED
      BY <3>1, Zenon
  <2> QED
    BY <2>1, <2>2
<1>9. IsPrefix(k, s)
  <2>1. IsPrefix(k, k)
    BY <1>5, PrefixElements
  <2> QED
    BY <1>7, <1>8, <2>1
<1>10. Len(K) \in Nat /\ Len(M) \in Nat
  BY <1>1
<1> QED
  BY <1>2, <1>3, <1>4, <1>5, <1>6, <1>7, <1>8, <1>9, <1>10

\* A mount around a path is one whose key the string of the path starts with.
LEMMA AroundLeads ==
    ASSUME PlacesOK, NEW P \in Seq(Name), NEW k \in Around(P)
    PROVE  \E K, M : Leads(k, K, M, P)
<1>1. k \in DOMAIN mount_map /\ Canonical(k) /\ IsPrefix(Runs(k), P)
  BY DEF Around
<1>2. k \in Seq(Chars)
  BY <1>1, KeysAreStrings
<1>3. PICK K \in Seq(Name) : k = Str(K)
  BY <1>1, <1>2, CanonicalString
<1>4. Runs(k) = K
  BY <1>3, StrCanonical
<1>5. IsPrefix(K, P)
  BY <1>1, <1>4
<1>6. PICK M \in Seq(Name) : P = K \o M
  BY <1>5, PrefixCut
<1>7. Leads(k, K, M, P)
  BY <1>3, <1>6 DEF Leads
<1> QED
  BY <1>7

LEMMA AroundAreKeys ==
    ASSUME PlacesOK, NEW P \in Seq(Name), NEW s, s = Str(P), NEW k \in Around(P)
    PROVE  k \in Keys(s)
<1>1. PICK K, M : Leads(k, K, M, P)
  BY AroundLeads
<1>2. IsPrefix(k, s) /\ k # <<>>
  BY <1>1, LeadsFacts
<1>3. k \in DOMAIN mount_map
  BY DEF Around
<1> QED
  BY <1>2, <1>3 DEF Keys

\* Of two paths around a third the one with fewer components is around the
\* other, and its string is shorter.
LEMMA LeadsCompare ==
    ASSUME NEW P \in Seq(Name),
           NEW k, NEW K, NEW M, Leads(k, K, M, P),
           NEW l, NEW L, NEW R, Leads(l, L, R, P)
    PROVE  /\ Len(K) < Len(L) => Len(k) < Len(l)
           /\ Len(K) = Len(L) => k = l
<1>1. K \in Seq(Name) /\ L \in Seq(Name) /\ k = Str(K) /\ l = Str(L)
  BY DEF Leads
<1>2. /\ IsPrefix(K, P) /\ IsPrefix(L, P) /\ Len(K) \in Nat /\ Len(L) \in Nat
  BY LeadsFacts
<1>3. PICK a, b : a = Len(K) /\ b = Len(L)
  OBVIOUS
<1>4. K = SubSeq(P, 1, a) /\ L = SubSeq(P, 1, b) /\ b <= Len(P)
  <2>1. SubSeq(K, 1, a) = K /\ SubSeq(L, 1, b) = L
    BY <1>1, <1>3, SubSeqFull
  <2> QED
    BY <1>2, <1>3, <2>1 DEF IsPrefix
<1>5. a = b => k = l
  BY <1>1, <1>4
<1>6. ASSUME a < b PROVE Len(k) < Len(l)
  <2>1. SubSeq(L, 1, a) = SubSeq(P, 1, a)
    <3>1. CASE a = 0
      BY <3>1, SubSeqEmpty
    <3>2. CASE a # 0
      <4>1. /\ 1 \in 1 .. Len(P) /\ b \in 1 .. Len(P)
            /\ 1 \in 1 .. b - 1 + 1 /\ a \in 1 .. b - 1 + 1
        BY <1>2, <1>3, <1>4, <1>6, <3>2
      <4>2. SubSeq(SubSeq(P, 1, b), 1, a) = SubSeq(P, 1 + 1 - 1, 1 + a - 1)
        BY <4>1, SubSeqOfSubSeq
      <4>3. 1 + 1 - 1 = 1 /\ 1 + a - 1 = a
        BY <1>2, <1>3
      <4> QED
        BY <1>4, <4>2, <4>3, Zenon
    <3> QED
      BY <3>1, <3>2
  <2>2. IsPrefix(K, L)
    <3>1. SubSeq(K, 1, a) = K
      BY <1>1, <1>3, SubSeqFull
    <3>2. a <= b
      BY <1>2, <1>3, <1>6
    <3> QED
      BY <1>3, <1>4, <2>1, <3>1, <3>2 DEF IsPrefix
  <2>3. PICK N \in Seq(Name) : L = K \o N
    BY <1>1, <2>2, PrefixCut
  <2>4. Leads(k, K, N, L)
    BY <1>1, <2>3 DEF Leads
  <2>5. Len(L) = Len(K) + Len(N) /\ (N # <<>> => Len(k) < Len(l))
    BY <1>1, <2>4, LeadsFacts
  <2>6. N # <<>>
    <3> SUFFICES ASSUME N = <<>> PROVE FALSE
      OBVIOUS
    <3>1. Len(N) = 0
      OBVIOUS
    <3> QED
      BY <1>2, <1>3, <1>6, <2>5, <3>1
  <2> QED
    BY <2>5, <2>6
<1> QED
  BY <1>3, <1>5, <1>6

\* There is an innermost mount.
LEMMA InnermostIs ==
    ASSUME PlacesOK, NEW P \in Seq(Name), Around(P) # {}
    PROVE  /\ Innermost(P) \in Around(P)
           /\ \A l \in Around(P) : Len(Runs(l)) <= Len(Runs(Innermost(P)))
<1>1. PICK s : s = Str(P)
  OBVIOUS
<1>2. ASSUME NEW k \in Around(P) PROVE Len(Runs(k)) \in 0 .. Len(P)
  <2>1. PICK K, M : Leads(k, K, M, P)
    BY AroundLeads
  <2>2. Runs(k) = K /\ Len(P) = Len(K) + Len(M) /\ Len(K) \in Nat /\ Len(M) \in Nat
    BY <1>1, <2>1, LeadsFacts
  <2> QED
    BY <2>2
<1>3. PICK n, S : n = Len(P) + 1 /\ S = {Len(Runs(k)) : k \in Around(P)}
  OBVIOUS
<1>4. n \in Nat /\ S \in SUBSET (0 .. n - 1) /\ S # {}
  <2>1. Len(P) \in Nat
    OBVIOUS
  <2> QED
    BY <1>2, <1>3, <2>1
<1>5. PICK m \in S : \A j \in S : m >= j
  BY <1>4, MaxExists
<1>6. PICK k \in Around(P) : m = Len(Runs(k))
  BY <1>3, <1>5
<1>7. ASSUME NEW l \in Around(P) PROVE Len(Runs(l)) <= Len(Runs(k))
  <2>1. Len(Runs(l)) \in S
    BY <1>3
  <2>2. m >= Len(Runs(l))
    BY <1>5, <2>1
  <2> QED
    BY <1>2, <1>6, <2>2
<1> QED
  BY <1>7, Zenon DEF Innermost

\* The longest key is the innermost mount if the path is not misled, and is
\* not around the path if it is.
LEMMA BestIsInnermost ==
    ASSUME PlacesOK, NEW P \in Seq(Name), NEW s, s = Str(P), Around(P) # {}
    PROVE  /\ Best(s) \in Keys(s) /\ Innermost(P) \in Around(P)
           /\ ~ Misled(s) => Innermost(P) = Best(s)
           /\ Misled(s) => Best(s) \notin Around(P)
<1>1. PICK i, b : i = Innermost(P) /\ b = Best(s)
  OBVIOUS
<1>2. i \in Around(P) /\ \A l \in Around(P) : Len(Runs(l)) <= Len(Runs(i))
  BY <1>1, InnermostIs
<1>3. i \in Keys(s)
  BY <1>2, AroundAreKeys
<1>4. s \in Seq(Chars)
  BY NamesAreComponents, StrFacts
<1>5. b \in Keys(s) /\ \A l \in Keys(s) : Len(b) >= Len(l)
  BY <1>1, <1>3, <1>4, BestIsKey
<1>6. /\ b \in Seq(Chars) /\ i \in Seq(Chars) /\ IsPrefix(b, s) /\ IsPrefix(i, s)
      /\ Len(b) \in Nat /\ Len(i) \in Nat
  BY <1>3, <1>5, KeysAreStrings DEF Keys
<1>7. ASSUME b \in Around(P) PROVE b = i
  <2>1. PICK B, C : Leads(b, B, C, P)
    BY <1>7, AroundLeads
  <2>2. PICK K, M : Leads(i, K, M, P)
    BY <1>2, AroundLeads
  <2>3. Runs(b) = B /\ Len(B) \in Nat /\ Runs(i) = K /\ Len(K) \in Nat
    BY <2>1, <2>2, LeadsFacts
  <2>4. Len(B) <= Len(K)
    BY <1>2, <1>7, <2>3
  <2>5. Len(b) >= Len(i)
    BY <1>3, <1>5
  <2>6. ~ (Len(b) < Len(i))
    BY <1>6, <2>5
  <2>7. /\ Len(B) < Len(K) => Len(b) < Len(i)
        /\ Len(B) = Len(K) => b = i
    BY <2>1, <2>2, LeadsCompare
  <2> QED
    BY <2>3, <2>4, <2>6, <2>7
<1>8. Runs(s) = P
  BY StrCanonical
<1>9. ASSUME b \notin Around(P), ~ Misled(s) PROVE b = i
  <2>1. ~ (Len(b) > Len(i))
    BY <1>1, <1>5, <1>8, <1>9 DEF Misled
  <2>2. Len(b) >= Len(i)
    BY <1>3, <1>5
  <2>3. Len(b) = Len(i)
    BY <1>6, <2>1, <2>2
  <2>4. \A j \in 1 .. Len(b) : b[j] = i[j]
    BY <1>4, <1>6, <2>3, PrefixElements
  <2> QED
    BY <1>6, <2>3, <2>4, SeqEqual
<1>10. ASSUME Misled(s), b \in Around(P) PROVE FALSE
  <2>1. PICK k \in Keys(s) : Len(k) > Len(i)
    BY <1>1, <1>8, <1>10 DEF Misled
  <2>2. b = i
    BY <1>7, <1>10
  <2>3. Len(b) >= Len(k) /\ Len(k) \in Nat
    BY <1>4, <1>5, <2>1, KeysAreStrings
  <2> QED
    BY <1>6, <2>1, <2>2, <2>3
<1> QED
  BY <1>1, <1>2, <1>5, <1>7, <1>9, <1>10

(***************************************************************************)
(* For every table of mounts, a path that is written as getcwd() would     *)
(* write it is sent to the innermost mount around it, and the components   *)
(* between the mount and the file are the ones the mount walks, unless a   *)
(* key that is longer than the one of that mount starts the string without *)
(* being around the path ("/m" for "/mm"): then such a key's mount answers.*)
(***************************************************************************)
THEOREM RoutesTheorem == Spec => []RoutesToInnermost
<1>1. MapOK /\ PlacesOK => RoutesToInnermost
  <2> SUFFICES ASSUME MapOK, PlacesOK, NEW s \in Strings, Canonical(s),
                      Around(Runs(s)) # {}
               PROVE  IF Misled(s)
                      THEN \E k \in Keys(s) \ Around(Runs(s)) :
                               GetMount(s).mount = mount_map[k]
                      ELSE /\ Place(s).mount = mount_map[Innermost(Runs(s))]
                           /\ Runs(Innermost(Runs(s))) \o Place(s).path = Runs(s)
    BY DEF RoutesToInnermost
  <2>1. s \in Seq(Chars)
    BY MountManagerAssumption
  <2>2. PICK P \in Seq(Name) : s = Str(P)
    BY <2>1, CanonicalString
  <2>3. Runs(s) = P
    BY <2>2, StrCanonical
  <2>4. PICK b : b = Best(s)
    OBVIOUS
  <2>5. /\ b \in Keys(s) /\ Innermost(P) \in Around(P)
        /\ ~ Misled(s) => Innermost(P) = b
        /\ Misled(s) => b \notin Around(P)
    BY <2>2, <2>3, <2>4, BestIsInnermost
  <2>6. CASE Misled(s)
    <3>1. GetMount(s).mount = mount_map[b]
      BY <2>4, <2>5 DEF GetMount, Best
    <3> QED
      BY <2>3, <2>5, <2>6, <3>1
  <2>7. CASE ~ Misled(s)
    <3>1. b \in Around(P) /\ Innermost(P) = b /\ Keys(s) # {}
      BY <2>5, <2>7
    <3>2. PICK K, M : Leads(b, K, M, P)
      BY <3>1, AroundLeads
    <3>3. PICK m : m = mount_map[b]
      OBVIOUS
    <3>4. m # NULL
      <4>1. b \in DOMAIN mount_map /\ b # <<>>
        BY <3>1 DEF Around
      <4> QED
        BY <3>3, <4>1 DEF MapOK, NoNullMount
    <3>5. PathCollapse(Split(Rest(s))) = M
      <4>1. M \in Seq(Name)
        BY <3>2 DEF Leads
      <4>2. Split(Rest(s)) = M
        <5>1. CASE M = <<>>
          <6>1. b = s
            BY <2>2, <3>2, <5>1, LeadsFacts
          <6>2. Rest(s) = Slash
            BY <2>4, <6>1 DEF Rest
          <6> QED
            BY <5>1, <6>2, SplitSlash
        <5>2. CASE M # <<>>
          <6>1. b # s /\ Split(SubSeq(s, Len(b) + 1, Len(s))) = M
            BY <2>2, <3>2, <5>2, LeadsFacts
          <6>2. Rest(s) = SubSeq(s, Len(b) + 1, Len(s))
            BY <2>4, <6>1, Zenon DEF Rest
          <6> QED
            BY <6>1, <6>2
        <5> QED
          BY <5>1, <5>2
      <4> QED
        BY <4>1, <4>2, CollapseNames
    <3>6. Place(s) = [mount |-> m, path |-> M]
      <4>1. Place(s) = Routed(m, Rest(s))
        BY <2>4, <3>1, <3>3, PlaceIs
      <4> QED
        BY <3>4, <3>5, <4>1, Zenon DEF Routed
    <3>7. Runs(b) = K /\ P = K \o M
      <4>1. Runs(b) = K
        BY <2>2, <3>2, LeadsFacts
      <4> QED
        BY <3>2, <4>1 DEF Leads
    <3>8. Place(s).mount = m /\ Place(s).path = M
      BY <3>6
    <3> QED
      BY <2>3, <2>7, <3>1, <3>3, <3>7, <3>8
  <2> QED
    BY <2>6, <2>7
<1> QED
  BY <1>1, MapInvariance, PlacesInvariance, PTL

-------------------------------------------------------------------------------
(* PathCollapse() keeps the names that lexical resolution keeps.           *)

\* How many of S lie behind i, up to j.
Count(S, i, j) == Cardinality(S \cap (i + 1 .. j))

LEMMA CountNone ==
    ASSUME NEW S, NEW i \in Nat
    PROVE  Count(S, i, i) = 0
<1>1. S \cap (i + 1 .. i) = {}
  OBVIOUS
<1> QED
  BY <1>1, FS_EmptySet DEF Count

LEMMA CountStep ==
    ASSUME NEW S, NEW i \in Nat, NEW n \in Nat, i <= n
    PROVE  /\ Count(S, i, n) \in Nat
           /\ Count(S, i, n + 1) = Count(S, i, n) + (IF n + 1 \in S THEN 1 ELSE 0)
<1>1. PICK T : T = S \cap (i + 1 .. n)
  OBVIOUS
<1>2. IsFiniteSet(T)
  <2>1. IsFiniteSet(i + 1 .. n)
    BY FS_Interval
  <2> QED
    BY <1>1, <2>1, FS_Subset
<1>3. Cardinality(T) \in Nat
  BY <1>2, FS_CardinalityType
<1>4. CASE n + 1 \in S
  <2>1. S \cap (i + 1 .. n + 1) = T \cup {n + 1} /\ n + 1 \notin T
    BY <1>1, <1>4
  <2>2. Cardinality(T \cup {n + 1}) = Cardinality(T) + 1
    BY <1>2, <2>1, FS_AddElement
  <2> QED
    BY <1>1, <1>3, <1>4, <2>1, <2>2 DEF Count
<1>5. CASE n + 1 \notin S
  <2>1. S \cap (i + 1 .. n + 1) = T
    BY <1>1, <1>5
  <2> QED
    BY <1>1, <1>3, <1>5, <2>1 DEF Count
<1> QED
  BY <1>4, <1>5

NamesOf(path) == {i \in DOMAIN path : ~ IsDot(path[i]) /\ ~ IsDotDot(path[i])}
UpsOf(path) == {i \in DOMAIN path : IsDotDot(path[i])}

\* The surplus of ".." behind i, which is never to be positive.
LostBy(path, i, n) ==
    \E j \in i .. n : Count(UpsOf(path), i, j) > Count(NamesOf(path), i, j)
Kept(path, n) == {i \in NamesOf(path) : i <= n /\ ~ LostBy(path, i, n)}

LEMMA LexicalIs ==
    ASSUME NEW path \in Seq(Component)
    PROVE  Lexical(path) = [k \in 1 .. Len(InOrder(Kept(path, Len(path)))) |->
                               path[InOrder(Kept(path, Len(path)))[k]]]
<1>1. PICK K : K = {i \in NamesOf(path) : ~ LostBy(path, i, Len(path))}
  OBVIOUS
<1>2. Lexical(path) = [k \in 1 .. Len(InOrder(K)) |-> path[InOrder(K)[k]]]
  BY <1>1, Zenon DEF Lexical, NamesOf, UpsOf, LostBy, Count
<1>3. K = Kept(path, Len(path))
  <2>1. \A i \in NamesOf(path) : i <= Len(path)
    BY DEF NamesOf
  <2> QED
    BY <1>1, <2>1 DEF Kept
<1> QED
  BY <1>2, <1>3

LEMMA ClimbsIs ==
    ASSUME NEW path \in Seq(Component), ~ Climbs(path), NEW j \in 1 .. Len(path)
    PROVE  Count(UpsOf(path), 0, j) <= Count(NamesOf(path), 0, j)
<1>1. j \in DOMAIN path /\ j \in Nat /\ 0 + 1 = 1
  OBVIOUS
<1>2. Climbs(path) <=> \E i \in DOMAIN path :
                           Cardinality(UpsOf(path) \cap (1 .. i)) >
                               Cardinality(NamesOf(path) \cap (1 .. i))
  BY Zenon DEF Climbs, NamesOf, UpsOf
<1>3. ~ (Cardinality(UpsOf(path) \cap (1 .. j)) >
             Cardinality(NamesOf(path) \cap (1 .. j)))
  BY <1>1, <1>2
<1>4. Count(UpsOf(path), 0, j) \in Nat /\ Count(NamesOf(path), 0, j) \in Nat
  BY <1>1, CountStep
<1>5. /\ Count(UpsOf(path), 0, j) = Cardinality(UpsOf(path) \cap (1 .. j))
      /\ Count(NamesOf(path), 0, j) = Cardinality(NamesOf(path) \cap (1 .. j))
  BY <1>1 DEF Count
<1> QED
  BY <1>3, <1>4, <1>5

LEMMA KeptFacts ==
    ASSUME NEW path \in Seq(Component), NEW n \in Nat, NEW i \in Kept(path, n)
    PROVE  /\ i \in Nat /\ i \in 1 .. n /\ i \in NamesOf(path)
           /\ Count(UpsOf(path), i, n) \in Nat /\ Count(NamesOf(path), i, n) \in Nat
           /\ Count(UpsOf(path), i, n) <= Count(NamesOf(path), i, n)
<1>1. i \in NamesOf(path) /\ i \in 1 .. Len(path) /\ i <= n /\ ~ LostBy(path, i, n)
  BY DEF Kept, NamesOf
<1>2. n \in i .. n /\ i \in Nat
  BY <1>1
<1>3. ~ (Count(UpsOf(path), i, n) > Count(NamesOf(path), i, n))
  BY <1>1, <1>2 DEF LostBy
<1>4. Count(UpsOf(path), i, n) \in Nat /\ Count(NamesOf(path), i, n) \in Nat
  BY <1>1, <1>2, CountStep
<1> QED
  BY <1>1, <1>2, <1>3, <1>4

\* An older name is kept by a round that leaves no surplus behind it.
LEMMA KeptOld ==
    ASSUME NEW path \in Seq(Component), NEW n \in Nat, NEW i \in 1 .. n
    PROVE  i \in Kept(path, n + 1) <=>
               /\ i \in Kept(path, n)
               /\ ~ (Count(UpsOf(path), i, n + 1) > Count(NamesOf(path), i, n + 1))
<1>1. LostBy(path, i, n + 1) <=>
          \/ LostBy(path, i, n)
          \/ Count(UpsOf(path), i, n + 1) > Count(NamesOf(path), i, n + 1)
  <2>1. \A j : j \in i .. n + 1 <=> j \in i .. n \/ j = n + 1
    OBVIOUS
  <2> QED
    BY <2>1, Zenon DEF LostBy
<1>2. i <= n /\ i <= n + 1
  OBVIOUS
<1> QED
  BY <1>1, <1>2, Zenon DEF Kept

\* The newest name is kept.
LEMMA KeptNew ==
    ASSUME NEW path \in Seq(Component), NEW n \in Nat, n + 1 <= Len(path)
    PROVE  n + 1 \in Kept(path, n + 1) <=> n + 1 \in NamesOf(path)
<1>1. PICK x : x = n + 1
  OBVIOUS
<1>2. x \in Nat /\ \A j \in x .. x : j = x
  BY <1>1
<1>3. Count(UpsOf(path), x, x) = 0 /\ Count(NamesOf(path), x, x) = 0
  BY <1>2, CountNone
<1>4. ~ LostBy(path, x, x)
  BY <1>2, <1>3 DEF LostBy
<1>5. x \in Kept(path, x) <=> x \in NamesOf(path)
  BY <1>2, <1>4 DEF Kept
<1> QED
  BY <1>1, <1>5

\* v holds the names that are kept after n rounds; behind the k-th, the
\* surplus of names is what stands above it.
Keeps(path, v, n, m, a) ==
    /\ Rising(a, m) /\ Kept(path, n) = {a[k] : k \in 1 .. m}
    /\ v = [k \in 1 .. m |-> path[a[k]]]
    /\ \A k \in 1 .. m :
           Count(NamesOf(path), a[k], n) = Count(UpsOf(path), a[k], n) + (m - k)

LEMMA KeepsNone ==
    ASSUME NEW path \in Seq(Component)
    PROVE  \E m, a : Keeps(path, <<>>, 0, m, a)
<1>1. PICK a : a = [k \in 1 .. 0 |-> 0]
  OBVIOUS
<1>2. Rising(a, 0)
  BY <1>1 DEF Rising
<1>3. Kept(path, 0) = {a[k] : k \in 1 .. 0}
  <2>1. \A i \in NamesOf(path) : ~ (i <= 0)
    BY DEF NamesOf
  <2> QED
    BY <2>1 DEF Kept
<1>4. <<>> = [k \in 1 .. 0 |-> path[a[k]]]
  OBVIOUS
<1>5. Keeps(path, <<>>, 0, 0, a)
  BY <1>2, <1>3, <1>4 DEF Keeps
<1> QED
  BY <1>5

\* What the stack tells about the positions it holds.
LEMMA KeepsFacts ==
    ASSUME NEW path \in Seq(Component), NEW v, NEW n \in Nat, NEW m, NEW a,
           Keeps(path, v, n, m, a)
    PROVE  /\ m \in Nat /\ Rising(a, m)
           /\ v = [k \in 1 .. m |-> path[a[k]]]
           /\ \A k \in 1 .. m : /\ a[k] \in 1 .. n /\ a[k] \in Nat /\ a[k] \in Kept(path, n)
                                /\ Count(NamesOf(path), a[k], n) \in Nat
                                /\ Count(UpsOf(path), a[k], n) \in Nat
                                /\ Count(NamesOf(path), a[k], n)
                                       = Count(UpsOf(path), a[k], n) + (m - k)
           /\ \A i \in Kept(path, n) : \E k \in 1 .. m : i = a[k]
<1>1. m \in Nat /\ Rising(a, m) /\ v = [k \in 1 .. m |-> path[a[k]]]
  BY DEF Keeps, Rising
<1>2. \A k \in 1 .. m : a[k] \in Kept(path, n)
  BY DEF Keeps
<1>3. \A i \in Kept(path, n) : \E k \in 1 .. m : i = a[k]
  BY DEF Keeps
<1>4. \A k \in 1 .. m :
          Count(NamesOf(path), a[k], n) = Count(UpsOf(path), a[k], n) + (m - k)
  BY DEF Keeps
<1> QED
  BY <1>1, <1>2, <1>3, <1>4, KeptFacts

\* A round with "." changes nothing.
LEMMA KeepsDot ==
    ASSUME NEW path \in Seq(Component), NEW v, NEW n \in Nat, n + 1 <= Len(path),
           NEW m, NEW a, Keeps(path, v, n, m, a), IsDot(path[n + 1])
    PROVE  Keeps(path, v, n + 1, m, a)
<1>1. n + 1 \notin NamesOf(path) /\ n + 1 \notin UpsOf(path)
  <2>1. ~ IsDotDot(path[n + 1])
    <3>1. Len(<<".">>) # Len(<<".", ".">>)
      OBVIOUS
    <3> QED
      BY <3>1 DEF IsDot, IsDotDot
  <2> QED
    BY <2>1 DEF NamesOf, UpsOf
<1>2. ASSUME NEW i \in 1 .. n
      PROVE  /\ Count(UpsOf(path), i, n + 1) = Count(UpsOf(path), i, n)
             /\ Count(NamesOf(path), i, n + 1) = Count(NamesOf(path), i, n)
  <2>1. i \in Nat /\ i <= n
    OBVIOUS
  <2>2. PICK U, W : U = UpsOf(path) /\ W = NamesOf(path)
    OBVIOUS
  <2>3. Count(U, i, n) \in Nat /\ Count(U, i, n + 1) = Count(U, i, n) + 0
    BY <1>1, <2>1, <2>2, CountStep
  <2>4. Count(W, i, n) \in Nat /\ Count(W, i, n + 1) = Count(W, i, n) + 0
    BY <1>1, <2>1, <2>2, CountStep
  <2> QED
    BY <2>2, <2>3, <2>4
<1>3. Kept(path, n + 1) = Kept(path, n)
  <2>1. ASSUME NEW i \in Kept(path, n) PROVE i \in Kept(path, n + 1)
    BY <1>2, KeptFacts, KeptOld
  <2>2. ASSUME NEW i \in Kept(path, n + 1) PROVE i \in Kept(path, n)
    <3>1. i \in 1 .. n + 1 /\ n + 1 \in Nat /\ i \in NamesOf(path)
      BY KeptFacts
    <3>2. i # n + 1
      BY <1>1, <3>1
    <3>3. i \in 1 .. n
      BY <3>1, <3>2
    <3> QED
      BY <3>3, KeptOld
  <2> QED
    BY <2>1, <2>2
<1>4. \A k \in 1 .. m :
          Count(NamesOf(path), a[k], n + 1) = Count(UpsOf(path), a[k], n + 1) + (m - k)
  <2>1. \A k \in 1 .. m : a[k] \in 1 .. n
    BY KeepsFacts
  <2>2. \A k \in 1 .. m :
            Count(NamesOf(path), a[k], n) = Count(UpsOf(path), a[k], n) + (m - k)
    BY DEF Keeps
  <2> QED
    BY <1>2, <2>1, <2>2
<1> QED
  BY <1>3, <1>4 DEF Keeps

\* A name is put on top.
LEMMA KeepsName ==
    ASSUME NEW path \in Seq(Component), NEW v, NEW n \in Nat, n + 1 <= Len(path),
           NEW m, NEW a, Keeps(path, v, n, m, a), n + 1 \in NamesOf(path)
    PROVE  \E b : Keeps(path, Append(v, path[n + 1]), n + 1, m + 1, b)
<1>1. PICK x : x = n + 1
  OBVIOUS
<1>2. x \notin UpsOf(path) /\ x \in NamesOf(path) /\ x \in Nat
  BY <1>1 DEF NamesOf, UpsOf
<1>3. ASSUME NEW i \in 1 .. n
      PROVE  /\ Count(UpsOf(path), i, x) = Count(UpsOf(path), i, n)
             /\ Count(NamesOf(path), i, x) = Count(NamesOf(path), i, n) + 1
  <2>1. i \in Nat /\ i <= n
    OBVIOUS
  <2>2. PICK U, W : U = UpsOf(path) /\ W = NamesOf(path)
    OBVIOUS
  <2>3. Count(U, i, n) \in Nat /\ Count(U, i, n + 1) = Count(U, i, n) + 0
    BY <1>1, <1>2, <2>1, <2>2, CountStep
  <2>4. Count(W, i, n) \in Nat /\ Count(W, i, n + 1) = Count(W, i, n) + 1
    BY <1>1, <1>2, <2>1, <2>2, CountStep
  <2> QED
    BY <1>1, <2>2, <2>3, <2>4
<1>4. PICK p : p = m + 1
  OBVIOUS
<1>5. PICK b : b = [k \in 1 .. p |-> IF k = p THEN x ELSE a[k]]
  OBVIOUS
<1>6. /\ m \in Nat /\ p \in Nat /\ p \in 1 .. p
      /\ \A k \in 1 .. m : k \in 1 .. p /\ k # p
      /\ \A k \in 1 .. p : k \in 1 .. m \/ k = p
  <2>1. m \in Nat
    BY DEF Keeps, Rising
  <2> QED
    BY <1>4, <2>1
<1>7. /\ b[p] = x
      /\ \A k \in 1 .. m : b[k] = a[k] /\ a[k] \in 1 .. n
  BY <1>5, <1>6, KeepsFacts
<1>8. Rising(b, p)
  <2>1. \A k \in 1 .. p : b[k] \in Nat
    BY <1>2, <1>6, <1>7
  <2>2. b \in [1 .. p -> Nat]
    BY <1>5, <2>1
  <2>3. ASSUME NEW j \in 1 .. p, NEW k \in 1 .. p, j < k PROVE b[j] < b[k]
    <3>1. j \in 1 .. m
      BY <1>6, <2>3
    <3>2. CASE k = p
      <4>1. b[j] \in 1 .. n
        BY <1>7, <3>1
      <4> QED
        BY <1>1, <1>7, <3>2, <4>1
    <3>3. CASE k \in 1 .. m
      <4>1. a[j] < a[k]
        BY <2>3, <3>1, <3>3, KeepsFacts DEF Rising
      <4> QED
        BY <1>7, <3>1, <3>3, <4>1
    <3> QED
      BY <1>6, <3>2, <3>3
  <2> QED
    BY <1>6, <2>2, <2>3 DEF Rising
<1>9. Kept(path, x) = {b[k] : k \in 1 .. p}
  <2>1. ASSUME NEW i \in Kept(path, x) PROVE i \in {b[k] : k \in 1 .. p}
    <3>1. i \in 1 .. x
      BY <1>2, KeptFacts
    <3>2. CASE i = x
      BY <1>6, <1>7, <3>2
    <3>3. CASE i # x
      <4>1. i \in 1 .. n
        BY <1>1, <3>1, <3>3
      <4>2. i \in Kept(path, n)
        BY <1>1, <4>1, KeptOld
      <4>3. PICK k \in 1 .. m : i = a[k]
        BY <4>2, KeepsFacts
      <4> QED
        BY <1>6, <1>7, <4>3
    <3> QED
      BY <3>2, <3>3
  <2>2. ASSUME NEW k \in 1 .. p PROVE b[k] \in Kept(path, x)
    <3>1. CASE k = p
      BY <1>1, <1>2, <1>7, <3>1, KeptNew
    <3>2. CASE k \in 1 .. m
      <4>1. PICK i : i = a[k]
        OBVIOUS
      <4>2. i \in Kept(path, n)
        BY <3>2, <4>1, KeepsFacts
      <4>3. /\ i \in 1 .. n
            /\ Count(UpsOf(path), i, n) \in Nat /\ Count(NamesOf(path), i, n) \in Nat
            /\ Count(UpsOf(path), i, n) <= Count(NamesOf(path), i, n)
        BY <4>2, KeptFacts
      <4>4. ~ (Count(UpsOf(path), i, x) > Count(NamesOf(path), i, x))
        BY <1>3, <4>3
      <4>5. i \in Kept(path, x)
        BY <1>1, <4>2, <4>3, <4>4, KeptOld
      <4> QED
        BY <1>7, <3>2, <4>1, <4>5
    <3> QED
      BY <1>6, <3>1, <3>2
  <2> QED
    BY <2>1, <2>2
<1>10. Append(v, path[x]) = [k \in 1 .. p |-> path[b[k]]]
  <2>1. v = [k \in 1 .. m |-> path[a[k]]]
    BY DEF Keeps
  <2>2. Len(v) = m
    BY <1>6, <2>1
  <2>3. Append(v, path[x]) = [k \in 1 .. Len(v) + 1 |->
                                IF k = Len(v) + 1 THEN path[x] ELSE v[k]]
    <3>1. \A k \in 1 .. Len(v) + 1 : k <= Len(v) <=> k # Len(v) + 1
      BY <1>6, <2>2
    <3>2. v \in Seq({path[a[k]] : k \in 1 .. m})
      BY <1>6, <2>1
    <3> QED
      BY <3>1, <3>2
  <2>4. \A k \in 1 .. p : (IF k = p THEN path[x] ELSE v[k]) = path[b[k]]
    <3> SUFFICES ASSUME NEW k \in 1 .. p
                 PROVE  (IF k = p THEN path[x] ELSE v[k]) = path[b[k]]
      OBVIOUS
    <3>1. CASE k = p
      BY <1>7, <3>1
    <3>2. CASE k \in 1 .. m
      BY <1>6, <1>7, <2>1, <3>2
    <3> QED
      BY <1>6, <3>1, <3>2
  <2>5. Append(v, path[x]) = [k \in 1 .. p |-> IF k = p THEN path[x] ELSE v[k]]
    BY <1>4, <2>2, <2>3
  <2> QED
    BY <2>4, <2>5
<1>11. \A k \in 1 .. p :
          Count(NamesOf(path), b[k], x) = Count(UpsOf(path), b[k], x) + (p - k)
  <2> SUFFICES ASSUME NEW k \in 1 .. p
               PROVE  Count(NamesOf(path), b[k], x) = Count(UpsOf(path), b[k], x) + (p - k)
    OBVIOUS
  <2>1. CASE k = p
    <3>1. Count(UpsOf(path), x, x) = 0 /\ Count(NamesOf(path), x, x) = 0 /\ p - k = 0
      BY <1>2, <1>6, <2>1, CountNone
    <3> QED
      BY <1>7, <2>1, <3>1
  <2>2. CASE k \in 1 .. m
    <3>1. PICK i : i = a[k]
      OBVIOUS
    <3>2. /\ i \in 1 .. n
          /\ Count(NamesOf(path), i, n) \in Nat /\ Count(UpsOf(path), i, n) \in Nat
          /\ Count(NamesOf(path), i, n) = Count(UpsOf(path), i, n) + (m - k)
      BY <2>2, <3>1, KeepsFacts
    <3>3. /\ Count(UpsOf(path), i, x) = Count(UpsOf(path), i, n)
          /\ Count(NamesOf(path), i, x) = Count(NamesOf(path), i, n) + 1
      BY <1>3, <3>2
    <3>4. Count(NamesOf(path), i, x) = Count(UpsOf(path), i, x) + (p - k)
      BY <1>4, <1>6, <2>2, <3>2, <3>3
    <3> QED
      BY <1>7, <2>2, <3>1, <3>4
  <2> QED
    BY <1>6, <2>1, <2>2
<1>12. Keeps(path, Append(v, path[x]), x, p, b)
  BY <1>8, <1>9, <1>10, <1>11 DEF Keeps
<1> QED
  BY <1>1, <1>4, <1>12

\* ".." takes the last one away, if there is one.
LEMMA KeepsUp ==
    ASSUME NEW path \in Seq(Component), NEW v, NEW n \in Nat, n + 1 <= Len(path),
           NEW m, NEW a, Keeps(path, v, n, m, a), IsDotDot(path[n + 1])
    PROVE  \E l, b : Keeps(path, IF v = <<>> THEN v ELSE Front(v), n + 1, l, b)
<1>1. PICK x : x = n + 1
  OBVIOUS
<1>2. x \in UpsOf(path) /\ x \notin NamesOf(path) /\ x \in Nat
  BY <1>1 DEF NamesOf, UpsOf
<1>3. ASSUME NEW i \in 1 .. n
      PROVE  /\ Count(UpsOf(path), i, x) = Count(UpsOf(path), i, n) + 1
             /\ Count(NamesOf(path), i, x) = Count(NamesOf(path), i, n)
  <2>1. i \in Nat /\ i <= n
    OBVIOUS
  <2>2. PICK U, W : U = UpsOf(path) /\ W = NamesOf(path)
    OBVIOUS
  <2>3. Count(U, i, n) \in Nat /\ Count(U, i, n + 1) = Count(U, i, n) + 1
    BY <1>1, <1>2, <2>1, <2>2, CountStep
  <2>4. Count(W, i, n) \in Nat /\ Count(W, i, n + 1) = Count(W, i, n) + 0
    BY <1>1, <1>2, <2>1, <2>2, CountStep
  <2> QED
    BY <1>1, <2>2, <2>3, <2>4
<1>4. m \in Nat
  BY DEF Keeps, Rising
<1>5. PICK p : p = IF m = 0 THEN 0 ELSE m - 1
  OBVIOUS
<1>6. /\ p \in Nat /\ p <= m
      /\ \A k \in 1 .. p : k \in 1 .. m /\ k < m /\ p = m - 1
      /\ \A k \in 1 .. m : k \in 1 .. p <=> k # m
  BY <1>4, <1>5
<1>7. PICK b : b = [k \in 1 .. p |-> a[k]]
  OBVIOUS
<1>8. Rising(b, p)
  <2>1. a \in [1 .. m -> Nat] /\ \A j, k \in 1 .. m : j < k => a[j] < a[k]
    BY DEF Keeps, Rising
  <2> QED
    BY <1>6, <1>7, <2>1 DEF Rising
<1>9. ASSUME NEW k \in 1 .. m
      PROVE  a[k] \in Kept(path, x) <=> k # m
  <2>1. PICK i : i = a[k]
    OBVIOUS
  <2>2. /\ i \in 1 .. n /\ i \in Kept(path, n)
        /\ Count(NamesOf(path), i, n) \in Nat /\ Count(UpsOf(path), i, n) \in Nat
    BY <2>1, KeepsFacts
  <2>3. Count(NamesOf(path), i, n) = Count(UpsOf(path), i, n) + (m - k)
    BY <2>1 DEF Keeps
  <2>4. Count(UpsOf(path), i, x) > Count(NamesOf(path), i, x) <=> k = m
    BY <1>3, <1>4, <2>2, <2>3
  <2> QED
    BY <1>1, <2>1, <2>2, <2>4, KeptOld
<1>10. Kept(path, x) = {b[k] : k \in 1 .. p}
  <2>1. ASSUME NEW i \in Kept(path, x) PROVE i \in {b[k] : k \in 1 .. p}
    <3>1. i \in 1 .. x /\ i \in NamesOf(path)
      BY <1>2, KeptFacts
    <3>2. i # x
      BY <1>2, <3>1
    <3>3. i \in 1 .. n
      BY <1>1, <3>1, <3>2
    <3>4. i \in Kept(path, n)
      BY <1>1, <3>3, KeptOld
    <3>5. PICK k \in 1 .. m : i = a[k]
      BY <3>4 DEF Keeps
    <3>6. k \in 1 .. p
      BY <1>6, <1>9, <3>5
    <3> QED
      BY <1>7, <3>5, <3>6
  <2>2. ASSUME NEW k \in 1 .. p PROVE b[k] \in Kept(path, x)
    BY <1>4, <1>6, <1>7, <1>9
  <2> QED
    BY <2>1, <2>2
<1>11. (IF v = <<>> THEN v ELSE Front(v)) = [k \in 1 .. p |-> path[b[k]]]
  <2>1. v = [k \in 1 .. m |-> path[a[k]]]
    BY DEF Keeps
  <2>2. Len(v) = m
    BY <1>4, <2>1
  <2>3. CASE m = 0
    <3>1. v = <<>> /\ p = 0
      BY <1>5, <2>1, <2>3
    <3> QED
      BY <3>1
  <2>4. CASE m # 0
    <3>1. v # <<>>
      <4>1. Len(v) # Len(<<>>)
        BY <2>2, <2>4
      <4> QED
        BY <4>1
    <3>2. p = m - 1
      BY <1>5, <2>4
    <3>3. Front(v) = [k \in 1 .. p |-> v[k]]
      <4>1. PICK S : S = {path[a[k]] : k \in 1 .. m}
        OBVIOUS
      <4>2. v \in [1 .. m -> S]
        BY <2>1, <4>1
      <4>3. v \in Seq(S)
        BY <1>4, <4>2
      <4>4. Front(v) = SubSeq(v, 1, p)
        BY <2>2, <3>2 DEF Front
      <4> QED
        BY <1>4, <1>6, <2>2, <4>3, <4>4
    <3>4. \A k \in 1 .. p : v[k] = path[b[k]]
      BY <1>6, <1>7, <2>1
    <3> QED
      BY <3>1, <3>3, <3>4
  <2> QED
    BY <2>3, <2>4
<1>12. \A k \in 1 .. p :
          Count(NamesOf(path), b[k], x) = Count(UpsOf(path), b[k], x) + (p - k)
  <2> SUFFICES ASSUME NEW k \in 1 .. p
               PROVE  Count(NamesOf(path), b[k], x) = Count(UpsOf(path), b[k], x) + (p - k)
    OBVIOUS
  <2>1. PICK i : i = a[k]
    OBVIOUS
  <2>2. k \in 1 .. m
    BY <1>6
  <2>3. /\ i \in 1 .. n
        /\ Count(NamesOf(path), i, n) \in Nat /\ Count(UpsOf(path), i, n) \in Nat
    BY <2>1, <2>2, KeepsFacts
  <2>4. Count(NamesOf(path), i, n) = Count(UpsOf(path), i, n) + (m - k)
    BY <2>1, <2>2 DEF Keeps
  <2>5. Count(NamesOf(path), i, x) = Count(UpsOf(path), i, x) + (p - k)
    <3>1. p = m - 1
      BY <1>6
    <3> QED
      BY <1>3, <1>4, <2>2, <2>3, <2>4, <3>1
  <2> QED
    BY <1>7, <2>1, <2>5
<1>13. Keeps(path, IF v = <<>> THEN v ELSE Front(v), x, p, b)
  BY <1>8, <1>10, <1>11, <1>12 DEF Keeps
<1> QED
  BY <1>1, <1>13

LEMMA KeepsRound ==
    ASSUME NEW path \in Seq(Component), NEW v, NEW n \in Nat, n + 1 <= Len(path),
           \E m, a : Keeps(path, v, n, m, a)
    PROVE  \E m, a : Keeps(path, Push(v, path[n + 1]), n + 1, m, a)
<1>1. PICK m, a : Keeps(path, v, n, m, a)
  OBVIOUS
<1>2. CASE IsDot(path[n + 1])
  <2>1. Push(v, path[n + 1]) = v
    BY <1>2 DEF Push
  <2>2. Keeps(path, v, n + 1, m, a)
    BY <1>1, <1>2, KeepsDot
  <2> QED
    BY <2>1, <2>2
<1>3. CASE ~ IsDot(path[n + 1]) /\ ~ IsDotDot(path[n + 1])
  <2>1. Push(v, path[n + 1]) = Append(v, path[n + 1])
    BY <1>3 DEF Push
  <2>2. n + 1 \in NamesOf(path)
    BY <1>3 DEF NamesOf
  <2>3. PICK b : Keeps(path, Append(v, path[n + 1]), n + 1, m + 1, b)
    BY <1>1, <2>2, KeepsName
  <2> QED
    BY <2>1, <2>3
<1>4. CASE ~ IsDot(path[n + 1]) /\ IsDotDot(path[n + 1])
  <2>1. Push(v, path[n + 1]) = IF v = <<>> THEN v ELSE Front(v)
    BY <1>4 DEF Push
  <2>2. PICK l, b : Keeps(path, IF v = <<>> THEN v ELSE Front(v), n + 1, l, b)
    BY <1>1, <1>4, KeepsUp
  <2> QED
    BY <2>1, <2>2, Zenon
<1> QED
  BY <1>2, <1>3, <1>4

\* PathCollapse() is lexical resolution.
LEMMA CollapseIsLexical ==
    ASSUME NEW path \in Seq(Component)
    PROVE  PathCollapse(path) = Lexical(path)
<1>1. PICK w : Rounds(path, w)
  BY CollapseFacts DEF Rounds
<1>2. PICK N : N = Len(path) /\ N \in Nat
  OBVIOUS
<1> DEFINE T == {n \in 0 .. N : ~ \E m, a : Keeps(path, w[n], n, m, a)}
<1>3. T = {}
  <2> SUFFICES ASSUME T # {} PROVE FALSE
    OBVIOUS
  <2>1. PICK n \in T : \A y \in T : n <= y
    <3>1. T \in SUBSET Nat
      BY <1>2
    <3> HIDE DEF T
    <3> QED
      BY <3>1, LeastExists
  <2>2. n \in 0 .. N /\ ~ \E m, a : Keeps(path, w[n], n, m, a)
    BY <2>1
  <2>3. \A y \in 0 .. N : y < n => \E m, a : Keeps(path, w[y], y, m, a)
    BY <2>1, <2>2
  <2> HIDE DEF T
  <2>4. CASE n = 0
    <3>1. w[0] = <<>>
      BY <1>1 DEF Rounds
    <3> QED
      BY <2>2, <2>4, <3>1, KeepsNone
  <2>5. CASE n # 0
    <3>1. PICK y, v : y = n - 1 /\ v = w[y]
      OBVIOUS
    <3>2. y \in Nat /\ y \in 0 .. N /\ y < n /\ y + 1 = n /\ y + 1 <= Len(path)
          /\ n \in 1 .. Len(path)
      BY <1>2, <2>2, <2>5, <3>1
    <3>3. \E m, a : Keeps(path, v, y, m, a)
      BY <2>3, <3>1, <3>2
    <3>4. \E m, a : Keeps(path, Push(v, path[y + 1]), y + 1, m, a)
      BY <3>2, <3>3, KeepsRound
    <3>5. w[n] = Push(v, path[n])
      BY <1>1, <3>1, <3>2 DEF Rounds
    <3> QED
      BY <2>2, <3>2, <3>4, <3>5
  <2> QED
    BY <2>4, <2>5
<1>4. PICK v : v = PathCollapse(path)
  OBVIOUS
<1>5. v = w[N]
  BY <1>1, <1>2, <1>4 DEF Rounds
<1>6. PICK m, a : Keeps(path, v, N, m, a)
  <2>1. N \in 0 .. N
    BY <1>2
  <2> QED
    BY <1>3, <1>5, <2>1
<1>7. PICK o : o = InOrder(Kept(path, N))
  OBVIOUS
<1>8. o = [k \in 1 .. m |-> a[k]] /\ m \in Nat
  <2>1. Rising(a, m) /\ Kept(path, N) = {a[k] : k \in 1 .. m} /\ m \in Nat
    BY <1>6 DEF Keeps, Rising
  <2>2. InOrder({a[k] : k \in 1 .. m}) = [k \in 1 .. m |-> a[k]]
    BY <2>1, OrderOf
  <2> QED
    BY <1>7, <2>1, <2>2
<1>9. Len(o) = m /\ \A k \in 1 .. m : o[k] = a[k]
  BY <1>8
<1>10. Lexical(path) = [k \in 1 .. Len(o) |-> path[o[k]]]
  BY <1>2, <1>7, LexicalIs
<1>11. Lexical(path) = [k \in 1 .. m |-> path[a[k]]]
  BY <1>9, <1>10
<1> QED
  BY <1>4, <1>6, <1>11 DEF Keeps

-------------------------------------------------------------------------------
(* A path that does not climb, resolved behind names.                      *)

\* The last member of a path put behind another.
LEMMA FrontBehind ==
    ASSUME NEW V, NEW Q \in Seq(V), NEW v \in Seq(V), v # <<>>
    PROVE  Front(Q \o v) = Q \o Front(v) /\ Q \o v # <<>>
<1>1. PICK q, l : q = Len(Q) /\ l = Len(v) /\ q \in Nat /\ l \in Nat \ {0}
  BY EmptySeq
<1>2. PICK f : f = Front(v)
  OBVIOUS
<1>3. f \in Seq(V) /\ Len(f) = l - 1 /\ \A k \in 1 .. l - 1 : f[k] = v[k]
  BY <1>1, <1>2, FrontFacts
<1>4. PICK y : y = Q \o v
  OBVIOUS
<1>5. /\ y \in Seq(V) /\ Len(y) = q + l
      /\ \A k \in 1 .. q + l : y[k] = IF k <= q THEN Q[k] ELSE v[k - q]
  <2>1. /\ Q \o v \in Seq(V) /\ Len(Q \o v) = Len(Q) + Len(v)
        /\ \A k \in 1 .. Len(Q) + Len(v) :
               (Q \o v)[k] = IF k <= Len(Q) THEN Q[k] ELSE v[k - Len(Q)]
    BY ConcatProperties
  <2> QED
    BY <1>1, <1>4, <2>1, Zenon
<1>6. y # <<>>
  <2>1. Len(y) # Len(<<>>)
    BY <1>1, <1>5
  <2> QED
    BY <2>1
<1>7. PICK z : z = Q \o f
  OBVIOUS
<1>8. /\ z \in Seq(V) /\ Len(z) = q + (l - 1)
      /\ \A k \in 1 .. q + (l - 1) : z[k] = IF k <= q THEN Q[k] ELSE f[k - q]
  <2>1. /\ Q \o f \in Seq(V) /\ Len(Q \o f) = Len(Q) + Len(f)
        /\ \A k \in 1 .. Len(Q) + Len(f) :
               (Q \o f)[k] = IF k <= Len(Q) THEN Q[k] ELSE f[k - Len(Q)]
    BY <1>3, ConcatProperties
  <2> QED
    BY <1>1, <1>3, <1>7, <2>1, Zenon
<1>9. PICK g : g = Front(y)
  OBVIOUS
<1>10. g \in Seq(V) /\ Len(g) = q + l - 1 /\ \A k \in 1 .. q + l - 1 : g[k] = y[k]
  <2>1. Front(y) \in Seq(V) /\ Len(Front(y)) = Len(y) - 1
        /\ \A k \in 1 .. Len(y) - 1 : Front(y)[k] = y[k]
    BY <1>5, <1>6, FrontFacts
  <2>2. Len(y) - 1 = q + l - 1
    BY <1>1, <1>5
  <2> QED
    BY <1>9, <2>1, <2>2, Zenon
<1>11. \A k \in 1 .. q + l - 1 : g[k] = z[k]
  <2> SUFFICES ASSUME NEW k \in 1 .. q + l - 1 PROVE g[k] = z[k]
    OBVIOUS
  <2>1. k \in 1 .. q + l /\ k \in 1 .. q + (l - 1) /\ (~ (k <= q) => k - q \in 1 .. l - 1)
    BY <1>1
  <2>2. g[k] = y[k]
    BY <1>10
  <2>3. y[k] = IF k <= q THEN Q[k] ELSE v[k - q]
    BY <1>5, <2>1
  <2>4. z[k] = IF k <= q THEN Q[k] ELSE f[k - q]
    BY <1>8, <2>1
  <2>5. CASE k <= q
    BY <2>2, <2>3, <2>4, <2>5
  <2>6. CASE ~ (k <= q)
    <3>1. f[k - q] = v[k - q]
      BY <1>3, <2>1, <2>6
    <3> QED
      BY <2>2, <2>3, <2>4, <2>6, <3>1
  <2> QED
    BY <2>5, <2>6
<1>12. g = z
  <2>1. Len(g) = Len(z) /\ Len(g) = q + l - 1
    BY <1>1, <1>8, <1>10
  <2> QED
    BY <1>8, <1>10, <1>11, <2>1
<1> QED
  BY <1>2, <1>4, <1>6, <1>7, <1>9, <1>12

LEMMA PushBehind ==
    ASSUME NEW Q \in Seq(Name), NEW v \in Seq(Name), NEW c \in Component,
           IsDotDot(c) => v # <<>>
    PROVE  Push(Q \o v, c) = Q \o Push(v, c)
<1>1. CASE IsDot(c)
  BY <1>1 DEF Push
<1>2. CASE ~ IsDot(c) /\ ~ IsDotDot(c)
  <2>1. Push(Q \o v, c) = Append(Q \o v, c) /\ Push(v, c) = Append(v, c)
    BY <1>2 DEF Push
  <2>2. Q \in Seq(Component) /\ v \in Seq(Component)
    BY NamesAreComponents
  <2>3. Q \o Append(v, c) = Append(Q \o v, c)
    BY <2>2, ConcatAppend
  <2> QED
    BY <2>1, <2>3
<1>3. CASE ~ IsDot(c) /\ IsDotDot(c)
  <2>1. Front(Q \o v) = Q \o Front(v) /\ Q \o v # <<>> /\ v # <<>>
    BY <1>3, FrontBehind
  <2> QED
    BY <1>3, <2>1 DEF Push
<1> QED
  BY <1>1, <1>2, <1>3

\* How many names a round leaves.
LEMMA PushLen ==
    ASSUME NEW V, NEW v \in Seq(V), NEW c, ~ IsDot(c) /\ ~ IsDotDot(c) => c \in V
    PROVE  /\ IsDot(c) => Len(Push(v, c)) = Len(v)
           /\ ~ IsDot(c) /\ ~ IsDotDot(c) => Len(Push(v, c)) = Len(v) + 1
           /\ ~ IsDot(c) /\ IsDotDot(c) => Len(Push(v, c)) >= Len(v) - 1
<1>1. Len(v) \in Nat
  OBVIOUS
<1>2. CASE IsDot(c)
  BY <1>2 DEF Push
<1>3. CASE ~ IsDot(c) /\ ~ IsDotDot(c)
  BY <1>3 DEF Push
<1>4. CASE ~ IsDot(c) /\ IsDotDot(c)
  <2>1. CASE v = <<>>
    BY <1>1, <1>4, <2>1 DEF Push
  <2>2. CASE v # <<>>
    <3>1. Push(v, c) = Front(v)
      BY <1>4, <2>2 DEF Push
    <3>2. Len(Front(v)) = Len(v) - 1
      BY <2>2, FrontFacts
    <3> QED
      BY <1>1, <1>4, <3>1, <3>2
  <2> QED
    BY <2>1, <2>2
<1> QED
  BY <1>2, <1>3, <1>4

\* After j rounds of R: what the same rounds behind Q have left.
InStep(Q, R, w, v, j) ==
    /\ w[Len(Q) + j] = Q \o v[j]
    /\ Len(v[j]) + Count(UpsOf(R), 0, j) >= Count(NamesOf(R), 0, j)

LEMMA RoundBehind ==
    ASSUME NEW Q \in Seq(Name), NEW R \in Seq(Component), ~ Climbs(R),
           NEW w, NEW v, NEW y \in Nat, y + 1 <= Len(R), v[y] \in Seq(Name),
           w[Len(Q) + (y + 1)] = Push(w[Len(Q) + y], R[y + 1]),
           v[y + 1] = Push(v[y], R[y + 1]), InStep(Q, R, w, v, y)
    PROVE  InStep(Q, R, w, v, y + 1)
<1>1. PICK x, c, z : x = y + 1 /\ c = R[x] /\ z = v[y]
  OBVIOUS
<1>2. x \in 1 .. Len(R) /\ x \in Nat /\ c \in Component /\ Len(z) \in Nat
  BY <1>1, ElementOfSeq
<1>3. PICK U, W : U = UpsOf(R) /\ W = NamesOf(R)
  OBVIOUS
<1>4. /\ Count(U, 0, y) \in Nat
      /\ Count(U, 0, x) = Count(U, 0, y) + (IF x \in U THEN 1 ELSE 0)
  BY <1>1, CountStep
<1>5. /\ Count(W, 0, y) \in Nat
      /\ Count(W, 0, x) = Count(W, 0, y) + (IF x \in W THEN 1 ELSE 0)
  BY <1>1, CountStep
<1>6. Count(U, 0, x) <= Count(W, 0, x)
  BY <1>2, <1>3, ClimbsIs
<1>7. Len(z) + Count(U, 0, y) >= Count(W, 0, y)
  BY <1>1, <1>3 DEF InStep
<1>8. /\ x \in U <=> IsDotDot(c)
      /\ x \in W <=> ~ IsDot(c) /\ ~ IsDotDot(c)
  BY <1>1, <1>2, <1>3 DEF UpsOf, NamesOf
<1>9. ~ IsDot(c) /\ ~ IsDotDot(c) => c \in Name
  BY <1>2 DEF Name
<1>10. PICK V : V = Name
  OBVIOUS
<1>11. z \in Seq(V) /\ Q \in Seq(V) /\ (~ IsDot(c) /\ ~ IsDotDot(c) => c \in V)
  BY <1>1, <1>9, <1>10
<1>12. IsDotDot(c) => z # <<>>
  <2> SUFFICES ASSUME IsDotDot(c) PROVE z # <<>>
    OBVIOUS
  <2>1. Count(U, 0, x) = Count(U, 0, y) + 1 /\ Count(W, 0, x) = Count(W, 0, y)
    BY <1>4, <1>5, <1>8
  <2>2. Len(z) # Len(<<>>)
    BY <1>2, <1>4, <1>5, <1>6, <1>7, <2>1
  <2> QED
    BY <2>2
<1>13. PICK p : p = Push(z, c)
  OBVIOUS
<1>14. Len(p) + Count(U, 0, x) >= Count(W, 0, x)
  <2>1. p \in Seq(V) /\ Len(p) \in Nat
    <3>1. Push(z, c) \in Seq(V)
      BY <1>11, PushType
    <3> QED
      BY <1>13, <3>1
  <2>2. /\ IsDot(c) => Len(p) = Len(z)
        /\ ~ IsDot(c) /\ ~ IsDotDot(c) => Len(p) = Len(z) + 1
        /\ ~ IsDot(c) /\ IsDotDot(c) => Len(p) >= Len(z) - 1
    BY <1>13, <1>11, PushLen
  <2>3. ~ (IsDot(c) /\ IsDotDot(c))
    <3>1. Len(<<".">>) # Len(<<".", ".">>)
      OBVIOUS
    <3> QED
      BY <3>1 DEF IsDot, IsDotDot
  <2> QED
    BY <1>2, <1>4, <1>5, <1>7, <1>8, <2>1, <2>2, <2>3
<1>15. w[Len(Q) + x] = Q \o p
  <2>1. w[Len(Q) + y] = Q \o z
    BY <1>1 DEF InStep
  <2>2. Push(Q \o z, c) = Q \o Push(z, c)
    <3>1. z \in Seq(Name)
      BY <1>1
    <3> QED
      BY <1>2, <1>12, <3>1, PushBehind
  <2>3. w[Len(Q) + x] = Push(w[Len(Q) + y], c)
    BY <1>1
  <2> QED
    BY <1>13, <2>1, <2>2, <2>3
<1>16. v[x] = p
  BY <1>1, <1>13
<1> QED
  BY <1>1, <1>3, <1>14, <1>15, <1>16 DEF InStep

LEMMA CollapseBehind ==
    ASSUME NEW Q \in Seq(Name), NEW R \in Seq(Component), ~ Climbs(R)
    PROVE  PathCollapse(Q \o R) = Q \o PathCollapse(R)
<1>1. PICK q, r : q = Len(Q) /\ r = Len(R) /\ q \in Nat /\ r \in Nat
  <2>1. Len(Q) \in Nat /\ Len(R) \in Nat
    OBVIOUS
  <2> QED
    BY <2>1, Zenon
<1>2. PICK P : P = Q \o R
  OBVIOUS
<1>3. Q \in Seq(Component)
  BY NamesAreComponents
<1>4. /\ P \in Seq(Component) /\ Len(P) = q + r
      /\ \A k \in 1 .. q + r : P[k] = IF k <= q THEN Q[k] ELSE R[k - q]
  <2>1. /\ Q \o R \in Seq(Component) /\ Len(Q \o R) = Len(Q) + Len(R)
        /\ \A k \in 1 .. Len(Q) + Len(R) :
               (Q \o R)[k] = IF k <= Len(Q) THEN Q[k] ELSE R[k - Len(Q)]
    BY <1>3, ConcatProperties
  <2> QED
    BY <1>1, <1>2, <2>1, Zenon
<1>5. PICK w : Rounds(P, w)
  BY <1>4, CollapseFacts DEF Rounds
<1>6. PICK v : Rounds(R, v)
  BY CollapseFacts DEF Rounds
<1>7. w[q] = Q
  <2>1. \A k \in 1 .. q : P[k] = Q[k] /\ P[k] \in Name
    <3> SUFFICES ASSUME NEW k \in 1 .. q PROVE P[k] = Q[k] /\ P[k] \in Name
      OBVIOUS
    <3>1. k \in 1 .. q + r /\ k <= q
      BY <1>1
    <3>2. P[k] = Q[k]
      BY <1>4, <3>1
    <3> QED
      BY <1>1, <3>2, ElementOfSeq
  <2>2. q \in 0 .. Len(P)
    BY <1>1, <1>4
  <2>3. w[q] \in Seq(Name) /\ Len(w[q]) = q /\ \A k \in 1 .. q : w[q][k] = P[k]
    BY <1>4, <1>5, <2>1, <2>2, RoundsOfNames
  <2>4. PICK u : u = w[q]
    OBVIOUS
  <2>5. u \in Seq(Name) /\ Len(u) = Len(Q) /\ \A k \in 1 .. Len(Q) : u[k] = Q[k]
    BY <1>1, <2>1, <2>3, <2>4
  <2> QED
    BY <2>4, <2>5
<1>8. /\ v[0] = <<>> /\ \A j \in 0 .. r : v[j] \in Seq(Name)
      /\ \A j \in 1 .. r : v[j] = Push(v[j - 1], R[j])
      /\ PathCollapse(R) = v[r]
  BY <1>1, <1>6 DEF Rounds
<1> DEFINE T == {j \in 0 .. r : ~ InStep(Q, R, w, v, j)}
<1>9. T = {}
  <2> SUFFICES ASSUME T # {} PROVE FALSE
    OBVIOUS
  <2>1. PICK n \in T : \A y \in T : n <= y
    <3>1. T \in SUBSET Nat
      BY <1>1
    <3> HIDE DEF T
    <3> QED
      BY <3>1, LeastExists
  <2>2. n \in 0 .. r /\ ~ InStep(Q, R, w, v, n)
    BY <2>1
  <2>3. \A y \in 0 .. r : y < n => InStep(Q, R, w, v, y)
    BY <2>1, <2>2
  <2> HIDE DEF T
  <2>4. CASE n = 0
    <3>1. Q \o <<>> = Q
      BY ConcatEmptySeq
    <3>2. w[Len(Q) + 0] = Q \o v[0]
      BY <1>1, <1>7, <1>8, <3>1
    <3>3. Count(UpsOf(R), 0, 0) = 0 /\ Count(NamesOf(R), 0, 0) = 0
      BY CountNone
    <3>4. Len(v[0]) = 0
      BY <1>8
    <3>5. InStep(Q, R, w, v, 0)
      BY <3>2, <3>3, <3>4 DEF InStep
    <3> QED
      BY <2>2, <2>4, <3>5
  <2>5. CASE n # 0
    <3>1. PICK y : y = n - 1
      OBVIOUS
    <3>2. /\ y \in Nat /\ y \in 0 .. r /\ y < n /\ y + 1 = n /\ y + 1 <= Len(R)
          /\ n \in 1 .. r /\ n - 1 = y
      BY <1>1, <2>2, <2>5, <3>1
    <3>3. v[y] \in Seq(Name) /\ v[y + 1] = Push(v[y], R[y + 1])
      BY <1>8, <3>2
    <3>4. w[Len(Q) + (y + 1)] = Push(w[Len(Q) + y], R[y + 1])
      <4>1. PICK k : k = q + n
        OBVIOUS
      <4>2. k \in 1 .. Len(P) /\ k - 1 = q + y /\ k \in 1 .. q + r /\ ~ (k <= q) /\ k - q = n
        BY <1>1, <1>4, <3>2, <4>1
      <4>3. w[k] = Push(w[k - 1], P[k])
        BY <1>5, <4>2 DEF Rounds
      <4>4. P[k] = R[n]
        BY <1>4, <4>2
      <4> QED
        BY <1>1, <3>2, <4>1, <4>2, <4>3, <4>4
    <3>5. InStep(Q, R, w, v, y + 1)
      BY <2>3, <3>2, <3>3, <3>4, RoundBehind
    <3> QED
      BY <2>2, <3>2, <3>5
  <2> QED
    BY <2>4, <2>5
<1>10. InStep(Q, R, w, v, r)
  <2>1. r \in 0 .. r
    BY <1>1
  <2> QED
    BY <1>9, <2>1
<1>11. w[q + r] = Q \o v[r]
  BY <1>1, <1>10 DEF InStep
<1>12. PathCollapse(P) = w[q + r]
  BY <1>4, <1>5 DEF Rounds
<1> QED
  BY <1>2, <1>8, <1>11, <1>12

-------------------------------------------------------------------------------
(* The handle that open() makes.                                           *)

\* A second slash in front makes no component.
LEMMA SplitSlashed ==
    ASSUME NEW P \in Seq(Component), P # <<>>
    PROVE  Split(Slash \o Str(P)) = P
<1>1. PICK s, n : s = Str(P) /\ n = Len(P)
  OBVIOUS
<1>2. PICK e : Spelling(s, P, n, e)
  BY <1>1, RawSpells, SpellingOf
<1>3. PICK N : N = Len(s)
  OBVIOUS
<1>4. /\ n \in Nat \ {0} /\ s \in Seq(Chars) /\ N = e[n] - 1 /\ N \in Nat
      /\ e \in [0 .. n -> Nat] /\ e[0] = 1 /\ s[1] = "/"
  BY <1>2, <1>3 DEF Spelling
<1>5. ASSUME NEW k \in 1 .. n
      PROVE  /\ e[k - 1] \in Nat /\ e[k] \in Nat /\ e[k - 1] >= 1 /\ e[k] <= N + 1
             /\ Len(P[k]) \in Nat /\ e[k] = e[k - 1] + Len(P[k]) + 1
             /\ \A i \in 1 .. Len(P[k]) : s[e[k - 1] + i] = P[k][i]
             /\ e[k] <= N => s[e[k]] = "/"
             /\ k \in 0 .. n /\ k - 1 \in 0 .. n
  <2>1. Filled(s, P, e, k)
    BY <1>2, Inside
  <2>2. /\ e[k - 1] \in Nat /\ e[k] \in Nat /\ e[k - 1] >= 1 /\ e[k] <= N + 1
        /\ e[k] <= N => s[e[k]] = "/"
    BY <1>3, <2>1, Zenon DEF Filled
  <2>3. /\ Len(P[k]) \in Nat /\ e[k] = e[k - 1] + Len(P[k]) + 1
        /\ \A i \in 1 .. Len(P[k]) : s[e[k - 1] + i] = P[k][i]
    BY <1>2 DEF Spelling
  <2> QED
    BY <1>4, <2>2, <2>3
<1>6. PICK z : z = Slash \o s
  OBVIOUS
<1>7. /\ z \in Seq(Chars) /\ Len(z) = N + 1 /\ z[1] = "/"
      /\ \A i \in 1 .. N : z[i + 1] = s[i]
  <2>1. PICK sl : sl = Slash /\ sl \in Seq(Chars) /\ Len(sl) = 1 /\ sl[1] = "/"
    BY SlashIsString
  <2>2. Joined(z, sl, s, 1, N)
    BY <1>3, <1>4, <1>6, <2>1 DEF Joined
  <2>3. z \in Seq(Chars)
    BY <1>4, <1>6, <2>1, ConcatProperties
  <2>4. /\ Len(z) = 1 + N /\ \A i \in 1 .. 1 : z[i] = sl[i]
        /\ \A i \in 1 .. N : z[1 + i] = s[i]
    BY <2>2, JoinedParts
  <2>5. \A i \in 1 .. N : i + 1 = 1 + i
    OBVIOUS
  <2>6. z[1] = sl[1]
    BY <2>4
  <2>7. \A i \in 1 .. N : z[i + 1] = s[i]
    BY <2>4, <2>5
  <2>8. Len(z) = N + 1
    BY <1>4, <2>4
  <2> QED
    BY <2>1, <2>3, <2>6, <2>7, <2>8
<1>8. PICK d : d = [k \in 0 .. n |-> e[k] + 1]
  OBVIOUS
<1>9. d \in [0 .. n -> Nat] /\ \A k \in 0 .. n : d[k] = e[k] + 1
  <2>1. ASSUME NEW k \in 0 .. n PROVE e[k] + 1 \in Nat
    <3>1. PICK x : x = e[k]
      OBVIOUS
    <3>2. x \in Nat
      BY <1>4, <3>1
    <3> QED
      BY <3>1, <3>2
  <2> QED
    BY <1>8, <2>1
<1>10. d[0] = 2 /\ Len(z) = d[n] - 1
  <2>1. 0 \in 0 .. n /\ n \in 0 .. n
    BY <1>4
  <2>2. PICK x, y : x = e[n] /\ y = d[n]
    OBVIOUS
  <2>3. x \in Nat /\ y = x + 1 /\ N = x - 1
    BY <1>4, <1>9, <2>1, <2>2
  <2>4. Len(z) = y - 1
    BY <1>7, <2>3
  <2>5. d[0] = e[0] + 1
    BY <1>9, <2>1
  <2> QED
    BY <1>4, <2>2, <2>4, <2>5
<1>11. ASSUME NEW k \in 1 .. n
       PROVE  /\ d[k] = d[k - 1] + Len(P[k]) + 1
              /\ \A i \in 1 .. Len(P[k]) : z[d[k - 1] + i] = P[k][i]
              /\ e[k] <= N => z[d[k]] = "/"
  <2>1. PICK x, y, L : x = e[k - 1] /\ y = e[k] /\ L = Len(P[k])
    OBVIOUS
  <2>2. PICK a, b : a = d[k - 1] /\ b = d[k]
    OBVIOUS
  <2>3. /\ x \in Nat /\ y \in Nat /\ L \in Nat /\ x >= 1 /\ y <= N + 1
        /\ y = x + L + 1 /\ a = x + 1 /\ b = y + 1
    BY <1>5, <1>9, <2>1, <2>2
  <2>4. b = a + L + 1
    BY <2>3
  <2>5. \A i \in 1 .. L : z[a + i] = P[k][i]
    <3> SUFFICES ASSUME NEW i \in 1 .. L PROVE z[a + i] = P[k][i]
      OBVIOUS
    <3>1. PICK j : j = x + i
      OBVIOUS
    <3>2. j \in 1 .. N /\ j + 1 = a + i
      BY <1>4, <2>3, <3>1
    <3>3. s[j] = P[k][i]
      BY <1>5, <2>1, <3>1
    <3> QED
      BY <1>7, <3>2, <3>3
  <2>6. y <= N => z[b] = "/"
    <3> SUFFICES ASSUME y <= N PROVE z[b] = "/"
      OBVIOUS
    <3>1. y \in 1 .. N /\ b = y + 1
      BY <1>4, <2>3
    <3>2. s[y] = "/"
      BY <1>5, <2>1
    <3> QED
      BY <1>7, <3>1, <3>2
  <2> QED
    BY <2>1, <2>2, <2>4, <2>5, <2>6
<1>12. \A k \in 1 .. n - 1 : z[d[k]] = "/"
  <2> SUFFICES ASSUME NEW k \in 1 .. n - 1 PROVE z[d[k]] = "/"
    OBVIOUS
  <2>1. k \in 1 .. n /\ k + 1 \in 1 .. n /\ k + 1 - 1 = k
    BY <1>4
  <2>2. PICK x, y, L : x = e[k] /\ y = e[k + 1] /\ L = Len(P[k + 1])
    OBVIOUS
  <2>3. x \in Nat /\ L \in Nat /\ y <= N + 1 /\ y = x + L + 1
    BY <1>5, <2>1, <2>2
  <2>4. x <= N
    BY <1>4, <2>3
  <2> QED
    BY <1>11, <2>1, <2>2, <2>4
<1>13. \A i \in 1 .. 2 : z[i] = "/"
  <2>1. N >= 1
    <3>1. PICK x, y, L : x = e[0] /\ y = e[1] /\ L = Len(P[1])
      OBVIOUS
    <3>2. 1 \in 1 .. n /\ 1 - 1 = 0
      BY <1>4
    <3>3. x = 1 /\ L \in Nat /\ y = x + L + 1 /\ y <= N + 1
      BY <1>4, <1>5, <3>1, <3>2
    <3> QED
      BY <1>4, <3>3
  <2>2. 1 \in 1 .. N /\ 1 + 1 = 2
    BY <1>4, <2>1
  <2>3. z[2] = s[1]
    BY <1>7, <2>2
  <2>4. \A i \in 1 .. 2 : i = 1 \/ i = 2
    OBVIOUS
  <2> QED
    BY <1>4, <1>7, <2>3, <2>4
<1>14. Spells(z, P, 2, d)
  BY <1>1, <1>7, <1>9, <1>10, <1>11, <1>12, <1>13 DEF Spells
<1> QED
  BY <1>1, <1>6, <1>14, SplitSpelled

\* A relative path of names.
Rel(P) == [path |-> P, is_absolute |-> FALSE]

LEMMA RelPath ==
    ASSUME NEW P
    PROVE  Rel(P).path = P /\ ~ Rel(P).is_absolute
  BY DEF Rel

LEMMA CollapsedRel ==
    ASSUME NEW P
    PROVE  Collapsed(Rel(P)) = Rel(PathCollapse(P))
<1>1. Rel(P).path = P
  BY RelPath
<1>2. Collapsed(Rel(P)) = [Rel(P) EXCEPT !.path = PathCollapse(P)]
  BY <1>1, Zenon DEF Collapsed
<1>3. ASSUME NEW v, NEW Q
      PROVE  [[path |-> P, is_absolute |-> v] EXCEPT !.path = Q]
                 = [path |-> Q, is_absolute |-> v]
  OBVIOUS
<1> QED
  BY <1>2, <1>3, Zenon DEF Rel

\* Only the first slash is missing from its string.
LEMMA RelString ==
    ASSUME NEW P \in Seq(Component), P # <<>>
    PROVE  \E r \in Seq(Chars) : /\ FormulateRawPath(Rel(P)) = r
                                 /\ r # <<>> /\ Str(P) = Slash \o r
<1>1. PICK n : n = Len(P) /\ n \in Nat \ {0}
  BY EmptySeq
<1>2. PICK w : Writes(Abs(P), w)
  BY AbsPath, WritesOf
<1>3. PICK u : Writes(Rel(P), u)
  BY RelPath, WritesOf
<1>4. /\ w \in [0 .. n -> Seq(Chars)] /\ w[0] = Slash
      /\ \A i \in 1 .. n : w[i] = w[i - 1] \o P[i] \o Slash
      /\ Spelt(Abs(P)) = w[n]
  BY <1>1, <1>2, AbsPath DEF Writes
<1>5. /\ u \in [0 .. n -> Seq(Chars)] /\ u[0] = <<>>
      /\ \A i \in 1 .. n : u[i] = u[i - 1] \o P[i] \o Slash
      /\ Spelt(Rel(P)) = u[n]
  BY <1>1, <1>3, RelPath DEF Writes
<1>6. PICK sl : sl = Slash /\ sl \in Seq(Chars) /\ Len(sl) = 1
  BY SlashIsString
<1>7. \A i \in 1 .. n : P[i] \in Seq(Chars) /\ Len(P[i]) \in Nat \ {0}
  <2> SUFFICES ASSUME NEW i \in 1 .. n PROVE P[i] \in Seq(Chars) /\ Len(P[i]) \in Nat \ {0}
    OBVIOUS
  <2>1. PICK c : c = P[i] /\ c \in Component
    BY <1>1, ElementOfSeq
  <2>2. c \in Seq(Chars) /\ c # <<>>
    BY <2>1 DEF Component
  <2> QED
    BY <2>1, <2>2, EmptySeq
<1> DEFINE T == {i \in 0 .. n : w[i] # sl \o u[i]}
<1>8. T = {}
  <2> SUFFICES ASSUME T # {} PROVE FALSE
    OBVIOUS
  <2>1. PICK i \in T : \A y \in T : i <= y
    <3>1. T \in SUBSET Nat
      OBVIOUS
    <3> HIDE DEF T
    <3> QED
      BY <3>1, LeastExists
  <2>2. i \in 0 .. n /\ w[i] # sl \o u[i]
    BY <2>1
  <2>3. \A y \in 0 .. n : y < i => w[y] = sl \o u[y]
    BY <2>1, <2>2
  <2> HIDE DEF T
  <2>4. CASE i = 0
    <3>1. sl \o <<>> = sl
      BY <1>6, ConcatEmptySeq
    <3> QED
      BY <1>4, <1>5, <1>6, <2>2, <2>4, <3>1
  <2>5. CASE i # 0
    <3>1. PICK y, v, c : y = i - 1 /\ v = u[y] /\ c = P[i]
      OBVIOUS
    <3>2. y \in 0 .. n /\ y < i /\ i \in 1 .. n /\ i - 1 = y
      BY <1>1, <2>2, <2>5, <3>1
    <3>3. v \in Seq(Chars) /\ c \in Seq(Chars)
      BY <1>5, <1>7, <3>1, <3>2
    <3>4. w[i] = ((sl \o v) \o c) \o sl
      BY <1>4, <1>6, <2>3, <3>1, <3>2
    <3>5. u[i] = (v \o c) \o sl
      BY <1>5, <1>6, <3>1, <3>2
    <3>6. v \o c \in Seq(Chars) /\ c \o sl \in Seq(Chars) /\ sl \o v \in Seq(Chars)
      BY <1>6, <3>3, ConcatProperties
    <3>7. (sl \o v) \o c = sl \o (v \o c)
      BY <1>6, <3>3, ConcatThree
    <3>8. PICK g : g = v \o c
      OBVIOUS
    <3>9. (sl \o g) \o sl = sl \o (g \o sl)
      BY <1>6, <3>6, <3>8, ConcatThree
    <3> QED
      BY <2>2, <3>4, <3>5, <3>7, <3>8, <3>9, Zenon
  <2> QED
    BY <2>4, <2>5
<1>9. PICK U : U = u[n]
  OBVIOUS
<1>10. U \in Seq(Chars) /\ Len(U) \in Nat /\ Len(U) >= 2
  <2>1. PICK v, c : v = u[n - 1] /\ c = P[n]
    OBVIOUS
  <2>2. n \in 1 .. n /\ n - 1 \in 0 .. n
    BY <1>1
  <2>3. v \in Seq(Chars) /\ c \in Seq(Chars) /\ Len(c) \in Nat \ {0} /\ Len(v) \in Nat
    BY <1>5, <1>7, <2>1, <2>2
  <2>4. U = Glue(v, c)
    BY <1>5, <1>9, <2>1, <2>2 DEF Glue
  <2>5. U \in Seq(Chars) /\ Len(U) = Len(v) + Len(c) + 1
    BY <2>3, <2>4, WriteStep
  <2> QED
    BY <2>3, <2>5
<1>11. U # <<>>
  <2>1. Len(U) # Len(<<>>)
    BY <1>10
  <2> QED
    BY <2>1
<1>12. PICK r : r = Front(U)
  OBVIOUS
<1>13. r \in Seq(Chars) /\ r # <<>> /\ FormulateRawPath(Rel(P)) = r
  <2>1. Front(U) \in Seq(Chars) /\ Len(Front(U)) = Len(U) - 1
    BY <1>10, <1>11, FrontFacts
  <2>2. Len(r) # Len(<<>>)
    BY <1>10, <1>12, <2>1
  <2>3. Spelt(Rel(P)) = U /\ ~ (Len(U) <= 1)
    BY <1>5, <1>9, <1>10
  <2>4. FormulateRawPath(Rel(P)) = Front(U)
    BY <2>3, RawIsSpell, Zenon
  <2> QED
    BY <1>12, <2>1, <2>2, <2>4
<1>14. Str(P) = sl \o r
  <2>1. PICK W : W = sl \o U
    OBVIOUS
  <2>2. n \in 0 .. n
    BY <1>1
  <2>3. Spelt(Abs(P)) = W
    BY <1>4, <1>8, <1>9, <2>1, <2>2
  <2>4. Front(W) = sl \o r
    BY <1>6, <1>10, <1>11, <1>12, <2>1, FrontBehind
  <2>5. Len(W) = 1 + Len(U)
    <3>1. Len(sl \o U) = Len(sl) + Len(U)
      BY <1>6, <1>10, ConcatProperties
    <3> QED
      BY <1>6, <2>1, <3>1
  <2>6. ~ (Len(W) <= 1)
    BY <1>10, <2>5
  <2>7. FormulateRawPath(Abs(P)) = Front(W)
    BY <2>3, <2>6, RawIsSpell, Zenon
  <2> QED
    BY <2>4, <2>7 DEF Str
<1> QED
  BY <1>6, <1>13, <1>14

LEMMA RelHandle ==
    ASSUME NEW s \in Seq(Chars), ~ IsAbsolute(s)
    PROVE  NewPathHandle(s) = Rel(PathCollapse(Split(s)))
<1>1. IsAbsolute(s) = FALSE
  BY DEF IsAbsolute
<1> QED
  BY <1>1, Zenon DEF NewPathHandle, Rel

\* An absolute path is collapsed; a relative one is put behind the working
\* directory.
LEMMA OpenAbsolute ==
    ASSUME NEW s \in Seq(Chars), IsAbsolute(s)
    PROVE  OpenHandlePath(s).path = PathCollapse(Split(s))
<1>1. PICK P : P = PathCollapse(Split(s))
  OBVIOUS
<1>2. NewPathHandle(s) = Abs(P)
  BY <1>1, AbsHandles
<1>3. Abs(P).is_absolute
  BY AbsPath
<1>4. OpenHandlePath(s) = Abs(P)
  BY <1>2, <1>3, Zenon DEF OpenHandlePath
<1> QED
  BY <1>1, <1>4, AbsPath

LEMMA OpenRelative ==
    ASSUME NEW Q \in Seq(Name), cwd = Abs(Q), NEW s \in Seq(Chars), ~ IsAbsolute(s),
           NEW C, C = PathCollapse(Split(s)), C # <<>>
    PROVE  OpenHandlePath(s).path = Q \o C
<1>1. Split(s) \in Seq(Component)
  BY SplitType
<1>2. C \in Seq(Name) /\ C \in Seq(Component) /\ Q \in Seq(Component)
  BY <1>1, CollapseType, NamesAreComponents
<1>3. PICK ph : ph = NewPathHandle(s)
  OBVIOUS
<1>4. ph = Rel(C)
  BY <1>3, RelHandle
<1>5. PICK r \in Seq(Chars) : FormulateRawPath(Rel(C)) = r /\ r # <<>> /\ Str(C) = Slash \o r
  BY <1>2, RelString
<1>6. FormulatePath(ph) = r
  <2>1. PathCollapse(C) = C
    BY <1>2, CollapseNames
  <2>2. Collapsed(Rel(C)) = Rel(C)
    BY <2>1, CollapsedRel
  <2> QED
    BY <1>4, <1>5, <2>2 DEF FormulatePath
<1>7. ~ ph.is_absolute
  BY <1>4, RelPath
<1>8. FormulatePath(cwd) = Str(Q)
  BY CwdString
<1>9. OpenHandlePath(s) = NewPathHandle((Str(Q) \o Slash) \o r)
  <2>1. OpenHandlePath(s) =
            IF FormulatePath(ph) # <<>> /\ ~ ph.is_absolute
            THEN NewPathHandle(FormulatePath(cwd) \o Slash \o FormulatePath(ph))
            ELSE ph
    BY <1>3, Zenon DEF OpenHandlePath
  <2>2. FormulatePath(ph) # <<>> /\ ~ ph.is_absolute
    BY <1>5, <1>6, <1>7
  <2>3. OpenHandlePath(s)
            = NewPathHandle(FormulatePath(cwd) \o Slash \o FormulatePath(ph))
    BY <2>1, <2>2, Zenon
  <2> QED
    BY <1>6, <1>8, <2>3, Zenon
<1>10. PICK x, y : x = Str(Q) /\ y = Str(C)
  OBVIOUS
<1>11. x \in Seq(Chars) /\ y \in Seq(Chars) /\ IsAbsolute(x) /\ Len(x) \in Nat
  BY <1>2, <1>10, StrFacts
<1>12. (x \o Slash) \o r = x \o y
  <2>1. PICK sl : sl = Slash /\ sl \in Seq(Chars)
    BY SlashIsString
  <2>2. (x \o sl) \o r = x \o (sl \o r)
    <3>1. x \in Seq(Chars) /\ sl \in Seq(Chars) /\ r \in Seq(Chars)
      BY <1>11, <2>1
    <3> QED
      BY <3>1, ConcatThree, Zenon
  <2>3. sl \o r = y
    BY <1>5, <1>10, <2>1
  <2> QED
    BY <2>1, <2>2, <2>3, Zenon
<1>13. PICK z : z = x \o y
  OBVIOUS
<1>14. IsAbsolute(z)
  <2>1. Len(x) >= 1 /\ x[1] = "/"
    BY <1>11, EmptySeq DEF IsAbsolute
  <2>2. PICK m : m = Len(y) /\ m \in Nat
    BY <1>11
  <2>3. Joined(z, x, y, Len(x), m)
    BY <1>11, <1>13, <2>2 DEF Joined
  <2>4. Len(z) = Len(x) + m /\ \A i \in 1 .. Len(x) : z[i] = x[i]
    BY <2>3, JoinedParts
  <2>5. z[1] = "/" /\ Len(z) # Len(<<>>)
    BY <1>11, <2>1, <2>2, <2>4
  <2> QED
    BY <2>5, Zenon DEF IsAbsolute
<1>15. Split(z) = Q \o C
  <2>1. CASE Q = <<>>
    <3>1. x = Slash
      BY <1>10, <2>1, RawRoot
    <3>2. Split(z) = C
      BY <1>2, <1>10, <1>13, <3>1, SplitSlashed
    <3>3. <<>> \o C = C
      BY <1>2, ConcatEmptySeq
    <3> QED
      BY <2>1, <3>2, <3>3
  <2>2. CASE Q # <<>>
    <3>1. PICK R : R = Q \o C
      OBVIOUS
    <3>2. R \in Seq(Component)
      BY <1>2, <3>1, ConcatProperties
    <3>3. Str(R) = z
      BY <1>2, <1>10, <1>13, <2>2, <3>1, StrConcat
    <3> QED
      BY <3>1, <3>2, <3>3, StrFacts
  <2> QED
    BY <2>1, <2>2
<1>16. Q \o C \in Seq(Name)
  BY <1>2, ConcatProperties
<1>17. PathCollapse(Split(z)) = Q \o C
  BY <1>15, <1>16, CollapseNames
<1>18. NewPathHandle(z) = Abs(Q \o C)
  BY <1>14, <1>17, AbsHandles
<1> QED
  BY <1>9, <1>10, <1>12, <1>13, <1>18, AbsPath

\* open() refuses a relative path of which nothing is left.
LEMMA OpenRefusal ==
    ASSUME NEW s \in Seq(Chars), NEW R, R = Split(s)
    PROVE  OpenRefuses(s) <=> ~ IsAbsolute(s) /\ PathCollapse(R) = <<>>
<1>1. PICK C : C = PathCollapse(R)
  OBVIOUS
<1>2. C \in Seq(Name) /\ C \in Seq(Component)
  BY <1>1, SplitType, CollapseType, NamesAreComponents
<1>3. PathCollapse(C) = C
  BY <1>2, CollapseNames
<1>4. CASE IsAbsolute(s)
  <2>1. FormulatePath(NewPathHandle(s)) = Str(C)
    BY <1>1, <1>3, <1>4, AbsHandles, FormulateAbs
  <2>2. IsAbsolute(Str(C))
    BY <1>2, StrFacts
  <2> QED
    BY <1>4, <2>1, <2>2 DEF OpenRefuses, IsAbsolute
<1>5. CASE ~ IsAbsolute(s)
  <2>1. FormulatePath(NewPathHandle(s)) = FormulateRawPath(Rel(C))
    BY <1>1, <1>3, <1>5, RelHandle, CollapsedRel DEF FormulatePath
  <2>2. CASE C = <<>>
    <3>1. PICK u : Writes(Rel(C), u)
      BY <1>2, RelPath, WritesOf
    <3>2. Len(C) = 0
      BY <2>2
    <3>3. Spelt(Rel(C)) = <<>>
      BY <3>1, <3>2, RelPath DEF Writes
    <3>4. FormulateRawPath(Rel(C)) = <<>>
      <4>1. FormulateRawPath(Rel(C)) = IF Len(<<>>) <= 1 THEN <<>> ELSE Front(<<>>)
        BY <3>3, RawIsSpell, Zenon
      <4>2. Len(<<>>) <= 1
        OBVIOUS
      <4> QED
        BY <4>1, <4>2, Zenon
    <3> QED
      BY <1>1, <1>5, <2>1, <2>2, <3>4 DEF OpenRefuses
  <2>3. CASE C # <<>>
    <3>1. FormulateRawPath(Rel(C)) # <<>>
      BY <1>2, <2>3, RelString
    <3> QED
      BY <1>1, <2>1, <2>3, <3>1 DEF OpenRefuses
  <2> QED
    BY <2>2, <2>3
<1> QED
  BY <1>4, <1>5

LEMMA TargetCollapsed ==
    ASSUME NEW Q \in Seq(Name), cwd = Abs(Q), NEW s \in Seq(Chars)
    PROVE  Collapsed(Target(s)).path =
               PathCollapse((IF IsAbsolute(s) THEN <<>> ELSE Q) \o Split(s))
<1>1. CASE IsAbsolute(s)
  <2>1. Target(s) = Abs(Split(s))
    BY <1>1, AbsHandles DEF Target
  <2>2. Collapsed(Target(s)).path = PathCollapse(Split(s))
    BY <2>1, CollapsedAbs, AbsPath
  <2>3. <<>> \o Split(s) = Split(s)
    BY SplitType, ConcatEmptySeq
  <2> QED
    BY <1>1, <2>2, <2>3
<1>2. CASE ~ IsAbsolute(s)
  <2>1. PICK d : d = cwd
    OBVIOUS
  <2>2. d.path = Q
    BY <2>1, AbsPath
  <2>3. AppendPath(d, s) = [d EXCEPT !.path = Q \o Split(s)]
    BY <2>2, Zenon DEF AppendPath
  <2>4. AppendPath(d, s) = Abs(Q \o Split(s))
    BY <2>1, <2>3, AbsExcept, Zenon
  <2>5. Target(s) = Abs(Q \o Split(s))
    BY <1>2, <2>1, <2>4 DEF Target
  <2>6. Collapsed(Target(s)).path = PathCollapse(Q \o Split(s))
    BY <2>5, CollapsedAbs, AbsPath
  <2> QED
    BY <1>2, <2>6
<1> QED
  BY <1>1, <1>2

\* Where the calls go with the string s: path are its components behind the
\* working directory's, down the ones that are left of s alone.
ResolvesAs(s, path, down) ==
    /\ Collapsed(Target(s)).path = Lexical(path)
    /\ OpenRefuses(s) <=> ~ IsAbsolute(s) /\ down = <<>>
    /\ ~ OpenRefuses(s) =>
           OpenHandlePath(s).path =
               IF ~ IsAbsolute(s) /\ Climbs(Runs(s))
               THEN cwd.path \o down ELSE Lexical(path)

LEMMA Resolves ==
    ASSUME NEW Q \in Seq(Name), cwd = Abs(Q), NEW s \in Seq(Chars),
           NEW path, path = (IF IsAbsolute(s) THEN <<>> ELSE cwd.path) \o Runs(s),
           NEW down, down = Lexical(Runs(s))
    PROVE  ResolvesAs(s, path, down)
<1>1. PICK R : R = Runs(s)
  OBVIOUS
<1>2. Split(s) = R /\ R \in Seq(Component)
  BY <1>1, SplitIsRuns, SplitType
<1>3. PICK q : q = IF IsAbsolute(s) THEN <<>> ELSE Q
  OBVIOUS
<1>4. q \in Seq(Name) /\ q \in Seq(Component)
  BY <1>3, NamesAreComponents
<1>5. path = q \o R
  <2>1. cwd.path = Q
    BY AbsPath
  <2> QED
    BY <1>1, <1>3, <2>1, Zenon
<1>6. path \in Seq(Component)
  <2>1. q \o R \in Seq(Component)
    BY <1>2, <1>4, ConcatProperties
  <2> QED
    BY <1>5, <2>1
<1>7. Lexical(path) = PathCollapse(path) /\ Lexical(R) = PathCollapse(R)
  BY <1>2, <1>6, CollapseIsLexical
<1>8. Collapsed(Target(s)).path = Lexical(path)
  BY <1>2, <1>3, <1>5, <1>7, TargetCollapsed
<1>9. OpenRefuses(s) <=> ~ IsAbsolute(s) /\ down = <<>>
  BY <1>1, <1>2, <1>7, OpenRefusal
<1>10. ASSUME ~ OpenRefuses(s)
       PROVE  OpenHandlePath(s).path = IF ~ IsAbsolute(s) /\ Climbs(R)
                                       THEN cwd.path \o down ELSE Lexical(path)
  <2>1. CASE IsAbsolute(s)
    <3>1. <<>> \o R = R
      BY <1>2, ConcatEmptySeq
    <3>2. path = R
      BY <1>3, <1>5, <2>1, <3>1
    <3> QED
      BY <1>2, <1>7, <2>1, <3>2, OpenAbsolute
  <2>2. CASE ~ IsAbsolute(s)
    <3>1. down = PathCollapse(R) /\ down # <<>>
      BY <1>1, <1>7, <1>9, <1>10, <2>2
    <3>2. OpenHandlePath(s).path = Q \o down
      BY <1>2, <2>2, <3>1, OpenRelative
    <3>3. ~ Climbs(R) => PathCollapse(Q \o R) = Q \o down
      BY <1>2, <3>1, CollapseBehind
    <3>4. path = Q \o R
      BY <1>3, <1>5, <2>2
    <3>5. cwd.path = Q
      BY AbsPath
    <3> QED
      BY <1>7, <2>2, <3>2, <3>3, <3>4, <3>5, Zenon
  <2> QED
    BY <2>1, <2>2
<1> QED
  BY <1>1, <1>8, <1>9, <1>10 DEF ResolvesAs

(***************************************************************************)
(* chdir() and mkdir() resolve every string lexically from the working     *)
(* directory; open() refuses the relative ones of which no name is left,   *)
(* resolves those that do not climb above the directory, and puts what is  *)
(* left of the others below it: the loops of Split() and PathCollapse()    *)
(* and the string that open() puts together come to what the definition    *)
(* without loops says.                                                     *)
(***************************************************************************)
THEOREM ResolvesTheorem == Spec => []ResolvesLexically
<1>1. PlacesOK => ResolvesLexically
  <2> SUFFICES ASSUME PlacesOK PROVE ResolvesLexically
    OBVIOUS
  <2>1. PICK Q \in Seq(Name) : cwd = Abs(Q)
    BY DEF PlacesOK, CwdOK
  <2>2. \A s \in Strings : s \in Seq(Chars)
    BY MountManagerAssumption
  <2>3. ASSUME NEW s \in Strings, NEW path, NEW down,
               path = (IF IsAbsolute(s) THEN <<>> ELSE cwd.path) \o Runs(s),
               down = Lexical(Runs(s))
        PROVE  ResolvesAs(s, path, down)
    <3>1. s \in Seq(Chars)
      BY <2>2
    <3>2. path = (IF IsAbsolute(s) THEN <<>> ELSE cwd.path) \o Runs(s)
      BY <2>3, Zenon
    <3>3. down = Lexical(Runs(s))
      BY <2>3, Zenon
    <3>4. cwd = Abs(Q)
      BY <2>1
    <3>5. Q \in Seq(Name)
      BY <2>1
    <3> QED
      BY <3>1, <3>2, <3>3, <3>4, <3>5, Resolves
  <2> QED
    BY <2>3, Zenon DEF ResolvesLexically, ResolvesAs
<1> QED
  BY <1>1, PlacesInvariance, PTL
===============================================================================
