----------------------- MODULE KernelProxyThreadsProofs -----------------------
(***************************************************************************)
(* Proofs about KernelProxy called by several threads, for every finite    *)
(* set of threads, every set of names and every number of inodes and       *)
(* descriptors, as long as no thread closes a descriptor that another one  *)
(* is using.                                                               *)
(***************************************************************************)
EXTENDS KernelProxyThreads, KernelProxyProofs

-------------------------------------------------------------------------------
(* fds_ and open_files_, for tables f and o and calls c.                   *)

\* Ready, and the calls by what they hold.
Filled(f, c) == {d \in Live(f) : \A t \in Threads : c[t].at = "fill" => c[t].fd # d}
Hand(c) == {t \in Threads : c[t].at \in HasHandle}
Filling(c) == {t \in Threads : c[t].at = "fill"}
Closers(c) == {t \in Threads : c[t].at = "free_fd"}
Readers(c) == {t \in Threads : c[t].at \in {"find_handle", "getdents"}}

Blank == [node |-> UNSET, use_count |-> 0]

\* What the handles hold.
HandlesOK(f, o, c) ==
    /\ \A d \in Filled(f, c) : /\ At(f, d).handle \in Live(o)
                               /\ At(o, At(f, d).handle) \in HandleType
    /\ \A t \in Hand(c) :
           /\ c[t].handle \in Live(o)
           /\ c[t].at \in {"alloc_fd", "fill"} => At(o, c[t].handle) = Blank
           /\ c[t].at = "drop" => At(o, c[t].handle) \in HandleType
           /\ c[t].at = "free_handle" => At(o, c[t].handle).use_count = 0

\* Each has one owner.
OneOwner(f, o, c) ==
    /\ \A d, e \in Filled(f, c) : At(f, d).handle = At(f, e).handle => d = e
    /\ \A t, u \in Hand(c) : c[t].handle = c[u].handle => t = u
    /\ \A d \in Filled(f, c), t \in Hand(c) : At(f, d).handle # c[t].handle
    /\ \A h \in Live(o) : \/ \E d \in Filled(f, c) : At(f, d).handle = h
                          \/ \E t \in Hand(c) : c[t].handle = h

\* A descriptor stays as a call found it.
FdsKept(f, c) ==
    /\ \A t \in Filling(c) : c[t].fd \in Live(f)
    /\ \A t, u \in Filling(c) : c[t].fd = c[u].fd => t = u
    /\ \A t \in Closers(c) \cup Readers(c) :
           c[t].fd \in Filled(f, c) /\ At(f, c[t].fd).handle = c[t].handle
    /\ \A t \in Closers(c), u \in Closers(c) \cup Readers(c) :
           c[t].fd = c[u].fd => t = u

Tables(f, o, c) == /\ WellFormed(f) /\ WellFormed(o)
                   /\ HandlesOK(f, o, c) /\ OneOwner(f, o, c) /\ FdsKept(f, c)

\* p is o but for the handle h.
ButFor(o, p, h) == /\ Live(p) \ {h} = Live(o) \ {h}
                   /\ \A k \in Live(o) \ {h} : At(p, k) = At(o, k)

\* One thread takes a step.
Only(c, e, t) == \A u \in Threads \ {t} : e[u] = c[u]

LEMMA LiveInt ==
    ASSUME NEW a, WellFormed(a)
    PROVE  Live(a) \subseteq Int /\ Live(a) \subseteq Index(a)
  BY LiveIsIndex

LEMMA TableNotNull ==
    /\ \A n, k \in Int : [node |-> n, use_count |-> k] # NULL
    /\ \A h \in Int : [handle |-> h] # NULL
<1>1. \A n, k \in Int : [node |-> n, use_count |-> k] \in [node : Int, use_count : Int]
  OBVIOUS
<1>2. \A h \in Int : [handle |-> h] \in [handle : Int]
  OBVIOUS
<1> QED
  BY <1>1, <1>2, NullAssumption

\* A step of a call that holds neither a descriptor nor a handle.
Elsewhere == {"idle", "ref", "alloc_handle", "unref", "rmdir", "unlink"}

LEMMA ElsewhereTables ==
    ASSUME NEW f, NEW o, NEW c, Tables(f, o, c), NEW t \in Threads, NEW e,
           Only(c, e, t), c[t].at \in Elsewhere, e[t].at \in Elsewhere
    PROVE  Tables(f, o, e)
<1>1. /\ Filled(f, e) = Filled(f, c)
      /\ Hand(e) = Hand(c) /\ t \notin Hand(c)
      /\ Filling(e) = Filling(c) /\ t \notin Filling(c)
      /\ Closers(e) = Closers(c) /\ t \notin Closers(c)
      /\ Readers(e) = Readers(c) /\ t \notin Readers(c)
  BY DEF Filled, Hand, HasHandle, Filling, Closers, Readers, Only, Elsewhere
<1>2. \A u \in Hand(c) \cup Filling(c) \cup Closers(c) \cup Readers(c) : e[u] = c[u]
  BY <1>1 DEF Only, Hand, Filling, Closers, Readers
<1>3. HandlesOK(f, o, e)
  BY <1>1, <1>2 DEF Tables, HandlesOK
<1>4. OneOwner(f, o, e)
  BY <1>1, <1>2 DEF Tables, OneOwner
<1>5. FdsKept(f, e)
  BY <1>1, <1>2 DEF Tables, FdsKept
<1> QED
  BY <1>3, <1>4, <1>5 DEF Tables

\* OpenAllocHandle
LEMMA AllocHandleTables ==
    ASSUME NEW f, NEW o, NEW c, Tables(f, o, c), NEW t \in Threads, NEW e,
           Only(c, e, t), c[t].at = "alloc_handle", e[t].at = "alloc_fd",
           e[t].handle = AllocSlot(o)
    PROVE  LET h == AllocSlot(o)
               p == Alloc(o, Blank)
           IN  /\ Tables(f, p, e)
               /\ h \notin Live(o) /\ ButFor(o, p, h) /\ At(p, h) = Blank
<1>1. PICK h, p : h = AllocSlot(o) /\ p = Alloc(o, Blank)
  OBVIOUS
<1>2. WellFormed(o) /\ Live(o) \subseteq Int /\ Blank # NULL
  BY LiveInt, TableNotNull DEF Tables, Blank, UNSET
<1>3. /\ WellFormed(p) /\ h \notin Live(o) /\ Live(p) = Live(o) \cup {h}
      /\ At(p, h) = Blank /\ \A k \in Live(o) : At(p, k) = At(o, k)
  BY <1>1, <1>2, AllocFacts
<1>4. /\ Filled(f, e) = Filled(f, c)
      /\ Hand(e) = Hand(c) \cup {t} /\ t \notin Hand(c)
      /\ Filling(e) = Filling(c) /\ t \notin Filling(c)
      /\ Closers(e) = Closers(c) /\ t \notin Closers(c)
      /\ Readers(e) = Readers(c) /\ t \notin Readers(c)
  BY DEF Filled, Hand, HasHandle, Filling, Closers, Readers, Only
<1>5. \A u \in Hand(c) \cup Filling(c) \cup Closers(c) \cup Readers(c) : e[u] = c[u]
  BY <1>4 DEF Only, Hand, Filling, Closers, Readers
<1>6. HandlesOK(f, p, e)
  BY <1>1, <1>3, <1>4, <1>5 DEF Tables, HandlesOK
<1>7. OneOwner(f, p, e)
  BY <1>1, <1>3, <1>4, <1>5 DEF Tables, HandlesOK, OneOwner
<1>8. FdsKept(f, e)
  BY <1>4, <1>5 DEF Tables, FdsKept
<1>9. ButFor(o, p, h)
  BY <1>3 DEF ButFor
<1>10. Tables(f, p, e)
  BY <1>3, <1>6, <1>7, <1>8 DEF Tables
<1> QED
  BY <1>1, <1>3, <1>9, <1>10

\* OpenAllocFd
LEMMA AllocFdTables ==
    ASSUME NEW f, NEW o, NEW c, Tables(f, o, c), NEW t \in Threads, NEW e,
           Only(c, e, t), c[t].at = "alloc_fd", e[t].at = "fill",
           e[t].handle = c[t].handle, e[t].fd = AllocSlot(f)
    PROVE  Tables(Alloc(f, [handle |-> UNSET]), o, e)
<1>1. PICK d, x, g : d = AllocSlot(f) /\ x = [handle |-> UNSET] /\ g = Alloc(f, x)
  OBVIOUS
<1>2. WellFormed(f) /\ Live(f) \subseteq Int /\ x # NULL
  BY <1>1, LiveInt, TableNotNull DEF Tables, UNSET
<1>3. /\ WellFormed(g) /\ d \notin Live(f) /\ Live(g) = Live(f) \cup {d}
      /\ \A k \in Live(f) : At(g, k) = At(f, k)
  BY <1>1, <1>2, AllocFacts
<1>4. /\ Hand(e) = Hand(c) /\ t \in Hand(c)
      /\ Filling(e) = Filling(c) \cup {t} /\ t \notin Filling(c)
      /\ Closers(e) = Closers(c) /\ t \notin Closers(c)
      /\ Readers(e) = Readers(c) /\ t \notin Readers(c)
  BY DEF Hand, HasHandle, Filling, Closers, Readers, Only
<1>5. /\ \A u \in Filling(c) \cup Closers(c) \cup Readers(c) : e[u] = c[u]
      /\ \A u \in Hand(c) : u # t => e[u] = c[u]
  BY <1>4 DEF Only, Hand, Filling, Closers, Readers
<1>6. Filled(g, e) = Filled(f, c)
  <2>1. \A k \in Live(f) : k # d
    BY <1>3
  <2>2. \A u \in Threads : e[u].at = "fill" <=> c[u].at = "fill" \/ u = t
    BY DEF Only
  <2> QED
    BY <1>1, <1>3, <2>1, <2>2 DEF Filled, Only
<1>7. Filled(f, c) \subseteq Live(f)
  BY DEF Filled
<1>8. HandlesOK(g, o, e)
  BY <1>3, <1>4, <1>5, <1>6, <1>7 DEF Tables, HandlesOK
<1>9. OneOwner(g, o, e)
  BY <1>3, <1>4, <1>5, <1>6, <1>7 DEF Tables, OneOwner
<1>10. FdsKept(g, e)
  BY <1>1, <1>3, <1>4, <1>5, <1>6, <1>7 DEF Tables, FdsKept
<1> QED
  BY <1>1, <1>3, <1>8, <1>9, <1>10 DEF Tables

\* OpenFill
LEMMA FillTables ==
    ASSUME NEW f, NEW o, NEW c, Tables(f, o, c), NEW t \in Threads, NEW e,
           Only(c, e, t), c[t].at = "fill", e[t].at = "idle",
           NEW s \in 0 .. MaxNodes - 1
    PROVE  LET d == c[t].fd
               h == c[t].handle
               y == [node |-> s, use_count |-> 1]
               p == Update(o, h, y)
           IN  /\ Tables(Update(f, d, [handle |-> h]), p, e)
               /\ d \in Live(f) /\ h \in Live(o) /\ At(o, h) = Blank
               /\ h \in Live(p) /\ ButFor(o, p, h) /\ At(p, h) = y
<1>1. PICK d, h : d = c[t].fd /\ h = c[t].handle
  OBVIOUS
<1>2. PICK x, y : x = [handle |-> h] /\ y = [node |-> s, use_count |-> 1]
  OBVIOUS
<1>3. PICK g, p : g = Update(f, d, x) /\ p = Update(o, h, y)
  OBVIOUS
<1>4. /\ WellFormed(f) /\ WellFormed(o) /\ Live(f) \subseteq Int /\ Live(o) \subseteq Int
      /\ t \in Hand(c) /\ t \in Filling(c)
      /\ d \in Live(f) /\ h \in Live(o) /\ At(o, h) = Blank
  BY <1>1, LiveInt DEF Tables, HandlesOK, FdsKept, Hand, HasHandle, Filling
<1>5. x # NULL /\ y # NULL /\ y \in HandleType /\ x.handle = h
  BY <1>2, <1>4, TableNotNull, KernelProxyAssumption DEF HandleType
<1>6. /\ WellFormed(g) /\ Live(g) = Live(f) /\ At(g, d) = x
      /\ \A k \in Live(f) : k # d => At(g, k) = At(f, k)
  BY <1>3, <1>4, <1>5, UpdateFacts
<1>7. /\ WellFormed(p) /\ Live(p) = Live(o) /\ At(p, h) = y
      /\ \A k \in Live(o) : k # h => At(p, k) = At(o, k)
  BY <1>3, <1>4, <1>5, UpdateFacts
<1>8. /\ Hand(e) = Hand(c) \ {t}
      /\ Filling(e) = Filling(c) \ {t}
      /\ Closers(e) = Closers(c) /\ t \notin Closers(c)
      /\ Readers(e) = Readers(c) /\ t \notin Readers(c)
  BY DEF Hand, HasHandle, Filling, Closers, Readers, Only
<1>9. \A u \in Hand(e) \cup Filling(e) \cup Closers(e) \cup Readers(e) : e[u] = c[u]
  BY <1>8 DEF Only, Hand, Filling, Closers, Readers
<1>10. Filled(g, e) = Filled(f, c) \cup {d} /\ d \notin Filled(f, c)
  <2>1. \A u \in Filling(c) : c[u].fd = d => u = t
    BY <1>1, <1>4 DEF Tables, FdsKept
  <2>2. Filled(f, c) = {k \in Live(f) : \A u \in Filling(c) : c[u].fd # k}
    BY DEF Filled, Filling
  <2>3. Filled(g, e) = {k \in Live(f) : \A u \in Filling(e) : e[u].fd # k}
    BY <1>6 DEF Filled, Filling
  <2> QED
    BY <1>1, <1>4, <1>8, <1>9, <2>1, <2>2, <2>3
<1>11. Filled(f, c) \subseteq Live(f)
  BY DEF Filled
<1>12. HandlesOK(g, p, e)
  BY <1>1, <1>4, <1>5, <1>6, <1>7, <1>8, <1>9, <1>10, <1>11
     DEF Tables, HandlesOK, OneOwner
<1>13. OneOwner(g, p, e)
  BY <1>1, <1>4, <1>5, <1>6, <1>7, <1>8, <1>9, <1>10, <1>11 DEF Tables, OneOwner
<1>14. FdsKept(g, e)
  BY <1>4, <1>6, <1>8, <1>9, <1>10, <1>11 DEF Tables, FdsKept
<1>15. Tables(g, p, e)
  BY <1>6, <1>7, <1>12, <1>13, <1>14 DEF Tables
<1>16. ButFor(o, p, h)
  BY <1>7 DEF ButFor
<1> QED
  BY <1>1, <1>2, <1>3, <1>4, <1>7, <1>15, <1>16

\* GetdentsFind and CloseFind: a call finds a descriptor that no close() is on.
LEMMA FindTables ==
    ASSUME NEW f, NEW o, NEW c, Tables(f, o, c), NEW t \in Threads, NEW e,
           Only(c, e, t), c[t].at = "idle", e[t].at \in {"find_handle", "free_fd"},
           e[t].fd \in Filled(f, c), e[t].handle = At(f, e[t].fd).handle,
           \A u \in Closers(c) : c[u].fd # e[t].fd,
           e[t].at = "free_fd" => \A u \in Readers(c) : c[u].fd # e[t].fd
    PROVE  Tables(f, o, e)
<1>1. /\ Filled(f, e) = Filled(f, c)
      /\ Hand(e) = Hand(c) /\ t \notin Hand(c)
      /\ Filling(e) = Filling(c) /\ t \notin Filling(c)
      /\ t \notin Closers(c) /\ t \notin Readers(c)
      /\ Closers(e) = IF e[t].at = "free_fd" THEN Closers(c) \cup {t} ELSE Closers(c)
      /\ Readers(e) = IF e[t].at = "free_fd" THEN Readers(c) ELSE Readers(c) \cup {t}
  BY DEF Filled, Hand, HasHandle, Filling, Closers, Readers, Only
<1>2. \A u \in Hand(c) \cup Filling(c) \cup Closers(c) \cup Readers(c) : e[u] = c[u]
  BY <1>1 DEF Only, Hand, Filling, Closers, Readers
<1>3. HandlesOK(f, o, e)
  BY <1>1, <1>2 DEF Tables, HandlesOK
<1>4. OneOwner(f, o, e)
  BY <1>1, <1>2 DEF Tables, OneOwner
<1>5. FdsKept(f, e)
  BY <1>1, <1>2 DEF Tables, FdsKept
<1> QED
  BY <1>3, <1>4, <1>5 DEF Tables

\* GetdentsHandle and GetdentsCall: it goes on, or returns.
LEMMA ReadTables ==
    ASSUME NEW f, NEW o, NEW c, Tables(f, o, c), NEW t \in Threads, NEW e,
           Only(c, e, t), t \in Readers(c),
           \/ e[t].at = "idle"
           \/ e[t].at = "getdents" /\ e[t].fd = c[t].fd /\ e[t].handle = c[t].handle
    PROVE  Tables(f, o, e)
<1>1. /\ Filled(f, e) = Filled(f, c)
      /\ Hand(e) = Hand(c) /\ t \notin Hand(c)
      /\ Filling(e) = Filling(c) /\ t \notin Filling(c)
      /\ Closers(e) = Closers(c) /\ t \notin Closers(c)
      /\ Readers(e) \subseteq Readers(c)
  BY DEF Filled, Hand, HasHandle, Filling, Closers, Readers, Only
<1>2. /\ \A u \in Hand(c) \cup Filling(c) \cup Closers(c) : e[u] = c[u]
      /\ \A u \in Readers(e) : e[u].fd = c[u].fd /\ e[u].handle = c[u].handle
  BY <1>1 DEF Only, Hand, Filling, Closers, Readers
<1>3. HandlesOK(f, o, e)
  BY <1>1, <1>2 DEF Tables, HandlesOK
<1>4. OneOwner(f, o, e)
  BY <1>1, <1>2 DEF Tables, OneOwner
<1>5. FdsKept(f, e)
  BY <1>1, <1>2 DEF Tables, FdsKept
<1> QED
  BY <1>3, <1>4, <1>5 DEF Tables

\* CloseFreeFd: the handle passes from the descriptor to the call.
LEMMA FreeFdTables ==
    ASSUME NEW f, NEW o, NEW c, Tables(f, o, c), NEW t \in Threads, NEW e,
           Only(c, e, t), c[t].at = "free_fd", e[t].at = "drop",
           e[t].handle = c[t].handle
    PROVE  Tables(Free(f, c[t].fd), o, e)
<1>1. PICK d, g : d = c[t].fd /\ g = Free(f, d)
  OBVIOUS
<1>2. /\ WellFormed(f) /\ Live(f) \subseteq Int /\ Live(f) \subseteq Index(f)
      /\ t \in Closers(c) /\ d \in Filled(f, c) /\ At(f, d).handle = c[t].handle
  BY <1>1, LiveInt DEF Tables, FdsKept, Closers
<1>3. Filled(f, c) \subseteq Live(f)
  BY DEF Filled
<1>4. /\ WellFormed(g) /\ Live(g) = Live(f) \ {d}
      /\ \A k \in Live(g) : At(g, k) = At(f, k)
  BY <1>1, <1>2, <1>3, FreeFacts
<1>5. /\ Hand(e) = Hand(c) \cup {t} /\ t \notin Hand(c)
      /\ Filling(e) = Filling(c) /\ t \notin Filling(c)
      /\ Closers(e) = Closers(c) \ {t}
      /\ Readers(e) = Readers(c) /\ t \notin Readers(c)
  BY DEF Hand, HasHandle, Filling, Closers, Readers, Only
<1>6. \A u \in Hand(c) \cup Filling(e) \cup Closers(e) \cup Readers(e) : e[u] = c[u]
  BY <1>5 DEF Only, Hand, Filling, Closers, Readers
<1>7. Filled(g, e) = Filled(f, c) \ {d}
  BY <1>4, <1>5, <1>6 DEF Filled, Filling, Only
<1>8. HandlesOK(g, o, e)
  BY <1>2, <1>3, <1>4, <1>5, <1>6, <1>7 DEF Tables, HandlesOK
<1>9. OneOwner(g, o, e)
  <2>1. OneOwner(f, o, c)
    BY DEF Tables
  <2>2. \A k \in Filled(g, e) : k # d /\ k \in Filled(f, c) /\ At(g, k) = At(f, k)
    BY <1>3, <1>4, <1>7
  <2>3. /\ \A k, l \in Filled(g, e) : At(g, k).handle = At(g, l).handle => k = l
        /\ \A k \in Filled(g, e), u \in Hand(e) : At(g, k).handle # e[u].handle
        /\ \A u, v \in Hand(e) : e[u].handle = e[v].handle => u = v
    BY <1>2, <1>5, <1>6, <2>1, <2>2 DEF OneOwner
  <2>4. ASSUME NEW h \in Live(o)
        PROVE  \/ \E k \in Filled(g, e) : At(g, k).handle = h
               \/ \E u \in Hand(e) : e[u].handle = h
    <3>1. CASE \E k \in Filled(f, c) : At(f, k).handle = h
      BY <1>2, <1>5, <1>7, <2>2, <3>1
    <3>2. CASE \E u \in Hand(c) : c[u].handle = h
      BY <1>5, <1>6, <3>2
    <3> QED
      BY <2>1, <3>1, <3>2 DEF OneOwner
  <2> QED
    BY <2>3, <2>4 DEF OneOwner
<1>10. FdsKept(g, e)
  <2>1. \A u \in Closers(e) \cup Readers(e) : c[u].fd # d
    BY <1>1, <1>2, <1>5 DEF Tables, FdsKept
  <2>2. \A u \in Filling(c) : c[u].fd # d
    BY <1>2 DEF Filled, Filling
  <2> QED
    BY <1>3, <1>4, <1>5, <1>6, <1>7, <2>1, <2>2 DEF Tables, FdsKept
<1> QED
  BY <1>1, <1>4, <1>8, <1>9, <1>10 DEF Tables

\* CloseDrop
LEMMA DropTables ==
    ASSUME NEW f, NEW o, NEW c, Tables(f, o, c), NEW t \in Threads, NEW e,
           Only(c, e, t), c[t].at = "drop", e[t].at = "free_handle",
           e[t].handle = c[t].handle
    PROVE  LET h == c[t].handle
               p == Update(o, h, [At(o, h) EXCEPT !.use_count = 0])
           IN  /\ Tables(f, p, e)
               /\ h \in Live(o) /\ At(o, h) \in HandleType
               /\ ButFor(o, p, h) /\ At(p, h).use_count = 0
<1>1. PICK h : h = c[t].handle
  OBVIOUS
<1>2. /\ WellFormed(o) /\ Live(o) \subseteq Int
      /\ t \in Hand(c) /\ h \in Live(o) /\ At(o, h) \in HandleType
  BY <1>1, LiveInt DEF Tables, HandlesOK, Hand, HasHandle
<1>3. PICK y, p : y = [At(o, h) EXCEPT !.use_count = 0] /\ p = Update(o, h, y)
  OBVIOUS
<1>4. y # NULL /\ y.use_count = 0
  <2>1. y = [node |-> At(o, h).node, use_count |-> 0] /\ At(o, h).node \in Int
    BY <1>2, <1>3, KernelProxyAssumption DEF HandleType
  <2> QED
    BY <2>1, TableNotNull
<1>5. /\ WellFormed(p) /\ Live(p) = Live(o) /\ At(p, h) = y
      /\ \A k \in Live(o) : k # h => At(p, k) = At(o, k)
  BY <1>2, <1>3, <1>4, UpdateFacts
<1>6. /\ Filled(f, e) = Filled(f, c)
      /\ Hand(e) = Hand(c)
      /\ Filling(e) = Filling(c) /\ t \notin Filling(c)
      /\ Closers(e) = Closers(c) /\ t \notin Closers(c)
      /\ Readers(e) = Readers(c) /\ t \notin Readers(c)
  BY DEF Filled, Hand, HasHandle, Filling, Closers, Readers, Only
<1>7. /\ \A u \in Filling(c) \cup Closers(c) \cup Readers(c) : e[u] = c[u]
      /\ \A u \in Hand(c) : e[u].handle = c[u].handle /\ (u # t => e[u] = c[u])
  BY <1>6 DEF Only, Hand, Filling, Closers, Readers
<1>8. HandlesOK(f, p, e)
  BY <1>1, <1>2, <1>4, <1>5, <1>6, <1>7 DEF Tables, HandlesOK, OneOwner
<1>9. OneOwner(f, p, e)
  BY <1>5, <1>6, <1>7 DEF Tables, OneOwner
<1>10. FdsKept(f, e)
  BY <1>6, <1>7 DEF Tables, FdsKept
<1>11. Tables(f, p, e)
  BY <1>5, <1>8, <1>9, <1>10 DEF Tables
<1>12. ButFor(o, p, h)
  BY <1>5 DEF ButFor
<1> QED
  BY <1>1, <1>2, <1>3, <1>4, <1>5, <1>11, <1>12

\* CloseFreeHandle
LEMMA FreeHandleTables ==
    ASSUME NEW f, NEW o, NEW c, Tables(f, o, c), NEW t \in Threads, NEW e,
           Only(c, e, t), c[t].at = "free_handle", e[t].at = "unref"
    PROVE  LET h == c[t].handle
               p == Free(o, h)
           IN  /\ Tables(f, p, e)
               /\ h \in Live(o) /\ At(o, h).use_count = 0
               /\ h \notin Live(p) /\ ButFor(o, p, h)
<1>1. PICK h, p : h = c[t].handle /\ p = Free(o, h)
  OBVIOUS
<1>2. /\ WellFormed(o) /\ Live(o) \subseteq Int /\ Live(o) \subseteq Index(o)
      /\ t \in Hand(c) /\ h \in Live(o) /\ At(o, h).use_count = 0
  BY <1>1, LiveInt DEF Tables, HandlesOK, Hand, HasHandle
<1>3. /\ WellFormed(p) /\ Live(p) = Live(o) \ {h}
      /\ \A k \in Live(p) : At(p, k) = At(o, k)
  BY <1>1, <1>2, FreeFacts
<1>4. /\ Filled(f, e) = Filled(f, c)
      /\ Hand(e) = Hand(c) \ {t}
      /\ Filling(e) = Filling(c) /\ t \notin Filling(c)
      /\ Closers(e) = Closers(c) /\ t \notin Closers(c)
      /\ Readers(e) = Readers(c) /\ t \notin Readers(c)
  BY DEF Filled, Hand, HasHandle, Filling, Closers, Readers, Only
<1>5. \A u \in Hand(e) \cup Filling(c) \cup Closers(c) \cup Readers(c) : e[u] = c[u]
  BY <1>4 DEF Only, Hand, Filling, Closers, Readers
<1>6. HandlesOK(f, p, e)
  BY <1>1, <1>2, <1>3, <1>4, <1>5 DEF Tables, HandlesOK, OneOwner
<1>7. OneOwner(f, p, e)
  BY <1>1, <1>2, <1>3, <1>4, <1>5 DEF Tables, OneOwner
<1>8. FdsKept(f, e)
  BY <1>4, <1>5 DEF Tables, FdsKept
<1>9. Tables(f, p, e)
  BY <1>3, <1>6, <1>7, <1>8 DEF Tables
<1>10. ButFor(o, p, h)
  BY <1>3 DEF ButFor
<1> QED
  BY <1>1, <1>2, <1>3, <1>9, <1>10

\* The handle getdents() found is none that another call makes or gets rid of.
LEMMA ReaderHandle ==
    ASSUME NEW f, NEW o, NEW c, Tables(f, o, c), NEW t \in Readers(c)
    PROVE  /\ c[t].handle \in Live(o) /\ At(o, c[t].handle) \in HandleType
           /\ \A u \in Hand(c) : c[u].handle # c[t].handle
<1>1. c[t].fd \in Filled(f, c) /\ At(f, c[t].fd).handle = c[t].handle
  BY DEF Tables, FdsKept
<1> QED
  BY <1>1 DEF Tables, HandlesOK, OneOwner

-------------------------------------------------------------------------------
(* The users of the inodes: handles, and calls that hold a count.          *)

InUse(o) == {h \in Live(o) : At(o, h).use_count > 0}
Holding(c) == {t \in Threads : c[t].at \in Holds}

AllUsers(o, c) ==
    [x \in ({"handle"} \X InUse(o)) \cup ({"call"} \X Holding(c)) |->
        IF x[1] = "handle" THEN At(o, x[2]).node ELSE c[x[2]].node]

LEMMA UsersKept ==
    ASSUME NEW o, NEW p, NEW c, NEW e, InUse(p) = InUse(o), Holding(e) = Holding(c),
           \A h \in InUse(o) : At(p, h).node = At(o, h).node,
           \A t \in Holding(c) : e[t].node = c[t].node
    PROVE  AllUsers(p, e) = AllUsers(o, c)
  BY DEF AllUsers

LEMMA AllUsersFinite ==
    ASSUME NEW o, WellFormed(o), NEW c
    PROVE  /\ IsFiniteSet(InUse(o)) /\ IsFiniteSet(Holding(c))
           /\ IsFiniteSet(DOMAIN AllUsers(o, c))
<1>1. InUse(o) \in SUBSET (0 .. o.size - 1) /\ o.size - 1 \in Int
  BY LiveIsIndex DEF WellFormed, Index, InUse
<1>2. IsFiniteSet(0 .. o.size - 1)
  BY <1>1, FS_Interval
<1>3. IsFiniteSet(InUse(o))
  BY <1>1, <1>2, FS_Subset
<1>4. IsFiniteSet(Holding(c))
  <2>1. Holding(c) \in SUBSET Threads
    BY DEF Holding
  <2> QED
    BY <2>1, ThreadsAssumption, FS_Subset
<1>5. IsFiniteSet({"handle"}) /\ IsFiniteSet({"call"})
  BY FS_Singleton
<1>6. IsFiniteSet({"handle"} \X InUse(o)) /\ IsFiniteSet({"call"} \X Holding(c))
  BY <1>3, <1>4, <1>5, FS_Product
<1>7. IsFiniteSet(({"handle"} \X InUse(o)) \cup ({"call"} \X Holding(c)))
  BY <1>6, FS_Union
<1> QED
  BY <1>3, <1>4, <1>7 DEF AllUsers

\* One more call, or one more handle.
LEMMA MoreCall ==
    ASSUME NEW o, NEW c, NEW e, NEW t \in Threads, Only(c, e, t),
           c[t].at \notin Holds, e[t].at \in Holds
    PROVE  /\ More(AllUsers(o, c), AllUsers(o, e), <<"call", t>>)
           /\ AllUsers(o, e)[<<"call", t>>] = e[t].node
<1>1. /\ Holding(e) = Holding(c) \cup {t} /\ t \notin Holding(c)
      /\ \A v \in Holding(c) : e[v] = c[v]
  BY DEF Holding, Only
<1>2. PICK u, v : u = AllUsers(o, c) /\ v = AllUsers(o, e)
  OBVIOUS
<1>3. /\ DOMAIN u = ({"handle"} \X InUse(o)) \cup ({"call"} \X Holding(c))
      /\ \A h \in InUse(o) : u[<<"handle", h>>] = At(o, h).node
      /\ \A x \in Holding(c) : u[<<"call", x>>] = c[x].node
  BY <1>2 DEF AllUsers
<1>4. /\ DOMAIN v = ({"handle"} \X InUse(o)) \cup ({"call"} \X Holding(e))
      /\ \A h \in InUse(o) : v[<<"handle", h>>] = At(o, h).node
      /\ \A x \in Holding(e) : v[<<"call", x>>] = e[x].node
  BY <1>2 DEF AllUsers
<1>5. DOMAIN v = DOMAIN u \cup {<<"call", t>>} /\ <<"call", t>> \notin DOMAIN u
  BY <1>1, <1>3, <1>4
<1>6. \A y \in DOMAIN u : v[y] = u[y]
  BY <1>1, <1>3, <1>4
<1> QED
  BY <1>1, <1>2, <1>4, <1>5, <1>6 DEF More

LEMMA MoreHandle ==
    ASSUME NEW o, NEW p, NEW c, NEW h, ButFor(o, p, h),
           h \notin InUse(o), h \in InUse(p)
    PROVE  /\ More(AllUsers(o, c), AllUsers(p, c), <<"handle", h>>)
           /\ AllUsers(p, c)[<<"handle", h>>] = At(p, h).node
<1>1. /\ InUse(p) = InUse(o) \cup {h}
      /\ \A k \in InUse(o) : At(p, k) = At(o, k)
  BY DEF InUse, ButFor
<1>2. PICK u, v : u = AllUsers(o, c) /\ v = AllUsers(p, c)
  OBVIOUS
<1>3. /\ DOMAIN u = ({"handle"} \X InUse(o)) \cup ({"call"} \X Holding(c))
      /\ \A k \in InUse(o) : u[<<"handle", k>>] = At(o, k).node
      /\ \A x \in Holding(c) : u[<<"call", x>>] = c[x].node
  BY <1>2 DEF AllUsers
<1>4. /\ DOMAIN v = ({"handle"} \X InUse(p)) \cup ({"call"} \X Holding(c))
      /\ \A k \in InUse(p) : v[<<"handle", k>>] = At(p, k).node
      /\ \A x \in Holding(c) : v[<<"call", x>>] = c[x].node
  BY <1>2 DEF AllUsers
<1>5. DOMAIN v = DOMAIN u \cup {<<"handle", h>>} /\ <<"handle", h>> \notin DOMAIN u
  BY <1>1, <1>3, <1>4
<1>6. \A y \in DOMAIN u : v[y] = u[y]
  BY <1>1, <1>3, <1>4
<1> QED
  BY <1>1, <1>2, <1>4, <1>5, <1>6 DEF More

\* A thread keeps its count, or has none before and after.
Same(c, e, t) == \/ c[t].at \notin Holds /\ e[t].at \notin Holds
                 \/ c[t].at \in Holds /\ e[t].at \in Holds /\ e[t].node = c[t].node

LEMMA SameUsers ==
    ASSUME NEW o, NEW c, NEW t \in Threads, NEW e, Only(c, e, t), Same(c, e, t)
    PROVE  /\ AllUsers(o, e) = AllUsers(o, c)
           /\ \A p, h : ButFor(o, p, h) /\ h \notin InUse(o) /\ h \notin InUse(p)
                  => AllUsers(p, e) = AllUsers(o, c)
<1>1. /\ Holding(e) = Holding(c)
      /\ \A u \in Holding(c) : e[u].node = c[u].node
  BY DEF Holding, Only, Same
<1>2. AllUsers(o, e) = AllUsers(o, c)
  BY <1>1, UsersKept
<1>3. ASSUME NEW p, NEW h, ButFor(o, p, h), h \notin InUse(o), h \notin InUse(p)
      PROVE  AllUsers(p, e) = AllUsers(o, c)
  <2>1. InUse(p) = InUse(o) /\ \A k \in InUse(o) : At(p, k) = At(o, k)
    BY <1>3 DEF InUse, ButFor
  <2> QED
    BY <1>1, <2>1, UsersKept
<1> QED
  BY <1>2, <1>3

\* A user passes its count on to another one.
LEMMA SwapWhole ==
    ASSUME NEW a, NEW u, Whole(a, u), NEW w, IsFiniteSet(DOMAIN w),
           NEW x, More(w, u, x), NEW v, NEW y, More(w, v, y), v[y] = u[x]
    PROVE  Whole(a, v)
<1>1. \A s : Cardinality(On(u, s)) = Cardinality(On(v, s))
  <2>1. PICK s : s = u[x] /\ s = v[y]
    OBVIOUS
  <2>2. Cardinality(On(u, s)) = Cardinality(On(w, s)) + 1
    BY <2>1, OnMore
  <2>3. Cardinality(On(v, s)) = Cardinality(On(w, s)) + 1
    BY <2>1, OnMore
  <2>4. \A t : t # s => On(u, t) = On(w, t)
    BY <2>1, OnMore
  <2>5. \A t : t # s => On(v, t) = On(w, t)
    BY <2>1, OnMore
  <2> QED
    BY <2>2, <2>3, <2>4, <2>5
<1>2. \A s : Uses(a, v, s) = Uses(a, u, s)
  BY <1>1 DEF Uses
<1>3. Held(a, v)
  BY DEF Whole, Held, More
<1> QED
  BY <1>2, <1>3 DEF Whole, Counted

\* How many there are.
HandlesAt(o, s) == {h \in InUse(o) : At(o, h).node = s}
CallsAt(c, s) == {t \in Holding(c) : c[t].node = s}

LEMMA OnAllUsers ==
    ASSUME NEW o, WellFormed(o), NEW c, NEW s
    PROVE  LET on == On(AllUsers(o, c), s)
           IN  /\ Cardinality(on) = Cardinality(HandlesAt(o, s)) + Cardinality(CallsAt(c, s))
               /\ on = {} <=> HandlesAt(o, s) = {} /\ CallsAt(c, s) = {}
<1> DEFINE H == HandlesAt(o, s)
           C == CallsAt(c, s)
<1>1. PICK u : u = AllUsers(o, c)
  OBVIOUS
<1>2. /\ DOMAIN u = ({"handle"} \X InUse(o)) \cup ({"call"} \X Holding(c))
      /\ \A h \in InUse(o) : u[<<"handle", h>>] = At(o, h).node
      /\ \A t \in Holding(c) : u[<<"call", t>>] = c[t].node
  BY <1>1 DEF AllUsers
<1>3. On(u, s) = ({"handle"} \X H) \cup ({"call"} \X C)
  BY <1>2 DEF On, HandlesAt, CallsAt
<1>4. IsFiniteSet(H) /\ IsFiniteSet(C)
  <2>1. H \in SUBSET InUse(o) /\ C \in SUBSET Holding(c)
    BY DEF HandlesAt, CallsAt
  <2>2. IsFiniteSet(InUse(o)) /\ IsFiniteSet(Holding(c))
    BY AllUsersFinite
  <2> QED
    BY <2>1, <2>2, FS_Subset
<1> HIDE DEF H, C
<1>5. \A S, str : IsFiniteSet(S) => /\ IsFiniteSet({str} \X S)
                                    /\ Cardinality({str} \X S) = Cardinality(S)
  <2> SUFFICES ASSUME NEW S, NEW str, IsFiniteSet(S)
               PROVE  /\ IsFiniteSet({str} \X S)
                      /\ Cardinality({str} \X S) = Cardinality(S)
    OBVIOUS
  <2>1. IsFiniteSet({str}) /\ Cardinality({str}) = 1 /\ Cardinality(S) \in Nat
    BY FS_Singleton, FS_CardinalityType
  <2>2. /\ IsFiniteSet({str} \X S)
        /\ Cardinality({str} \X S) = Cardinality({str}) * Cardinality(S)
    BY <2>1, FS_Product
  <2> QED
    BY <2>1, <2>2
<1>6. ({"handle"} \X H) \cap ({"call"} \X C) = {}
  OBVIOUS
<1>7. Cardinality(On(u, s)) = Cardinality(H) + Cardinality(C)
  <2>1. PICK A, B : A = {"handle"} \X H /\ B = {"call"} \X C
    OBVIOUS
  <2>2. /\ IsFiniteSet(A) /\ IsFiniteSet(B) /\ A \cap B = {}
        /\ Cardinality(A) = Cardinality(H) /\ Cardinality(B) = Cardinality(C)
    BY <1>4, <1>5, <1>6, <2>1
  <2>3. Cardinality(A \cup B)
            = Cardinality(A) + Cardinality(B) - Cardinality(A \cap B)
    BY <2>2, FS_Union
  <2>4. /\ Cardinality(A \cap B) = 0
        /\ Cardinality(A) \in Nat /\ Cardinality(B) \in Nat
    BY <2>2, FS_EmptySet, FS_CardinalityType
  <2> QED
    BY <1>3, <2>1, <2>2, <2>3, <2>4
<1>8. On(u, s) = {} <=> H = {} /\ C = {}
  <2>1. \A h \in H : <<"handle", h>> \in On(u, s)
    BY <1>3
  <2>2. \A t \in C : <<"call", t>> \in On(u, s)
    BY <1>3
  <2>3. H = {} /\ C = {} => On(u, s) = {}
    BY <1>3
  <2> QED
    BY <2>1, <2>2, <2>3
<1> QED
  BY <1>1, <1>7, <1>8 DEF H, C

-------------------------------------------------------------------------------
(* The invariant.                                                          *)

Points == {"idle", "ref", "alloc_handle", "alloc_fd", "fill", "free_fd", "drop",
           "free_handle", "unref", "rmdir", "unlink", "find_handle", "getdents"}

CallType == [at : Points, path : Paths, node : Int, handle : Int, fd : Int]

\* Where the call knows an inode number.
Knows == Holds \cup {"ref", "rmdir", "getdents"}

\* What every step keeps.
TBasic ==
    /\ Typed(nodes) /\ status \in {"ok", "crashed"} /\ early \in BOOLEAN
    /\ call \in [Threads -> CallType]
    /\ \A t \in Threads : call[t].at \in Knows => call[t].node \in 0 .. MaxNodes - 1
    /\ Tables(fds, open_files, call)

\* What every step keeps that frees no inode early: the tree, its users and
\* the counts agree, and an open() that is half done is about to Ref() an
\* inode that exists.
Intact ==
    /\ status = "ok" /\ Whole(nodes, AllUsers(open_files, call))
    /\ \A t \in Threads : call[t].at = "ref" => call[t].node \in Live(nodes)

TInv == TBasic /\ (early \/ Intact)

NoRace == "close_race" \notin Unguarded

LEMMA IdleType == Idle \in CallType /\ Idle.at = "idle"
<1>1. <<>> \in Paths
  <2>1. <<>> \in [1 .. 0 -> Names]
    OBVIOUS
  <2>2. 0 \in 0 .. MaxDepth
    BY KernelProxyAssumption
  <2> QED
    BY <2>1, <2>2 DEF Paths
<1> QED
  BY <1>1 DEF Idle, CallType, Points, UNSET

LEMMA Moves ==
    ASSUME TBasic, NEW t \in Threads, NEW x \in CallType,
           call' = [call EXCEPT ![t] = x],
           x.at \in Knows => x.node \in 0 .. MaxNodes - 1
    PROVE  /\ call' \in [Threads -> CallType]
           /\ call'[t] = x /\ Only(call, call', t)
           /\ \A u \in Threads :
                  call'[u].at \in Knows => call'[u].node \in 0 .. MaxNodes - 1
  BY DEF TBasic, Only

\* A call of the mount, by a thread that holds nothing before or after it.
LEMMA MountStepInv ==
    ASSUME TInv, NEW t \in Threads, NEW x \in CallType,
           call' = [call EXCEPT ![t] = x],
           x.at \in Knows => x.node \in 0 .. MaxNodes - 1,
           call[t].at \in Elsewhere \ Holds, x.at \in Elsewhere \ Holds,
           NEW r, MountCall(r), Typed(r.fs), early' \in BOOLEAN,
           ~ early' => /\ ~ early
                       /\ Whole(r.fs, AllUsers(open_files, call)) /\ r.err # "CRASH"
                       /\ \A u \in Threads : call[u].at = "ref" /\ u # t =>
                              call[u].node \in Live(r.fs)
                       /\ x.at = "ref" => x.node \in Live(r.fs)
    PROVE  TInv'
<1>0. TBasic
  BY DEF TInv
<1>1. /\ call' \in [Threads -> CallType]
      /\ call'[t] = x /\ Only(call, call', t)
      /\ \A u \in Threads :
             call'[u].at \in Knows => call'[u].node \in 0 .. MaxNodes - 1
  BY <1>0, Moves
<1>2. /\ nodes' = r.fs /\ fds' = fds /\ open_files' = open_files
      /\ status' = IF r.err = "CRASH" THEN "crashed" ELSE "ok"
  BY DEF MountCall
<1>3. Tables(fds, open_files, call')
  BY <1>0, <1>1, ElsewhereTables DEF TBasic, Elsewhere
<1>4. TBasic'
  BY <1>0, <1>1, <1>2, <1>3 DEF TBasic
<1>5. ASSUME ~ early'
      PROVE  Intact'
  <2>1. AllUsers(open_files, call') = AllUsers(open_files, call)
    <3>1. Same(call, call', t)
      BY <1>1 DEF Same
    <3> QED
      BY <1>1, <3>1, SameUsers
  <2>2. Whole(nodes', AllUsers(open_files', call')) /\ status' = "ok"
    BY <1>2, <1>5, <2>1
  <2>3. \A u \in Threads : call'[u].at = "ref" => call'[u].node \in Live(nodes')
    BY <1>1, <1>2, <1>5 DEF Only
  <2> QED
    BY <2>2, <2>3 DEF Intact
<1> QED
  BY <1>4, <1>5 DEF TInv

\* A step that does not touch the mount.
LEMMA TableStepInv ==
    ASSUME TInv, NEW t \in Threads, NEW x \in CallType,
           call' = [call EXCEPT ![t] = x],
           x.at \in Knows => x.node \in 0 .. MaxNodes - 1, x.at # "ref",
           nodes' = nodes, early' = early, status' \in {"ok", "crashed"},
           Tables(fds', open_files', call'),
           Intact => /\ status' = "ok"
                     /\ Whole(nodes, AllUsers(open_files', call'))
    PROVE  TInv'
<1>0. TBasic
  BY DEF TInv
<1>1. /\ call' \in [Threads -> CallType]
      /\ call'[t] = x /\ Only(call, call', t)
      /\ \A u \in Threads :
             call'[u].at \in Knows => call'[u].node \in 0 .. MaxNodes - 1
  BY <1>0, Moves
<1>2. TBasic'
  BY <1>0, <1>1 DEF TBasic
<1>3. ASSUME Intact
      PROVE  Intact'
  BY <1>1, <1>3 DEF Intact, Only
<1> QED
  BY <1>2, <1>3 DEF TInv

-------------------------------------------------------------------------------
(* open()                                                                  *)

LEMMA OpenFindInv ==
    ASSUME TInv, NEW t \in Threads, NEW path \in Paths, NEW flags \in {0, 1},
           OpenFind(t, path, flags)
    PROVE  TInv'
<1>0. /\ Typed(nodes) /\ call \in [Threads -> CallType] /\ early \in BOOLEAN
      /\ path \in Seq(Names) /\ WellFormed(open_files)
  BY PathType DEF TInv, TBasic, Tables
<1>1. PICK r : r = Found(nodes, path, flags)
  OBVIOUS
<1>2. PICK x : x = IF r.err = "OK" THEN [Idle EXCEPT !.at = "ref", !.node = r.slot]
                   ELSE Idle
  OBVIOUS
<1>3. /\ path # <<>> /\ MountCall(r) /\ early' = early /\ call[t].at = "idle"
      /\ call' = [call EXCEPT ![t] = x]
  BY <1>1, <1>2, Zenon DEF OpenFind, Found, Goes
<1>4. r.fs.size <= MaxNodes
  BY <1>3 DEF MountCall
<1>5. /\ Typed(r.fs) /\ Live(nodes) \subseteq Live(r.fs)
      /\ r.err = "OK" => r.slot \in Live(r.fs) /\ r.slot \in 0 .. MaxNodes - 1
  BY <1>0, <1>1, <1>3, <1>4, FoundType
<1>6. /\ x \in CallType /\ x.at \in {"idle", "ref"}
      /\ x.at = "ref" => x.node \in Live(r.fs) /\ x.node \in 0 .. MaxNodes - 1
  <2>1. CASE r.err = "OK"
    <3>1. r.slot \in Int
      BY <1>5, <2>1, KernelProxyAssumption
    <3> QED
      BY <1>2, <1>5, <2>1, <3>1, IdleType DEF CallType, Points
  <2>2. CASE r.err # "OK"
    BY <1>2, <2>2, IdleType
  <2> QED
    BY <2>1, <2>2
<1>7. "idle" \in Elsewhere \ Holds /\ "ref" \in Elsewhere \ Holds /\ "idle" \notin Knows
  BY DEF Elsewhere, Holds, Knows
<1>8. ASSUME ~ early
      PROVE  /\ Whole(r.fs, AllUsers(open_files, call)) /\ r.err # "CRASH"
             /\ \A u \in Threads : call[u].at = "ref" => call[u].node \in Live(r.fs)
  <2>1. Intact
    BY <1>8 DEF TInv
  <2>2. IsFiniteSet(DOMAIN AllUsers(open_files, call))
    BY <1>0, AllUsersFinite
  <2> QED
    BY <1>0, <1>1, <1>3, <1>4, <1>5, <2>1, <2>2, FoundWhole DEF Intact
<1> QED
  BY <1>0, <1>3, <1>5, <1>6, <1>7, <1>8, MountStepInv

LEMMA OpenRefInv ==
    ASSUME TInv, NEW t \in Threads, OpenRef(t)
    PROVE  TInv'
<1>0. /\ TBasic /\ Typed(nodes) /\ call \in [Threads -> CallType]
      /\ WellFormed(open_files)
  BY DEF TInv, TBasic, Tables
<1>1. PICK x : x = [call[t] EXCEPT !.at = "alloc_handle"]
  OBVIOUS
<1>2. /\ call[t].at = "ref" /\ nodes' = Ref(nodes, call[t].node)
      /\ call' = [call EXCEPT ![t] = x] /\ status' = status
      /\ UNCHANGED <<fds, open_files, early>>
  BY <1>1, Zenon DEF OpenRef, Goes
<1>3. PICK s : s = call[t].node
  OBVIOUS
<1>4. /\ x \in CallType /\ x.at = "alloc_handle" /\ x.node = s
      /\ s \in 0 .. MaxNodes - 1
  <2>1. s \in 0 .. MaxNodes - 1
    BY <1>0, <1>2, <1>3 DEF TBasic, Knows
  <2>2. call[t] \in CallType
    BY <1>0
  <2> QED
    BY <1>1, <1>3, <2>1, <2>2 DEF CallType, Points
<1>5. /\ call' \in [Threads -> CallType]
      /\ call'[t] = x /\ Only(call, call', t)
      /\ \A u \in Threads :
             call'[u].at \in Knows => call'[u].node \in 0 .. MaxNodes - 1
  BY <1>0, <1>2, <1>4, Moves
<1>6. Tables(fds, open_files, call')
  BY <1>0, <1>2, <1>4, <1>5, ElsewhereTables DEF TBasic, Elsewhere
<1>7. Typed(nodes')
  <2>1. CASE At(nodes, s) = NULL
    BY <1>0, <1>2, <1>3, <2>1 DEF Ref
  <2>2. CASE At(nodes, s) # NULL
    <3>1. s \in Live(nodes)
      BY <1>0, <1>4, <2>2, SlotLive
    <3> QED
      BY <1>0, <1>2, <1>3, <3>1, RefFacts
  <2> QED
    BY <2>1, <2>2
<1>8. TBasic'
  BY <1>0, <1>2, <1>5, <1>6, <1>7 DEF TBasic
<1>9. ASSUME Intact
      PROVE  Intact'
  <2>1. PICK u, v : u = AllUsers(open_files, call) /\ v = AllUsers(open_files, call')
    OBVIOUS
  <2>2. More(u, v, <<"call", t>>) /\ v[<<"call", t>>] = s
    <3>1. call[t].at \notin Holds /\ call'[t].at \in Holds
      BY <1>2, <1>4, <1>5 DEF Holds
    <3> QED
      BY <1>4, <1>5, <2>1, <3>1, MoreCall
  <2>3. Whole(nodes, u) /\ s \in Live(nodes) /\ IsFiniteSet(DOMAIN u)
    BY <1>0, <1>2, <1>3, <1>9, <2>1, AllUsersFinite DEF Intact
  <2>4. Whole(Ref(nodes, s), v) /\ Live(Ref(nodes, s)) = Live(nodes)
    BY <2>2, <2>3, RefWhole
  <2> QED
    BY <1>2, <1>3, <1>4, <1>5, <1>9, <2>1, <2>4 DEF Intact, Only
<1> QED
  BY <1>2, <1>8, <1>9 DEF TInv

LEMMA OpenAllocHandleInv ==
    ASSUME TInv, NEW t \in Threads, OpenAllocHandle(t)
    PROVE  TInv'
<1>0. /\ TBasic /\ call \in [Threads -> CallType] /\ call[t] \in CallType
      /\ WellFormed(open_files)
      /\ Tables(fds, open_files, call)
  BY DEF TInv, TBasic, Tables
<1>1. PICK h, p : h = AllocSlot(open_files) /\ p = Alloc(open_files, Blank)
  OBVIOUS
<1>2. PICK x : x = [call[t] EXCEPT !.at = "alloc_fd", !.handle = h]
  OBVIOUS
<1>3. /\ call[t].at = "alloc_handle" /\ open_files' = p
      /\ call' = [call EXCEPT ![t] = x] /\ status = "ok"
      /\ UNCHANGED <<nodes, fds, status, early>>
  BY <1>1, <1>2, Zenon DEF OpenAllocHandle, Goes, Blank
<1>4. h \in Int
  <2>1. Blank # NULL
    BY TableNotNull DEF Blank, UNSET
  <2>2. h \in 0 .. open_files.size
    BY <1>0, <1>1, <2>1, AllocFacts
  <2> QED
    BY <2>2
<1>5. /\ x \in CallType /\ x.at = "alloc_fd" /\ x.handle = h
      /\ x.node = call[t].node /\ x.node \in 0 .. MaxNodes - 1
  <2>1. call[t].node \in 0 .. MaxNodes - 1
    BY <1>0, <1>3 DEF TBasic, Knows, Holds
  <2> QED
    BY <1>0, <1>2, <1>4, <2>1 DEF CallType, Points
<1>6. call'[t] = x /\ Only(call, call', t)
  BY <1>0, <1>3, <1>5, Moves
<1>7. /\ Tables(fds, p, call')
      /\ h \notin Live(open_files) /\ ButFor(open_files, p, h) /\ At(p, h) = Blank
  BY <1>0, <1>1, <1>3, <1>5, <1>6, AllocHandleTables
<1>9. AllUsers(p, call') = AllUsers(open_files, call)
  <2>1. Same(call, call', t)
    BY <1>3, <1>5, <1>6 DEF Same, Holds
  <2>2. h \notin InUse(open_files) /\ h \notin InUse(p)
    BY <1>7 DEF InUse, Blank
  <2> QED
    BY <1>6, <1>7, <2>1, <2>2, SameUsers
<1> QED
  BY <1>3, <1>5, <1>7, <1>9, TableStepInv DEF Intact

LEMMA OpenAllocFdInv ==
    ASSUME TInv, NEW t \in Threads, OpenAllocFd(t)
    PROVE  TInv'
<1>0. /\ TBasic /\ call \in [Threads -> CallType] /\ call[t] \in CallType
      /\ WellFormed(fds)
      /\ Tables(fds, open_files, call)
  BY DEF TInv, TBasic, Tables
<1>1. PICK d, y : d = AllocSlot(fds) /\ y = [handle |-> UNSET]
  OBVIOUS
<1>2. PICK x : x = [call[t] EXCEPT !.at = "fill", !.fd = d]
  OBVIOUS
<1>3. /\ call[t].at = "alloc_fd" /\ fds' = Alloc(fds, y)
      /\ call' = [call EXCEPT ![t] = x] /\ status = "ok"
      /\ UNCHANGED <<nodes, open_files, status, early>>
  BY <1>1, <1>2, Zenon DEF OpenAllocFd, Goes
<1>4. d \in Int
  <2>1. y # NULL
    BY <1>1, TableNotNull DEF UNSET
  <2>2. d \in 0 .. fds.size
    BY <1>0, <1>1, <2>1, AllocFacts
  <2> QED
    BY <2>2
<1>5. /\ x \in CallType /\ x.at = "fill" /\ x.fd = d
      /\ x.handle = call[t].handle
      /\ x.node = call[t].node /\ x.node \in 0 .. MaxNodes - 1
  <2>1. call[t].node \in 0 .. MaxNodes - 1
    BY <1>0, <1>3 DEF TBasic, Knows, Holds
  <2> QED
    BY <1>0, <1>2, <1>4, <2>1 DEF CallType, Points
<1>6. call'[t] = x /\ Only(call, call', t)
  BY <1>0, <1>3, <1>5, Moves
<1>7. Tables(fds', open_files, call')
  BY <1>0, <1>1, <1>3, <1>5, <1>6, AllocFdTables
<1>9. AllUsers(open_files, call') = AllUsers(open_files, call)
  <2>1. Same(call, call', t)
    BY <1>3, <1>5, <1>6 DEF Same, Holds
  <2> QED
    BY <1>6, <2>1, SameUsers
<1> QED
  BY <1>3, <1>5, <1>7, <1>9, TableStepInv DEF Intact

LEMMA OpenFillInv ==
    ASSUME TInv, NEW t \in Threads, OpenFill(t)
    PROVE  TInv'
<1>0. /\ TBasic /\ call \in [Threads -> CallType] /\ call[t] \in CallType
      /\ WellFormed(open_files) /\ WellFormed(fds)
      /\ Tables(fds, open_files, call)
  BY DEF TInv, TBasic, Tables
<1>1. PICK d, h, s : d = call[t].fd /\ h = call[t].handle /\ s = call[t].node
  OBVIOUS
<1>2. PICK y, p : y = [node |-> s, use_count |-> 1] /\ p = Update(open_files, h, y)
  OBVIOUS
<1>3. call[t].at = "fill" /\ s \in 0 .. MaxNodes - 1
  BY <1>0, <1>1 DEF OpenFill, TBasic, Knows, Holds
<1>4. call' = [call EXCEPT ![t] = Idle] /\ nodes' = nodes /\ early' = early
  BY DEF OpenFill, Goes
<1>5. call'[t] = Idle /\ Only(call, call', t) /\ Idle.at = "idle" /\ Idle \in CallType
  BY <1>0, <1>4, IdleType, Moves DEF Knows, Holds
<1>6. /\ Tables(Update(fds, d, [handle |-> h]), p, call')
      /\ d \in Live(fds) /\ h \in Live(open_files) /\ At(open_files, h) = Blank
      /\ h \in Live(p) /\ ButFor(open_files, p, h) /\ At(p, h) = y
  BY <1>0, <1>1, <1>2, <1>3, <1>5, FillTables
<1>7. At(fds, d) # NULL /\ At(open_files, h) # NULL
  BY <1>0, <1>6, LiveIsAt, LiveInt
<1>8. /\ fds' = Update(fds, d, [handle |-> h]) /\ open_files' = p
      /\ status' = "ok"
  BY <1>1, <1>2, <1>7, Zenon DEF OpenFill
<1>10. ASSUME Whole(nodes, AllUsers(open_files, call))
       PROVE  Whole(nodes, AllUsers(p, call'))
  <2>1. /\ More(AllUsers(open_files, call'), AllUsers(open_files, call), <<"call", t>>)
        /\ AllUsers(open_files, call)[<<"call", t>>] = s
    <3>1. Only(call', call, t)
      BY <1>5 DEF Only
    <3>2. call'[t].at \notin Holds /\ call[t].at \in Holds
      BY <1>3, <1>5 DEF Holds
    <3> QED
      BY <1>1, <3>1, <3>2, MoreCall
  <2>2. /\ More(AllUsers(open_files, call'), AllUsers(p, call'), <<"handle", h>>)
        /\ AllUsers(p, call')[<<"handle", h>>] = s
    <3>1. h \notin InUse(open_files) /\ h \in InUse(p) /\ At(p, h).node = s
      BY <1>2, <1>6 DEF InUse, Blank
    <3> QED
      BY <1>6, <3>1, MoreHandle
  <2>3. IsFiniteSet(DOMAIN AllUsers(open_files, call'))
    BY <1>0, AllUsersFinite
  <2> QED
    BY <1>10, <2>1, <2>2, <2>3, SwapWhole
<1>11. Idle.at \notin Knows /\ Idle.at # "ref"
  BY <1>5 DEF Knows, Holds
<1> QED
  BY <1>4, <1>5, <1>6, <1>8, <1>10, <1>11, TableStepInv DEF Intact

-------------------------------------------------------------------------------
(* close() and getdents()                                                  *)

\* A call finds a descriptor that an open() has returned.
LEMMA FindInv ==
    ASSUME TInv, NoRace, NEW t \in Threads, NEW fd \in Index(fds),
           CloseFind(t, fd) \/ GetdentsFind(t, fd)
    PROVE  TInv'
<1>0. /\ TBasic /\ call \in [Threads -> CallType]
      /\ WellFormed(fds) /\ WellFormed(open_files)
      /\ Tables(fds, open_files, call)
  BY DEF TInv, TBasic, Tables
<1>1. PICK at \in {"free_fd", "find_handle"} :
          /\ at = "free_fd" => CloseFind(t, fd)
          /\ at = "find_handle" => GetdentsFind(t, fd)
  OBVIOUS
<1>2. PICK x : x = [Idle EXCEPT !.at = at, !.fd = fd, !.handle = At(fds, fd).handle]
  OBVIOUS
<1>3. /\ call[t].at = "idle" /\ At(fds, fd) # NULL /\ ~ HalfOpen(fd)
      /\ call' = [call EXCEPT ![t] = x] /\ status = "ok"
      /\ UNCHANGED <<nodes, fds, open_files, status, early>>
  <2>1. CASE at = "free_fd"
    BY <1>1, <1>2, <2>1, Zenon DEF CloseFind, Goes, vars
  <2>2. CASE at = "find_handle"
    BY <1>1, <1>2, <2>2, Zenon DEF GetdentsFind, Goes, vars
  <2> QED
    BY <2>1, <2>2
<1>4. fd \in Filled(fds, call) /\ fd \in Int
  BY <1>0, <1>3, FdLive, LiveInt DEF Filled, HalfOpen
<1>5. At(fds, fd).handle \in Int
  BY <1>0, <1>4, LiveInt DEF Tables, HandlesOK
<1>6. /\ x \in CallType /\ x.at = at /\ x.fd = fd
      /\ x.handle = At(fds, fd).handle
  BY <1>2, <1>4, <1>5, IdleType DEF CallType, Points
<1>7. at \notin Knows /\ at \notin Holds /\ call[t].at \notin Holds /\ at # "ref"
  BY <1>3 DEF Knows, Holds
<1>8. call'[t] = x /\ Only(call, call', t)
  BY <1>0, <1>3, <1>6, <1>7, Moves
<1>9. \A u \in Closers(call) : call[u].fd # fd
  BY <1>1, NoRace DEF NoRace, CloseFind, GetdentsFind, MayClose, MayUse, Closing, Closers
<1>10. at = "free_fd" => \A u \in Readers(call) : call[u].fd # fd
  BY <1>1, NoRace DEF NoRace, CloseFind, MayClose, Reading, Readers
<1>11. Tables(fds, open_files, call')
  <2>1. PICK f, o, c, e : f = fds /\ o = open_files /\ c = call /\ e = call'
    OBVIOUS
  <2>2. /\ Tables(f, o, c) /\ Only(c, e, t) /\ c[t].at = "idle"
        /\ e[t].at \in {"find_handle", "free_fd"}
        /\ e[t].fd \in Filled(f, c) /\ e[t].handle = At(f, e[t].fd).handle
        /\ \A u \in Closers(c) : c[u].fd # e[t].fd
        /\ e[t].at = "free_fd" => \A u \in Readers(c) : c[u].fd # e[t].fd
    BY <1>0, <1>3, <1>4, <1>6, <1>8, <1>9, <1>10, <2>1
  <2>3. Tables(f, o, e)
    BY <2>2, FindTables
  <2> QED
    BY <2>1, <2>3
<1>13. AllUsers(open_files, call') = AllUsers(open_files, call)
  <2>1. Same(call, call', t)
    BY <1>6, <1>7, <1>8 DEF Same
  <2> QED
    BY <1>8, <2>1, SameUsers
<1> QED
  BY <1>3, <1>6, <1>7, <1>11, <1>13, TableStepInv DEF Intact

LEMMA CloseFreeFdInv ==
    ASSUME TInv, NEW t \in Threads, CloseFreeFd(t)
    PROVE  TInv'
<1>0. /\ TBasic /\ call \in [Threads -> CallType] /\ call[t] \in CallType
      /\ Tables(fds, open_files, call)
  BY DEF TInv, TBasic
<1>1. PICK x : x = [call[t] EXCEPT !.at = "drop"]
  OBVIOUS
<1>2. /\ call[t].at = "free_fd" /\ fds' = Free(fds, call[t].fd)
      /\ call' = [call EXCEPT ![t] = x] /\ status = "ok"
      /\ UNCHANGED <<nodes, open_files, status, early>>
  BY <1>1, Zenon DEF CloseFreeFd, Goes
<1>3. x \in CallType /\ x.at = "drop" /\ x.handle = call[t].handle
  BY <1>0, <1>1 DEF CallType, Points
<1>4. x.at \notin Knows /\ x.at \notin Holds /\ call[t].at \notin Holds /\ x.at # "ref"
  BY <1>2, <1>3 DEF Knows, Holds
<1>5. call'[t] = x /\ Only(call, call', t)
  BY <1>0, <1>2, <1>3, <1>4, Moves
<1>6. Tables(fds', open_files, call')
  BY <1>0, <1>2, <1>3, <1>5, FreeFdTables
<1>8. AllUsers(open_files, call') = AllUsers(open_files, call)
  <2>1. Same(call, call', t)
    BY <1>4, <1>5 DEF Same
  <2> QED
    BY <1>5, <2>1, SameUsers
<1> QED
  BY <1>2, <1>3, <1>4, <1>6, <1>8, TableStepInv DEF Intact

\* The count of the handle passes to the call.
LEMMA CloseDropInv ==
    ASSUME TInv, NEW t \in Threads, CloseDrop(t)
    PROVE  TInv'
<1>0. /\ TBasic /\ call \in [Threads -> CallType] /\ call[t] \in CallType
      /\ WellFormed(open_files)
      /\ Tables(fds, open_files, call)
  BY DEF TInv, TBasic, Tables
<1>1. PICK h, handle : h = call[t].handle /\ handle = At(open_files, h)
  OBVIOUS
<1>2. call[t].at = "drop" /\ t \in Hand(call)
  BY DEF CloseDrop, Hand, HasHandle
<1>3. handle # NULL /\ handle \in HandleType /\ h \in Live(open_files)
  BY <1>0, <1>1, <1>2, LiveIsAt, LiveInt DEF Tables, HandlesOK
<1>4. /\ handle.node \in 0 .. MaxNodes - 1 /\ handle.node # UNSET
      /\ handle.use_count = 1
  BY <1>3, KernelProxyAssumption DEF HandleType, UNSET
<1>5. PICK x, p : /\ x = [call[t] EXCEPT !.at = "free_handle", !.node = handle.node]
                  /\ p = Update(open_files, h, [handle EXCEPT !.use_count = 0])
  OBVIOUS
<1>6. /\ open_files' = p /\ call' = [call EXCEPT ![t] = x]
      /\ status = "ok" /\ UNCHANGED <<nodes, fds, status, early>>
  <2>1. PICK count \in Counts(handle) :
            /\ open_files' = Update(open_files, h,
                                    [handle EXCEPT !.use_count = count - 1])
            /\ Goes(t, IF count - 1 <= 0 THEN x ELSE Idle)
    BY <1>1, <1>3, <1>5, Zenon DEF CloseDrop
  <2>2. count = 1
    BY <1>4, <2>1 DEF Counts
  <2>3. count - 1 = 0 /\ count - 1 <= 0
    BY <2>2
  <2>4. open_files' = p /\ Goes(t, x)
    BY <1>5, <2>1, <2>3
  <2> QED
    BY <2>4 DEF CloseDrop, Goes
<1>7. /\ x \in CallType /\ x.at = "free_handle" /\ x.handle = h
      /\ x.node = handle.node
  <2>1. handle.node \in Int
    BY <1>4, KernelProxyAssumption
  <2> QED
    BY <1>0, <1>1, <1>5, <2>1 DEF CallType, Points
<1>8. call'[t] = x /\ Only(call, call', t)
  BY <1>0, <1>4, <1>6, <1>7, Moves
<1>9. /\ Tables(fds, p, call')
      /\ ButFor(open_files, p, h) /\ At(p, h).use_count = 0
  <2>1. PICK f, o, c, e : f = fds /\ o = open_files /\ c = call /\ e = call'
    OBVIOUS
  <2>2. /\ Tables(f, o, c) /\ Only(c, e, t) /\ c[t].at = "drop"
        /\ e[t].at = "free_handle" /\ e[t].handle = c[t].handle
        /\ p = Update(o, c[t].handle, [At(o, c[t].handle) EXCEPT !.use_count = 0])
    BY <1>0, <1>1, <1>2, <1>5, <1>7, <1>8, <2>1
  <2>3. /\ Tables(f, p, e)
        /\ ButFor(o, p, c[t].handle) /\ At(p, c[t].handle).use_count = 0
    BY <2>2, DropTables
  <2> QED
    BY <1>1, <2>1, <2>3
<1>11. ASSUME Whole(nodes, AllUsers(open_files, call))
       PROVE  Whole(nodes, AllUsers(p, call'))
  <2>1. /\ More(AllUsers(p, call), AllUsers(open_files, call), <<"handle", h>>)
        /\ AllUsers(open_files, call)[<<"handle", h>>] = handle.node
    <3>1. h \notin InUse(p) /\ h \in InUse(open_files)
      BY <1>1, <1>3, <1>4, <1>9 DEF InUse
    <3>2. ButFor(p, open_files, h)
      BY <1>9 DEF ButFor
    <3> QED
      BY <1>1, <3>1, <3>2, MoreHandle
  <2>2. /\ More(AllUsers(p, call), AllUsers(p, call'), <<"call", t>>)
        /\ AllUsers(p, call')[<<"call", t>>] = handle.node
    <3>1. call[t].at \notin Holds /\ call'[t].at \in Holds
      BY <1>2, <1>7, <1>8 DEF Holds
    <3> QED
      BY <1>7, <1>8, <3>1, MoreCall
  <2>3. IsFiniteSet(DOMAIN AllUsers(p, call))
    BY <1>9, AllUsersFinite DEF Tables
  <2> QED
    BY <1>11, <2>1, <2>2, <2>3, SwapWhole
<1> QED
  BY <1>4, <1>6, <1>7, <1>9, <1>11, TableStepInv DEF Intact

LEMMA CloseFreeHandleInv ==
    ASSUME TInv, NEW t \in Threads, CloseFreeHandle(t)
    PROVE  TInv'
<1>0. /\ TBasic /\ call \in [Threads -> CallType] /\ call[t] \in CallType
      /\ Tables(fds, open_files, call)
  BY DEF TInv, TBasic
<1>1. PICK h, p, x : /\ h = call[t].handle /\ p = Free(open_files, h)
                     /\ x = [call[t] EXCEPT !.at = "unref"]
  OBVIOUS
<1>2. /\ call[t].at = "free_handle" /\ open_files' = p
      /\ call' = [call EXCEPT ![t] = x] /\ status = "ok"
      /\ UNCHANGED <<nodes, fds, status, early>>
  BY <1>1, Zenon DEF CloseFreeHandle, Goes
<1>3. /\ x \in CallType /\ x.at = "unref" /\ x.node = call[t].node
      /\ x.node \in 0 .. MaxNodes - 1 /\ x.at # "ref"
  <2>1. call[t].node \in 0 .. MaxNodes - 1
    BY <1>0, <1>2 DEF TBasic, Knows, Holds
  <2> QED
    BY <1>0, <1>1, <2>1 DEF CallType, Points
<1>4. call'[t] = x /\ Only(call, call', t)
  BY <1>0, <1>2, <1>3, Moves
<1>5. /\ Tables(fds, p, call')
      /\ At(open_files, h).use_count = 0
      /\ h \notin Live(p) /\ ButFor(open_files, p, h)
  <2>1. PICK f, o, c, e : f = fds /\ o = open_files /\ c = call /\ e = call'
    OBVIOUS
  <2>2. /\ Tables(f, o, c) /\ Only(c, e, t) /\ c[t].at = "free_handle"
        /\ e[t].at = "unref" /\ p = Free(o, c[t].handle)
    BY <1>0, <1>1, <1>2, <1>3, <1>4, <2>1
  <2>3. /\ Tables(f, p, e) /\ At(o, c[t].handle).use_count = 0
        /\ c[t].handle \notin Live(p) /\ ButFor(o, p, c[t].handle)
    BY <2>2, FreeHandleTables
  <2> QED
    BY <1>1, <2>1, <2>3
<1>7. AllUsers(p, call') = AllUsers(open_files, call)
  <2>1. Same(call, call', t)
    BY <1>2, <1>3, <1>4 DEF Same, Holds
  <2>2. h \notin InUse(open_files) /\ h \notin InUse(p)
    BY <1>5 DEF InUse
  <2> QED
    BY <1>4, <1>5, <2>1, <2>2, SameUsers
<1> QED
  BY <1>2, <1>3, <1>5, <1>7, TableStepInv DEF Intact

\* Where no inode is freed early, what is freed has no user.
LEMMA NotEarly ==
    ASSUME TBasic, ~ FreedEarly, NEW s \in Live(nodes) \ Live(nodes')
    PROVE  /\ s # 0
           /\ At(nodes, s).is_dir => On(AllUsers(open_files, call), s) = {}
           /\ \A t \in Threads : call[t].at = "ref" => call[t].node # s
<1>1. /\ s # 0
      /\ At(nodes, s).is_dir => HandlesInUse(s) \cup Holders(s) = {}
      /\ \A t \in Threads : call[t].at = "ref" => call[t].node # s
  BY DEF FreedEarly
<1>2. HandlesInUse(s) = HandlesAt(open_files, s) /\ Holders(s) = CallsAt(call, s)
  BY DEF HandlesInUse, HandlesOn, InUse, Holders, Holding, HandlesAt, CallsAt
<1>3. WellFormed(open_files)
  BY DEF TBasic, Tables
<1>4. On(AllUsers(open_files, call), s) = {}
          <=> HandlesAt(open_files, s) = {} /\ CallsAt(call, s) = {}
  BY <1>3, OnAllUsers
<1> QED
  BY <1>1, <1>2, <1>4

LEMMA CloseUnrefInv ==
    ASSUME TInv, NEW t \in Threads, CloseUnref(t)
    PROVE  TInv'
<1>0. /\ TBasic /\ Typed(nodes) /\ call \in [Threads -> CallType]
      /\ WellFormed(open_files)
  BY DEF TInv, TBasic, Tables
<1>1. PICK s : s = call[t].node
  OBVIOUS
<1>2. /\ call[t].at = "unref" /\ call' = [call EXCEPT ![t] = Idle]
      /\ early' = (early \/ FreedEarly) /\ UNCHANGED <<fds, open_files>>
  BY DEF CloseUnref, Goes, Watch
<1>3. s \in 0 .. MaxNodes - 1 /\ s # UNSET
  <2>1. s \in 0 .. MaxNodes - 1
    BY <1>0, <1>1, <1>2 DEF TBasic, Knows, Holds
  <2> QED
    BY <2>1, KernelProxyAssumption DEF UNSET
<1>4. nodes' = Unref(nodes, s) /\ status' = "ok"
  BY <1>1, <1>3 DEF CloseUnref, Named, Ends
<1>5. Idle \in CallType /\ Idle.at = "idle" /\ "idle" \notin Knows /\ "idle" \notin Holds
  BY IdleType DEF Knows, Holds
<1>6. /\ call' \in [Threads -> CallType]
      /\ call'[t] = Idle /\ Only(call, call', t)
      /\ \A u \in Threads :
             call'[u].at \in Knows => call'[u].node \in 0 .. MaxNodes - 1
  BY <1>0, <1>2, <1>5, Moves
<1>7. Tables(fds, open_files, call')
  BY <1>0, <1>2, <1>5, <1>6, ElsewhereTables DEF TBasic, Elsewhere
<1>8. Typed(nodes')
  <2>1. CASE At(nodes, s) = NULL
    BY <1>0, <1>4, <2>1 DEF Unref
  <2>2. CASE At(nodes, s) # NULL
    <3>1. s \in Live(nodes)
      BY <1>0, <1>3, <2>2, SlotLive
    <3> QED
      BY <1>0, <1>4, <3>1, UnrefFacts
  <2> QED
    BY <2>1, <2>2
<1>9. TBasic'
  <2>1. early' \in BOOLEAN
    BY <1>2
  <2> QED
    BY <1>2, <1>4, <1>6, <1>7, <1>8, <2>1 DEF TBasic
<1>10. ASSUME ~ early'
       PROVE  Intact'
  <2>1. Intact /\ ~ FreedEarly
    BY <1>2, <1>10 DEF TInv
  <2>2. PICK u, v : v = AllUsers(open_files, call) /\ u = AllUsers(open_files, call')
    OBVIOUS
  <2>3. More(u, v, <<"call", t>>) /\ v[<<"call", t>>] = s
    <3>1. Only(call', call, t)
      BY <1>6 DEF Only
    <3>2. call'[t].at \notin Holds /\ call[t].at \in Holds
      BY <1>2, <1>5, <1>6 DEF Holds
    <3> QED
      BY <1>1, <2>2, <3>1, <3>2, MoreCall
  <2>4. Whole(nodes, v) /\ IsFiniteSet(DOMAIN u)
    BY <1>0, <2>1, <2>2, AllUsersFinite DEF Intact
  <2>5. Whole(Unref(nodes, s), u)
    BY <2>3, <2>4, CloseWhole
  <2>6. ASSUME NEW w \in Threads, call'[w].at = "ref"
        PROVE  call'[w].node \in Live(nodes')
    <3>1. call'[w] = call[w]
      BY <1>5, <1>6, <2>6 DEF Only
    <3>2. call[w].node \in Live(nodes)
      BY <2>1, <2>6, <3>1 DEF Intact
    <3> QED
      BY <1>0, <2>1, <2>6, <3>1, <3>2, NotEarly
  <2> QED
    BY <1>2, <1>4, <2>2, <2>5, <2>6 DEF Intact
<1> QED
  BY <1>9, <1>10 DEF TInv

LEMMA GetdentsHandleInv ==
    ASSUME TInv, NEW t \in Threads, GetdentsHandle(t)
    PROVE  TInv'
<1>0. /\ TBasic /\ call \in [Threads -> CallType] /\ call[t] \in CallType
      /\ WellFormed(open_files) /\ Tables(fds, open_files, call)
  BY DEF TInv, TBasic, Tables
<1>1. PICK handle : handle = At(open_files, call[t].handle)
  OBVIOUS
<1>2. PICK x : x = [call[t] EXCEPT !.at = "getdents", !.node = handle.node]
  OBVIOUS
<1>3. call[t].at = "find_handle" /\ t \in Readers(call)
  BY DEF GetdentsHandle, Readers
<1>4. handle # NULL /\ handle \in HandleType
  <2>1. call[t].handle \in Live(open_files) /\ handle \in HandleType
    BY <1>0, <1>1, <1>3, ReaderHandle
  <2> QED
    BY <1>0, <1>1, <2>1, LiveIsAt, LiveInt
<1>5. /\ call' = [call EXCEPT ![t] = x] /\ status = "ok"
      /\ UNCHANGED <<nodes, fds, open_files, status, early>>
  BY <1>1, <1>2, <1>4, Zenon DEF GetdentsHandle, Goes, vars
<1>6. /\ x \in CallType /\ x.at = "getdents" /\ x.fd = call[t].fd
      /\ x.handle = call[t].handle /\ x.node \in 0 .. MaxNodes - 1
  <2>1. handle.node \in 0 .. MaxNodes - 1
    BY <1>4 DEF HandleType
  <2>2. handle.node \in Int
    BY <2>1, KernelProxyAssumption
  <2> QED
    BY <1>0, <1>2, <2>1, <2>2 DEF CallType, Points
<1>7. call'[t] = x /\ Only(call, call', t)
  BY <1>0, <1>5, <1>6, Moves
<1>8. Tables(fds, open_files, call')
  <2>1. PICK f, o, c, e : f = fds /\ o = open_files /\ c = call /\ e = call'
    OBVIOUS
  <2>2. /\ Tables(f, o, c) /\ Only(c, e, t) /\ t \in Readers(c)
        /\ e[t].at = "getdents" /\ e[t].fd = c[t].fd /\ e[t].handle = c[t].handle
    BY <1>0, <1>3, <1>6, <1>7, <2>1
  <2>3. Tables(f, o, e)
    BY <2>2, ReadTables
  <2> QED
    BY <2>1, <2>3
<1>9. AllUsers(open_files, call') = AllUsers(open_files, call)
  <2>1. Same(call, call', t)
    BY <1>3, <1>6, <1>7 DEF Same, Holds
  <2> QED
    BY <1>7, <2>1, SameUsers
<1>10. x.at # "ref"
  BY <1>6
<1> QED
  BY <1>5, <1>6, <1>8, <1>9, <1>10, TableStepInv DEF Intact

\* No entry that getdents() reads leads nowhere.
LEMMA GetdentsCallInv ==
    ASSUME TInv, NEW t \in Threads, NEW room, GetdentsCall(t, room)
    PROVE  TInv'
<1>0. /\ TBasic /\ Typed(nodes) /\ call \in [Threads -> CallType]
      /\ Tables(fds, open_files, call)
  BY DEF TInv, TBasic
<1>1. PICK s, r : s = call[t].node /\ r = Getdents(nodes, s, room)
  OBVIOUS
<1>2. /\ call[t].at = "getdents" /\ t \in Readers(call)
      /\ call' = [call EXCEPT ![t] = Idle]
      /\ UNCHANGED <<nodes, fds, open_files, early>>
  BY DEF GetdentsCall, Goes, Readers
<1>3. s \in 0 .. MaxNodes - 1 /\ s # UNSET
  <2>1. s \in 0 .. MaxNodes - 1
    BY <1>0, <1>1, <1>2 DEF TBasic, Knows
  <2> QED
    BY <2>1, KernelProxyAssumption DEF UNSET
<1>4. status' \in IF r.err = "CRASH" THEN {"crashed"} ELSE {"ok"}
  BY <1>1, <1>3 DEF GetdentsCall, Named, Ends
<1>5. Idle \in CallType /\ Idle.at = "idle" /\ "idle" \notin Knows /\ "idle" \notin Holds
  BY IdleType DEF Knows, Holds
<1>6. call'[t] = Idle /\ Only(call, call', t)
  BY <1>0, <1>2, <1>5, Moves
<1>7. Tables(fds, open_files, call')
  <2>1. PICK f, o, c, e : f = fds /\ o = open_files /\ c = call /\ e = call'
    OBVIOUS
  <2>2. /\ Tables(f, o, c) /\ Only(c, e, t) /\ t \in Readers(c)
        /\ e[t].at = "idle"
    BY <1>0, <1>2, <1>5, <1>6, <2>1
  <2>3. Tables(f, o, e)
    BY <2>2, ReadTables
  <2> QED
    BY <2>1, <2>3
<1>8. ASSUME Intact
      PROVE  r.err # "CRASH"
  <2>1. Tree(nodes)
    BY <1>8 DEF Intact, Whole
  <2>2. \A i \in 1 .. Len(Kids(nodes, s)) :
            At(nodes, s) # NULL => At(nodes, Kids(nodes, s)[i]) # NULL
    <3>1. ASSUME At(nodes, s) # NULL
          PROVE  s \in Live(nodes)
      BY <1>0, <1>3, <3>1, SlotLive
    <3> QED
      BY <1>0, <2>1, <3>1, NodeNotNull DEF Tree, KidsOK, Typed
  <2> QED
    BY <1>1, <2>2, GetdentsFacts
<1>9. AllUsers(open_files, call') = AllUsers(open_files, call)
  <2>1. Same(call, call', t)
    BY <1>2, <1>5, <1>6 DEF Same, Holds
  <2> QED
    BY <1>6, <2>1, SameUsers
<1>10. /\ status' \in {"ok", "crashed"}
       /\ Intact => status' = "ok"
  BY <1>4, <1>8
<1>11. Idle.at # "ref" /\ Idle.at \notin Knows
  BY <1>5
<1> QED
  BY <1>2, <1>5, <1>7, <1>9, <1>10, <1>11, TableStepInv DEF Intact

-------------------------------------------------------------------------------
(* The calls of the mount.                                                 *)

\* remove() and rmdir() look the path up.
LEMMA LookUpInv ==
    ASSUME TInv, NEW t \in Threads, NEW path \in Paths,
           RemoveFind(t, path) \/ RmdirFind(t, path)
    PROVE  TInv'
<1>0. /\ Typed(nodes) /\ call \in [Threads -> CallType] /\ early \in BOOLEAN
      /\ path \in Seq(Names)
  BY PathType DEF TInv, TBasic
<1>1. PICK found : found = GetNode(nodes, path)
  OBVIOUS
<1>2. PICK x \in {Idle, [Idle EXCEPT !.at = "rmdir", !.node = found.slot],
                  [Idle EXCEPT !.at = "unlink", !.path = path]} :
          /\ call' = [call EXCEPT ![t] = x]
          /\ x.at = "rmdir" => found.err = "OK"
  <2>1. CASE RemoveFind(t, path)
    BY <1>1, <2>1, IdleType DEF RemoveFind, Goes
  <2>2. CASE RmdirFind(t, path)
    BY <1>1, <2>2, IdleType DEF RmdirFind, Goes
  <2> QED
    BY <2>1, <2>2
<1>3. call[t].at = "idle" /\ MountCall(found) /\ early' = early
  BY <1>1, Zenon DEF RemoveFind, RmdirFind
<1>4. /\ found.fs = nodes
      /\ found.err = "OK" => found.slot \in 0 .. MaxNodes - 1
  BY <1>0, <1>1, GetNodeFacts
<1>5. /\ x \in CallType /\ x.at \in {"idle", "rmdir", "unlink"}
      /\ x.at = "rmdir" => x.node \in 0 .. MaxNodes - 1
  <2>1. CASE x = Idle
    BY <2>1, IdleType
  <2>2. CASE x = [Idle EXCEPT !.at = "rmdir", !.node = found.slot]
    <3>1. x.at = "rmdir" /\ x.node = found.slot
      BY <2>2, IdleType DEF CallType
    <3>2. found.slot \in 0 .. MaxNodes - 1 /\ found.slot \in Int
      BY <1>2, <1>4, <3>1, KernelProxyAssumption
    <3> QED
      BY <2>2, <3>1, <3>2, IdleType DEF CallType, Points
  <2>3. CASE x = [Idle EXCEPT !.at = "unlink", !.path = path]
    BY <2>3, IdleType DEF CallType, Points
  <2> QED
    BY <2>1, <2>2, <2>3
<1>6. /\ call[t].at \in Elsewhere \ Holds /\ x.at \in Elsewhere \ Holds
      /\ x.at \in Knows => x.at = "rmdir"
      /\ x.at # "ref"
  BY <1>3, <1>5 DEF Elsewhere, Holds, Knows
<1>7. ASSUME ~ early
      PROVE  /\ Whole(found.fs, AllUsers(open_files, call)) /\ found.err # "CRASH"
             /\ \A u \in Threads : call[u].at = "ref" => call[u].node \in Live(found.fs)
  <2>1. Intact
    BY <1>7 DEF TInv
  <2>2. Tree(nodes)
    BY <2>1 DEF Intact, Whole
  <2> QED
    BY <1>0, <1>1, <1>4, <2>1, <2>2, GetNodeInTree DEF Intact
<1> QED
  BY <1>0, <1>2, <1>3, <1>4, <1>5, <1>6, <1>7, MountStepInv

\* What remove() or rmdir() found is removed.
LEMMA CutInv ==
    ASSUME TInv, NEW t \in Threads, RemoveDir(t) \/ RemoveFile(t)
    PROVE  TInv'
<1>0. /\ TBasic /\ Typed(nodes) /\ call \in [Threads -> CallType]
      /\ WellFormed(open_files)
  BY DEF TInv, TBasic, Tables
<1>1. PICK s, path : s = call[t].node /\ path = call[t].path
  OBVIOUS
<1>2. PICK r \in {Rmdir(nodes, s), Unlink(nodes, path)} :
          /\ MountCall(r) /\ call' = [call EXCEPT ![t] = Idle]
          /\ \/ call[t].at = "rmdir" /\ r = Rmdir(nodes, s)
             \/ call[t].at = "unlink" /\ r = Unlink(nodes, path)
          /\ early' = (early \/ FreedEarly)
  BY <1>1 DEF RemoveDir, RemoveFile, Goes, Watch
<1>3. /\ path \in Seq(Names)
      /\ call[t].at = "rmdir" => s \in 0 .. MaxNodes - 1
  BY <1>0, <1>1, PathType DEF TBasic, CallType, Knows
<1>4. nodes' = r.fs /\ early' \in BOOLEAN
  BY <1>2 DEF MountCall
<1>5. Idle \in CallType /\ Idle.at = "idle" /\ Idle.at \notin Knows
  BY IdleType DEF Knows, Holds
<1>6. call[t].at \in Elsewhere \ Holds /\ Idle.at \in Elsewhere \ Holds
  BY <1>2, <1>5 DEF Elsewhere, Holds
<1>7. Typed(r.fs)
  <2>1. CASE r = Unlink(nodes, path)
    BY <1>0, <1>3, <2>1, UnlinkFacts
  <2>2. CASE r = Rmdir(nodes, s) /\ s \in 0 .. MaxNodes - 1
    <3>1. CASE At(nodes, s) = NULL
      BY <1>0, <2>2, <3>1 DEF Rmdir, Result
    <3>2. CASE At(nodes, s) # NULL
      <4>1. s \in Live(nodes)
        BY <1>0, <2>2, <3>2, SlotLive
      <4> QED
        BY <1>0, <2>2, <4>1, RmdirType
    <3> QED
      BY <3>1, <3>2
  <2> QED
    BY <1>2, <1>3, <2>1, <2>2
<1>8. ASSUME ~ early'
      PROVE  /\ ~ early /\ Whole(r.fs, AllUsers(open_files, call)) /\ r.err # "CRASH"
             /\ \A u \in Threads : call[u].at = "ref" => call[u].node \in Live(r.fs)
  <2>1. ~ early /\ ~ FreedEarly /\ Intact
    BY <1>2, <1>8 DEF TInv
  <2>2. PICK v : v = AllUsers(open_files, call)
    OBVIOUS
  <2>3. Whole(nodes, v) /\ IsFiniteSet(DOMAIN v)
    BY <1>0, <2>1, <2>2, AllUsersFinite DEF Intact
  <2>4. Whole(r.fs, v) /\ r.err # "CRASH"
    <3>1. CASE r = Unlink(nodes, path)
      BY <1>3, <2>3, <3>1, UnlinkWhole
    <3>2. CASE r = Rmdir(nodes, s) /\ s \in 0 .. MaxNodes - 1
      <4>1. CASE At(nodes, s) = NULL
        BY <2>3, <3>2, <4>1 DEF Rmdir, Result
      <4>2. CASE At(nodes, s) # NULL
        <5>1. s \in Live(nodes)
          BY <1>0, <3>2, <4>2, SlotLive
        <5>2. /\ r.err # "CRASH"
              /\ r.fs # nodes => At(nodes, s).is_dir /\ Live(r.fs) = Live(nodes) \ {s}
              /\ r.fs = nodes \/ (s # 0 /\ On(v, s) = {}) => Whole(r.fs, v)
          BY <2>3, <3>2, <5>1, RmdirWhole
        <5>3. r.fs # nodes => s # 0 /\ On(v, s) = {}
          BY <1>0, <1>4, <2>1, <2>2, <5>1, <5>2, NotEarly
        <5> QED
          BY <5>2, <5>3
      <4> QED
        BY <4>1, <4>2
    <3> QED
      BY <1>2, <1>3, <3>1, <3>2
  <2>5. ASSUME NEW u \in Threads, call[u].at = "ref"
        PROVE  call[u].node \in Live(r.fs)
    <3>1. call[u].node \in Live(nodes)
      BY <2>1, <2>5 DEF Intact
    <3> QED
      BY <1>0, <1>4, <2>1, <2>5, <3>1, NotEarly
  <2> QED
    BY <2>1, <2>2, <2>4, <2>5
<1>9. Idle.at # "ref"
  BY <1>5
<1> QED
  BY <1>2, <1>4, <1>5, <1>6, <1>7, <1>8, <1>9, MountStepInv

\* mkdir(), stat()
LEMMA OneCallInv ==
    ASSUME TInv, NEW t \in Threads, NEW path \in Paths, OneCall(t, path)
    PROVE  TInv'
<1>0. /\ Typed(nodes) /\ call \in [Threads -> CallType] /\ early \in BOOLEAN
      /\ WellFormed(open_files) /\ path \in Seq(Names)
  BY PathType DEF TInv, TBasic, Tables
<1>1. PICK r \in {Mkdir(nodes, path), GetNode(nodes, path)} : MountCall(r)
  BY DEF OneCall, MkdirPath, StatPath
<1>2. PICK x : x = call[t]
  OBVIOUS
<1>3. /\ x.at = "idle" /\ x \in CallType /\ early' = early
      /\ call' = [call EXCEPT ![t] = x]
  BY <1>0, <1>2 DEF OneCall
<1>4. x.at \in Elsewhere \ Holds /\ x.at \notin Knows /\ x.at # "ref"
  BY <1>3 DEF Elsewhere, Holds, Knows
<1>5. r.fs.size <= MaxNodes
  BY <1>1 DEF MountCall
<1>6. Typed(r.fs) /\ Live(nodes) \subseteq Live(r.fs)
  <2>1. CASE r = GetNode(nodes, path)
    BY <1>0, <2>1, GetNodeFacts
  <2>2. CASE r = Mkdir(nodes, path) /\ MakesChild(nodes, path, TRUE, 0, r)
    <3>1. PICK dir : dir = GetParentSlot(nodes, path)
      OBVIOUS
    <3>2. /\ r = NewChild(nodes, path, dir, TRUE, 0) /\ path # <<>>
          /\ dir \in Live(nodes) /\ At(nodes, dir).is_dir
      BY <2>2, <3>1 DEF MakesChild
    <3>3. /\ Typed(r.fs)
          /\ Adds(nodes, r.fs, dir, r.slot, MemNode(path[Len(path)], TRUE, dir, 0))
      <4>1. NewChild(nodes, path, dir, TRUE, 0).fs.size <= MaxNodes
        BY <1>5, <3>2
      <4> QED
        BY <1>0, <3>2, <4>1, NewChildFacts
    <3> QED
      BY <3>3 DEF Adds
  <2>3. CASE r = Mkdir(nodes, path) /\ r.fs = nodes
    BY <1>0, <2>3
  <2> QED
    BY <1>0, <1>1, <2>1, <2>2, <2>3, MkdirFacts
<1>7. ASSUME ~ early
      PROVE  /\ Whole(r.fs, AllUsers(open_files, call)) /\ r.err # "CRASH"
             /\ \A u \in Threads : call[u].at = "ref" => call[u].node \in Live(r.fs)
  <2>1. Intact
    BY <1>7 DEF TInv
  <2>2. PICK v : v = AllUsers(open_files, call)
    OBVIOUS
  <2>3. Whole(nodes, v) /\ IsFiniteSet(DOMAIN v) /\ Tree(nodes)
    BY <1>0, <2>1, <2>2, AllUsersFinite DEF Intact, Whole
  <2>4. CASE r = Mkdir(nodes, path)
    BY <1>0, <1>5, <1>6, <2>1, <2>2, <2>3, <2>4, MkdirWhole DEF Intact
  <2>5. CASE r = GetNode(nodes, path)
    BY <1>0, <1>6, <2>1, <2>2, <2>3, <2>5, GetNodeInTree DEF Intact
  <2> QED
    BY <1>1, <2>4, <2>5
<1> QED
  BY <1>0, <1>1, <1>2, <1>3, <1>4, <1>6, <1>7, MountStepInv

-------------------------------------------------------------------------------
LEMMA InitInv ==
    ASSUME TInit
    PROVE  TInv
<1>1. /\ Init /\ early = FALSE /\ call = [t \in Threads |-> Idle]
      /\ Typed(nodes) /\ status = "ok"
      /\ Live(nodes) = {0} /\ At(nodes, 0) = MemNode("/", TRUE, NOT_FOUND, 0)
  BY NewMountFacts DEF TInit, Init
<1>2. /\ WellFormed(fds) /\ WellFormed(open_files)
      /\ Live(fds) = {} /\ Live(open_files) = {}
  BY <1>1, EmptyWellFormed DEF Init
<1>3. \A t \in Threads : call[t] \in CallType /\ call[t].at = "idle"
  BY <1>1, IdleType
<1>4. Tables(fds, open_files, call)
  <2>1. /\ Filled(fds, call) = {} /\ Hand(call) = {} /\ Filling(call) = {}
        /\ Closers(call) = {} /\ Readers(call) = {}
    BY <1>2, <1>3 DEF Filled, Hand, HasHandle, Filling, Closers, Readers
  <2> QED
    BY <1>2, <2>1 DEF Tables, HandlesOK, OneOwner, FdsKept
<1>5. TBasic
  <2>1. call \in [Threads -> CallType]
    BY <1>1, IdleType
  <2> QED
    BY <1>1, <1>3, <1>4, <2>1 DEF TBasic, Knows, Holds
<1>6. DOMAIN AllUsers(open_files, call) = {}
  BY <1>2, <1>3 DEF AllUsers, InUse, Holding, Holds
<1>7. Whole(nodes, AllUsers(open_files, call))
  <2>1. At(nodes, 0).is_dir /\ Kids(nodes, 0) = <<>>
    BY <1>1 DEF MemNode, Kids
  <2>2. Tree(nodes)
    BY <1>1, <2>1 DEF Tree, KidsOK
  <2> QED
    BY <1>1, <1>6, <2>1, <2>2 DEF Whole, Held, Counted
<1> QED
  BY <1>1, <1>3, <1>5, <1>7 DEF TInv, Intact

LEMMA TStep ==
    ASSUME NoRace, TInv, [TNext]_tvars
    PROVE  TInv'
<1>1. CASE UNCHANGED tvars
  BY <1>1 DEF tvars, vars, TInv, TBasic, Intact
<1>2. ASSUME NEW t \in Threads,
             \/ OpenRef(t) \/ OpenAllocHandle(t) \/ OpenAllocFd(t) \/ OpenFill(t)
             \/ CloseFreeFd(t) \/ CloseDrop(t) \/ CloseFreeHandle(t) \/ CloseUnref(t)
             \/ RemoveDir(t) \/ RemoveFile(t) \/ GetdentsHandle(t)
             \/ \E room \in {1, MaxNodes} : GetdentsCall(t, room)
      PROVE  TInv'
  BY <1>2, OpenRefInv, OpenAllocHandleInv, OpenAllocFdInv, OpenFillInv, CloseFreeFdInv,
     CloseDropInv, CloseFreeHandleInv, CloseUnrefInv, CutInv, GetdentsHandleInv,
     GetdentsCallInv
<1>3. ASSUME NEW t \in Threads, NEW path \in Paths,
             \/ \E flags \in {0, 1} : OpenFind(t, path, flags)
             \/ RemoveFind(t, path) \/ RmdirFind(t, path) \/ OneCall(t, path)
      PROVE  TInv'
  BY <1>3, OpenFindInv, LookUpInv, OneCallInv
<1>4. ASSUME NEW t \in Threads, NEW fd \in Index(fds),
             CloseFind(t, fd) \/ GetdentsFind(t, fd)
      PROVE  TInv'
  BY <1>4, NoRace, FindInv
<1> QED
  BY <1>1, <1>2, <1>3, <1>4 DEF TNext

LEMMA TInvHolds ==
    ASSUME NoRace
    PROVE  TSpec => []TInv
<1>1. TInit => TInv
  BY InitInv
<1>2. TInv /\ [TNext]_tvars => TInv'
  BY TStep
<1> QED
  BY <1>1, <1>2, PTL DEF TSpec

LEMMA TablesAreMatched ==
    ASSUME TInv
    PROVE  TablesMatch
<1>1. /\ WellFormed(open_files) /\ HandlesOK(fds, open_files, call)
      /\ OneOwner(fds, open_files, call)
  BY DEF TInv, TBasic, Tables
<1>2. Ready = Filled(fds, call)
  BY DEF Ready, HalfOpen, Filled
<1>3. \A h \in Live(open_files) : At(open_files, h) # NULL
  BY <1>1, LiveIsAt, LiveInt
<1>4. ASSUME NEW h \in Live(open_files)
      PROVE  \E x \in Owners(h) : Owners(h) = {x}
  <2> DEFINE D == {d \in Filled(fds, call) : At(fds, d).handle = h}
             T == {t \in Hand(call) : call[t].handle = h}
  <2>1. Owners(h) = ({"fd"} \X D) \cup ({"call"} \X T)
    BY <1>2 DEF Owners, Hand
  <2>2. /\ \A d, e \in D : d = e
        /\ \A t, u \in T : t = u
        /\ D = {} \/ T = {}
        /\ D # {} \/ T # {}
    BY <1>1 DEF OneOwner
  <2> HIDE DEF D, T
  <2>3. ASSUME NEW d \in D
        PROVE  <<"fd", d>> \in Owners(h) /\ Owners(h) = {<<"fd", d>>}
    <3>1. T = {} /\ D = {d}
      BY <2>2, <2>3
    <3> QED
      BY <2>1, <3>1
  <2>4. ASSUME NEW t \in T
        PROVE  <<"call", t>> \in Owners(h) /\ Owners(h) = {<<"call", t>>}
    <3>1. D = {} /\ T = {t}
      BY <2>2, <2>4
    <3> QED
      BY <2>1, <3>1
  <2> QED
    BY <2>2, <2>3, <2>4
<1>5. ASSUME NEW fd \in Ready
      PROVE  LET handle == At(open_files, At(fds, fd).handle)
             IN  handle # NULL /\ handle.node # UNSET /\ handle.use_count = 1
  <2>1. /\ At(fds, fd).handle \in Live(open_files)
        /\ At(open_files, At(fds, fd).handle) \in HandleType
    BY <1>1, <1>2 DEF HandlesOK
  <2>2. \A y \in HandleType : y.node # UNSET /\ y.use_count = 1
    BY KernelProxyAssumption DEF HandleType, UNSET
  <2> QED
    BY <1>3, <2>1, <2>2
<1>6. ASSUME NEW t \in Threads, call[t].at \in HasHandle
      PROVE  At(open_files, call[t].handle) # NULL
  BY <1>1, <1>3, <1>6 DEF HandlesOK, Hand
<1> QED
  BY <1>4, <1>5, <1>6 DEF TablesMatch

LEMMA IntactIs ==
    ASSUME TInv
    PROVE  IntactUnlessFreedEarly
<1> SUFFICES ASSUME ~ early
             PROVE  /\ NoCrash /\ NoDanglingChild /\ TreeWellFormed
                    /\ \A s \in Live(nodes) : ~ At(nodes, s).is_dir =>
                           /\ At(nodes, s).use_count > 0
                           /\ At(nodes, s).use_count = Cardinality(Links(s)) +
                                  Cardinality(HandlesInUse(s)) + Cardinality(Holders(s))
  BY DEF IntactUnlessFreedEarly
<1>1. PICK v : v = AllUsers(open_files, call)
  OBVIOUS
<1>2. Whole(nodes, v) /\ status = "ok" /\ WellFormed(open_files)
  BY <1>1 DEF TInv, TBasic, Tables, Intact
<1>3. NoCrash /\ NoDanglingChild /\ TreeWellFormed
  BY <1>2, WholeTree DEF NoCrash
<1>4. ASSUME NEW s
      PROVE  Uses(nodes, v, s) = Cardinality(Links(s)) +
                 Cardinality(HandlesInUse(s)) + Cardinality(Holders(s))
  <2>1. HandlesInUse(s) = HandlesAt(open_files, s) /\ Holders(s) = CallsAt(call, s)
    BY DEF HandlesInUse, HandlesOn, InUse, Holders, Holding, HandlesAt, CallsAt
  <2>2. Cardinality(Links(s)) = IF Linked(nodes, s) THEN 1 ELSE 0
    BY <1>2, LinksInTree DEF Whole
  <2>3. Cardinality(On(v, s))
            = Cardinality(HandlesAt(open_files, s)) + Cardinality(CallsAt(call, s))
    BY <1>1, <1>2, OnAllUsers
  <2>4. /\ Cardinality(HandlesAt(open_files, s)) \in Nat
        /\ Cardinality(CallsAt(call, s)) \in Nat
    <3>1. /\ HandlesAt(open_files, s) \in SUBSET InUse(open_files)
          /\ CallsAt(call, s) \in SUBSET Holding(call)
      BY DEF HandlesAt, CallsAt
    <3> QED
      BY <1>2, <3>1, AllUsersFinite, FS_Subset, FS_CardinalityType
  <2> QED
    BY <2>1, <2>2, <2>3, <2>4 DEF Uses
<1>5. \A s \in Live(nodes) : Counted(nodes, v, s)
  BY <1>2 DEF Whole
<1> QED
  BY <1>3, <1>4, <1>5 DEF Counted

(***************************************************************************)
(* Whatever calls of open(), close(), getdents() and the rest interleave   *)
(* between the calls they make of the two allocators, with no lock in      *)
(* base/KernelProxy.cc, as long as no thread closes a descriptor another   *)
(* is using: every handle belongs to one descriptor or to one call, every  *)
(* descriptor that open() returned leads to a handle that is filled in,    *)
(* and no call keeps the number of a handle that is gone.                  *)
(***************************************************************************)
THEOREM ThreadsTablesTheorem ==
    ASSUME NoRace
    PROVE  TSpec => []TablesMatch
<1>1. TSpec => []TInv
  BY TInvHolds
<1>2. TInv => TablesMatch
  BY TablesAreMatched
<1> QED
  BY <1>1, <1>2, PTL

(***************************************************************************)
(* And until one of them frees an inode that another still uses, the tree  *)
(* is well formed, nothing crashes, and use_count_ of every file is its    *)
(* entry, its handles and the calls half way through an open() or close(). *)
(***************************************************************************)
THEOREM IntactTheorem ==
    ASSUME NoRace
    PROVE  TSpec => []IntactUnlessFreedEarly
<1>1. TSpec => []TInv
  BY TInvHolds
<1>2. TInv => IntactUnlessFreedEarly
  BY IntactIs
<1> QED
  BY <1>1, <1>2, PTL
===============================================================================
