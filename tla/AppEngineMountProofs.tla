------------------------- MODULE AppEngineMountProofs -------------------------
(***************************************************************************)
(* Proofs about AppEngine/AppEngineMount.cc and AppEngineNode.cc for every *)
(* number of threads and paths, every file and every overlap of open()s.   *)
(***************************************************************************)
EXTENDS AppEngineMount, SlotAllocatorProofs, SequenceTheorems

NodeType == [path : Paths \cup {NULL}, data : Seq(Nat), len : {0}, use_count : Nat]
PatchType == [off : Nat, buf : Seq(Nat)]

(***************************************************************************)
(* Nothing is ever freed: every slot of the vector holds an inode.         *)
(***************************************************************************)
NodesOK ==
    /\ WellFormed(nodes)
    /\ nodes.size \in 1 .. MaxNodes
    /\ Live(nodes) = Index(nodes)
    /\ \A s \in Index(nodes) :
           /\ At(nodes, s) \in NodeType
           /\ s # 0 => At(nodes, s).path \in Paths /\ At(nodes, s).use_count > 0

\* Handles and waiting threads refer to inodes other than slot 0.
SlotsOK ==
    /\ handles \subseteq 1 .. nodes.size - 1
    /\ DOMAIN waiting = Threads
    /\ waiting \in [Threads -> [open : BOOLEAN, slot : 1 .. nodes.size - 1] \cup {NULL}]
    /\ up \in BOOLEAN

Inv == NodesOK /\ SlotsOK

\* An inode is no NULL.
LEMMA NodeNotNull == \A n \in NodeType : n # NULL
  BY NullAssumption DEF NodeType

(***************************************************************************)
(* What a step does to the vector: it appends an inode, or changes data    *)
(* and use count of one.                                                   *)
(***************************************************************************)
Grows(path) ==
    /\ WellFormed(nodes') /\ nodes'.size = nodes.size + 1
    /\ Live(nodes') = Index(nodes')
    /\ At(nodes', nodes.size) = Node(path)
    /\ \A s \in Index(nodes) : At(nodes', s) = At(nodes, s)
Changes(a, b, s, node) ==
    /\ WellFormed(b) /\ b.size = a.size
    /\ Live(b) = Index(b)
    /\ At(b, s) = node
    /\ \A t \in Index(a) : t # s => At(b, t) = At(a, t)

LEMMA AllocGrows ==
    ASSUME NodesOK, NEW path \in Paths, nodes' = Alloc(nodes, Node(path))
    PROVE  AllocSlot(nodes) = nodes.size /\ Grows(path)
<1> DEFINE n == AllocSlot(nodes)
<1>1. Node(path) \in NodeType
  BY DEF Node, NodeType
<1>2. Node(path) # NULL
  BY <1>1, NodeNotNull
<1>3. /\ WellFormed(nodes') /\ n \in 0 .. nodes.size /\ n \notin Live(nodes)
      /\ Live(nodes') = Live(nodes) \cup {n} /\ At(nodes', n) = Node(path)
      /\ \A s \in Int : s # n => At(nodes', s) = At(nodes, s)
      /\ \/ nodes'.size = nodes.size
         \/ nodes'.size = nodes.size + 1 /\ n = nodes.size
  BY <1>2, AllocFacts DEF NodesOK
<1> HIDE DEF n
<1>4. nodes.size \in Nat /\ Live(nodes) = 0 .. nodes.size - 1
  BY DEF NodesOK, WellFormed, Index
<1>5. n = nodes.size
  BY <1>3, <1>4
<1>6. n \in Live(nodes') /\ Live(nodes') \subseteq Index(nodes')
  BY <1>3, LiveIsIndex
<1>7. nodes'.size = nodes.size + 1
  BY <1>3, <1>4, <1>5, <1>6 DEF Index
<1>8. Live(nodes') = Index(nodes')
  BY <1>3, <1>4, <1>5, <1>7 DEF Index
<1>9. \A s \in Index(nodes) : s \in Int /\ s # n
  BY <1>4, <1>5 DEF Index
<1> QED
  BY <1>3, <1>5, <1>7, <1>8, <1>9 DEF Grows, n

LEMMA UpdateChanges ==
    ASSUME NEW a, WellFormed(a), Live(a) = Index(a), NEW s \in Index(a),
           NEW node \in NodeType
    PROVE  Changes(a, Update(a, s, node), s, node)
<1> DEFINE b == Update(a, s, node)
<1>1. node # NULL /\ s \in Live(a)
  BY NodeNotNull
<1>2. /\ WellFormed(b) /\ b.size = a.size
      /\ Live(b) = Live(a) /\ At(b, s) = node
      /\ \A t \in Int : t # s => At(b, t) = At(a, t)
  BY <1>1, UpdateFacts
<1> HIDE DEF b
<1>3. Index(b) = Index(a) /\ Index(a) \subseteq Int
  BY <1>2, LiveIsIndex DEF Index
<1> QED
  BY <1>2, <1>3 DEF Changes, b

\* IncrementUseCount() and DecrementUseCount() both count up.
LEMMA RefChanges ==
    ASSUME NEW a, WellFormed(a), Live(a) = Index(a), NEW s \in Index(a),
           At(a, s) \in NodeType
    PROVE  /\ Ref(a, s) = Unref(a, s)
           /\ Changes(a, Ref(a, s), s, [At(a, s) EXCEPT !.use_count = @ + 1])
<1> DEFINE node == [At(a, s) EXCEPT !.use_count = At(a, s).use_count + 1]
<1>1. At(a, s) # NULL /\ s \in Live(a) /\ s \in Int
  BY NodeNotNull, LiveIsIndex
<1>2. At(a, s) = a.slots[s]
  BY <1>1, LiveIsAt
<1>3. At(a, s).use_count + 1 > 0
  BY DEF NodeType
<1>4. Ref(a, s) = Update(a, s, node) /\ Unref(a, s) = Update(a, s, node)
  <2>1. Unref(a, s) = [a EXCEPT !.slots[s].use_count = At(a, s).use_count + 1]
    BY <1>1, <1>3 DEF Unref
  <2>2. Ref(a, s) = [a EXCEPT !.slots[s].use_count = At(a, s).use_count + 1]
    BY <1>1, <1>2, Zenon DEF Ref
  <2>3. [a EXCEPT !.slots[s].use_count = At(a, s).use_count + 1]
          = Update(a, s, node)
    BY <1>2, Zenon DEF Update
  <2> QED
    BY <2>1, <2>2, <2>3, Zenon
<1>5. node \in NodeType
  BY DEF NodeType
<1> QED
  BY <1>4, <1>5, UpdateChanges

LEMMA GrowsNodes ==
    ASSUME NodesOK, NEW path \in Paths, Grows(path), nodes.size < MaxNodes
    PROVE  NodesOK'
<1>1. nodes.size \in 1 .. MaxNodes /\ MaxNodes \in Nat
  BY AppEngineMountAssumption DEF NodesOK
<1>2. nodes'.size \in 1 .. MaxNodes
  BY <1>1 DEF Grows
<1>3. Index(nodes') = Index(nodes) \cup {nodes.size}
  BY <1>1 DEF Grows, Index
<1>4. /\ Node(path) \in NodeType /\ Node(path).path \in Paths
      /\ Node(path).use_count > 0
  BY DEF Node, NodeType
<1>5. \A s \in Index(nodes') :
          /\ At(nodes', s) \in NodeType
          /\ s # 0 => At(nodes', s).path \in Paths /\ At(nodes', s).use_count > 0
  BY <1>3, <1>4 DEF Grows, NodesOK
<1> QED
  BY <1>2, <1>5 DEF Grows, NodesOK

LEMMA ChangesNodes ==
    ASSUME NodesOK, NEW s \in Index(nodes), NEW node \in NodeType,
           Changes(nodes, nodes', s, node),
           s # 0 => node.path \in Paths /\ node.use_count > 0
    PROVE  NodesOK'
<1>1. Index(nodes') = Index(nodes)
  BY DEF Changes, Index
<1>2. \A t \in Index(nodes') :
          /\ At(nodes', t) \in NodeType
          /\ t # 0 => At(nodes', t).path \in Paths /\ At(nodes', t).use_count > 0
  BY <1>1 DEF Changes, NodesOK
<1> QED
  BY <1>2 DEF Changes, NodesOK

-------------------------------------------------------------------------------
(* The answers of the server.                                              *)

LEMMA BytesAreNumbers ==
    ASSUME NEW n \in Nat, NEW c \in [1 .. n -> Byte]
    PROVE  c \in Seq(Nat) /\ Len(c) = n
<1>1. Byte \subseteq Nat
  BY AppEngineMountAssumption
<1>2. c \in [1 .. n -> Nat]
  BY <1>1
<1> QED
  BY <1>2

\* Any part of an answer is a sequence of bytes, no longer than the file and
\* the status.
LEMMA ReplyType ==
    ASSUME NEW reply \in Replies
    PROVE  reply \in Seq(Nat) /\ Len(reply) <= MaxContent + 1
<1> DEFINE contents == UNION {[1 .. n -> Byte] : n \in 0 .. MaxContent}
           whole == {<<CharOne>> \o c : c \in contents} \cup {<<CharZero>>}
<1> USE AppEngineMountAssumption
<1>1. PICK r \in whole : reply \in {SubSeq(r, 1, n) : n \in 0 .. Len(r)}
  BY DEF Replies
<1>2. r \in Seq(Nat) /\ Len(r) <= MaxContent + 1
  <2>1. CASE r = <<CharZero>>
    BY <2>1 DEF CharZero
  <2>2. ASSUME NEW c \in contents, r = <<CharOne>> \o c
        PROVE  r \in Seq(Nat) /\ Len(r) <= MaxContent + 1
    <3>1. PICK n \in 0 .. MaxContent : c \in [1 .. n -> Byte]
      OBVIOUS
    <3>2. c \in Seq(Nat) /\ Len(c) = n
      <4>1. n \in Nat
        OBVIOUS
      <4> QED
        BY <3>1, <4>1, BytesAreNumbers
    <3>3. <<CharOne>> \in Seq(Nat) /\ Len(<<CharOne>>) = 1
      BY DEF CharOne
    <3> QED
      BY <2>2, <3>1, <3>2, <3>3
  <2> QED
    BY <2>1, <2>2
<1> HIDE DEF whole
<1>3. PICK n \in 0 .. Len(r) : reply = SubSeq(r, 1, n)
  BY <1>1
<1>4. /\ n \in Nat /\ n <= Len(r) /\ Len(r) \in Nat
      /\ \A i \in 1 .. n : r[i] \in Nat
  BY <1>2
<1>5. /\ SubSeq(r, 1, n) \in Seq(Nat)
      /\ Len(SubSeq(r, 1, n)) = IF 1 <= n THEN n - 1 + 1 ELSE 0
  BY <1>4, SubSeqProperties
<1> QED
  BY <1>2, <1>3, <1>4, <1>5

-------------------------------------------------------------------------------
(* Steps.                                                                  *)

LEMMA WaitingType ==
    ASSUME SlotsOK, NodesOK, NEW t \in Threads, waiting[t] # NULL
    PROVE  /\ waiting[t].open \in BOOLEAN
           /\ waiting[t].slot \in 1 .. nodes.size - 1
           /\ waiting[t].slot \in Index(nodes) /\ waiting[t].slot # 0
<1>1. waiting[t] \in [open : BOOLEAN, slot : 1 .. nodes.size - 1]
  BY DEF SlotsOK
<1>2. nodes.size \in Nat
  BY DEF NodesOK, WellFormed
<1>3. waiting[t].open \in BOOLEAN
  BY <1>1
<1>4. waiting[t].slot \in 1 .. nodes.size - 1
  BY <1>1
<1> QED
  BY <1>2, <1>3, <1>4 DEF Index

\* The end of Creat(): the inode of the request gets the answer.
LEMMA DoneChanges ==
    ASSUME Inv, NEW t \in Threads, NEW reply \in Replies, CreatDone(t, reply)
    PROVE  \E n \in Nat :
               /\ n >= At(nodes, waiting[t].slot).use_count
               /\ Changes(nodes, nodes', waiting[t].slot,
                          [At(nodes, waiting[t].slot) EXCEPT !.data = reply,
                                                             !.use_count = n])
<1> DEFINE s == waiting[t].slot
           old == At(nodes, s)
           node == [old EXCEPT !.data = reply]
           stored == [nodes EXCEPT !.slots[s].data = reply]
<1>1. s \in Index(nodes)
  BY WaitingType DEF CreatDone, Inv
<1>2. WellFormed(nodes) /\ Live(nodes) = Index(nodes) /\ old \in NodeType
  BY <1>1 DEF Inv, NodesOK
<1>3. reply \in Seq(Nat)
  BY ReplyType
<1>4. node \in NodeType /\ old.use_count \in Nat
  BY <1>2, <1>3 DEF NodeType
<1>5. stored = Update(nodes, s, node)
  <2>1. s \in Live(nodes) /\ s \in Int
    BY <1>1, <1>2, LiveIsIndex
  <2>2. old = nodes.slots[s]
    BY <1>2, <2>1, LiveIsAt
  <2> QED
    BY <2>2, Zenon DEF Update
<1>6. Changes(nodes, stored, s, node)
  BY <1>1, <1>2, <1>4, <1>5, UpdateChanges
<1>7. nodes' = IF waiting[t].open THEN Ref(stored, s) ELSE stored
  BY DEF CreatDone
<1> HIDE DEF stored, node, s
<1>8. CASE waiting[t].open
  <2>1. /\ WellFormed(stored) /\ Live(stored) = Index(stored)
        /\ Index(stored) = Index(nodes) /\ At(stored, s) = node
    BY <1>6 DEF Changes, Index
  <2>2. Changes(stored, nodes', s, [node EXCEPT !.use_count = @ + 1])
    BY <1>1, <1>4, <1>7, <1>8, <2>1, RefChanges
  <2>3. Changes(nodes, nodes', s, [node EXCEPT !.use_count = @ + 1])
    BY <1>6, <2>1, <2>2 DEF Changes
  <2>4. [node EXCEPT !.use_count = @ + 1]
          = [old EXCEPT !.data = reply, !.use_count = old.use_count + 1]
    BY <1>2 DEF node, NodeType
  <2>5. old.use_count + 1 \in Nat /\ old.use_count + 1 >= old.use_count
    BY <1>4
  <2> QED
    BY <2>3, <2>4, <2>5, Zenon DEF s
<1>9. CASE ~ waiting[t].open
  <2>1. node = [old EXCEPT !.data = reply, !.use_count = old.use_count]
    BY <1>2 DEF node, NodeType
  <2>2. Changes(nodes, nodes', s, node)
    BY <1>6, <1>7, <1>9
  <2>3. old.use_count >= old.use_count
    BY <1>4
  <2> QED
    BY <1>4, <2>1, <2>2, <2>3, Zenon DEF s
<1> QED
  BY <1>8, <1>9

\* close() changes no more than the use count.
LEMMA CloseChanges ==
    ASSUME Inv, NEW s \in handles, Close(s)
    PROVE  /\ s \in Index(nodes) /\ s # 0
           /\ Changes(nodes, nodes', s, [At(nodes, s) EXCEPT !.use_count = @ + 1])
<1>1. s \in 1 .. nodes.size - 1 /\ nodes.size \in Nat
  BY DEF Inv, SlotsOK, NodesOK, WellFormed
<1>2. s \in Index(nodes) /\ s # 0
  BY <1>1 DEF Index
<1>3. nodes' = Unref(nodes, s)
  BY DEF Close
<1> QED
  BY <1>2, <1>3, RefChanges DEF Inv, NodesOK

-------------------------------------------------------------------------------
(* write().                                                                *)

\* resize() leaves room for the write and cuts nothing off.
LEMMA GrownRoom ==
    ASSUME NEW size \in Nat, NEW end \in Nat
    PROVE  /\ Grown(size, end) \in Nat
           /\ Grown(size, end) >= size /\ Grown(size, end) >= end
           /\ Grown(size, end) = size \/ Grown(size, end) <= 2 * end
  BY DEF Grown

\* The bytes of data_ after a write.
Written(d, off, buf) ==
    [i \in 1 .. Grown(Len(d), off + Len(buf)) |->
        IF i > off /\ i <= off + Len(buf) THEN buf[i - off]
        ELSE IF i <= Len(d) THEN d[i]
        ELSE 0]

LEMMA WrittenType ==
    ASSUME NEW d \in Seq(Nat), NEW off \in Nat, NEW buf \in Seq(Nat)
    PROVE  /\ Written(d, off, buf) \in Seq(Nat)
           /\ Len(Written(d, off, buf)) = Grown(Len(d), off + Len(buf))
<1> DEFINE end == off + Len(buf)
           size == Grown(Len(d), end)
<1>1. Len(d) \in Nat /\ Len(buf) \in Nat /\ end \in Nat
  OBVIOUS
<1>2. size \in Nat
  BY <1>1, GrownRoom
<1>3. ASSUME NEW i \in 1 .. size
      PROVE  (IF i > off /\ i <= end THEN buf[i - off]
              ELSE IF i <= Len(d) THEN d[i] ELSE 0) \in Nat
  <2>1. i \in Nat /\ i >= 1
    BY <1>2
  <2>2. CASE i > off /\ i <= end
    <3>1. i - off \in 1 .. Len(buf)
      BY <1>1, <2>1, <2>2
    <3> QED
      BY <2>2, <3>1
  <2>3. CASE ~ (i > off /\ i <= end) /\ i <= Len(d)
    <3>1. i \in 1 .. Len(d)
      BY <1>1, <2>1, <2>3
    <3> QED
      BY <2>3, <3>1
  <2>4. CASE ~ (i > off /\ i <= end) /\ ~ (i <= Len(d))
    BY <2>4
  <2> QED
    BY <2>2, <2>3, <2>4
<1> HIDE DEF size
<1>4. Written(d, off, buf) \in [1 .. size -> Nat]
  BY <1>3 DEF Written, size
<1>5. Written(d, off, buf) \in Seq(Nat) /\ Len(Written(d, off, buf)) = size
  BY <1>2, <1>4
<1> QED
  BY <1>5 DEF size

\* WriteData() stores the bytes and leaves len_ at 0.
LEMMA WriteChanges ==
    ASSUME Inv, NEW s \in handles, NEW off \in Nat, NEW buf \in Seq(Nat),
           Write(s, off, buf)
    PROVE  /\ s \in Index(nodes) /\ s # 0
           /\ Changes(nodes, nodes', s,
                      [At(nodes, s) EXCEPT !.data = Written(@, off, buf)])
           /\ [At(nodes, s) EXCEPT !.data = Written(@, off, buf)] \in NodeType
<1> DEFINE old == At(nodes, s)
           node == [old EXCEPT !.data = Written(@, off, buf)]
           end == off + Len(buf)
           size == Grown(Len(old.data), end)
<1>1. s \in 1 .. nodes.size - 1 /\ nodes.size \in Nat
  BY DEF Inv, SlotsOK, NodesOK, WellFormed
<1>2. s \in Index(nodes) /\ s # 0
  BY <1>1 DEF Index
<1>3. WellFormed(nodes) /\ Live(nodes) = Index(nodes) /\ old \in NodeType
  BY <1>2 DEF Inv, NodesOK
<1>4. old.data \in Seq(Nat) /\ Written(old.data, off, buf) \in Seq(Nat)
  BY <1>3, WrittenType DEF NodeType
<1>5. node \in NodeType
  BY <1>3, <1>4 DEF NodeType
<1>6. ~ (end > size) /\ end \in Nat
  <2>1. Len(old.data) \in Nat /\ end \in Nat
    BY <1>4
  <2>2. size \in Nat /\ size >= end
    BY <2>1, GrownRoom
  <2> QED
    BY <2>1, <2>2
<1>7. nodes' = Update(nodes, s,
                      [old EXCEPT !.data = Written(old.data, off, buf),
                                  !.len = IF end > size THEN end ELSE @])
  BY Zenon DEF Write, Written
<1>8. [old EXCEPT !.data = Written(old.data, off, buf),
                  !.len = IF end > size THEN end ELSE @] = node
  BY <1>3, <1>6 DEF NodeType
<1>9. nodes' = Update(nodes, s, node)
  BY <1>7, <1>8, Zenon
<1> QED
  BY <1>2, <1>3, <1>5, <1>9, UpdateChanges

-------------------------------------------------------------------------------
(* Types.                                                                  *)

LEMMA InitInv == Init => Inv
<1> SUFFICES ASSUME Init PROVE Inv
  OBVIOUS
<1> DEFINE root == [Node(NULL) EXCEPT !.use_count = 0]
<1>1. root \in NodeType
  <2>1. root = [path |-> NULL, data |-> <<>>, len |-> 0, use_count |-> 0]
    BY DEF Node
  <2>2. <<>> \in Seq(Nat)
    OBVIOUS
  <2> QED
    BY <2>1, <2>2 DEF NodeType
<1>2. root # NULL /\ nodes = Alloc(EmptyAllocator, root)
  BY <1>1, NodeNotNull DEF Init, NewMount
<1>3. EmptyAllocator.size = 0
  BY DEF EmptyAllocator
<1> HIDE DEF root
<1>4. /\ WellFormed(nodes) /\ AllocSlot(EmptyAllocator) = 0
      /\ Live(nodes) = {0} /\ At(nodes, 0) = root
      /\ nodes.size = 0 \/ nodes.size = 1
  BY <1>2, <1>3, AllocFacts, EmptyWellFormed
<1>5. nodes.size = 1
  BY <1>4 DEF Live, Index
<1>6. Index(nodes) = {0}
  BY <1>5 DEF Index
<1>7. NodesOK
  BY <1>1, <1>4, <1>5, <1>6, AppEngineMountAssumption DEF NodesOK
<1>8. SlotsOK
  BY DEF Init, SlotsOK
<1> QED
  BY <1>7, <1>8 DEF Inv

LEMMA InvStep == Inv /\ [Next]_vars => Inv'
<1> SUFFICES ASSUME Inv, [Next]_vars PROVE Inv'
  OBVIOUS
<1> USE DEF Inv
<1>0. nodes.size \in Nat /\ WellFormed(nodes)
  BY DEF NodesOK, WellFormed
<1>1. ASSUME NEW t \in Threads, NEW path \in Paths, NEW open \in BOOLEAN,
             CreatStart(t, path, open)
      PROVE  Inv'
  <2>1. /\ nodes' = Alloc(nodes, Node(path)) /\ AllocSlot(nodes) < MaxNodes
        /\ waiting' = [waiting EXCEPT ![t] = [open |-> open, slot |-> AllocSlot(nodes)]]
        /\ handles' = handles /\ up' = up
    BY <1>1 DEF CreatStart
  <2>2. AllocSlot(nodes) = nodes.size /\ Grows(path)
    BY <2>1, AllocGrows
  <2>3. NodesOK'
    BY <2>1, <2>2, GrowsNodes
  <2>4. nodes'.size = nodes.size + 1
    BY <2>2 DEF Grows
  <2>5. nodes.size \in 1 .. nodes'.size - 1
        /\ 1 .. nodes.size - 1 \subseteq 1 .. nodes'.size - 1
    BY <1>0, <2>4 DEF NodesOK
  <2>6. [open |-> open, slot |-> nodes.size]
          \in [open : BOOLEAN, slot : 1 .. nodes'.size - 1]
    BY <2>5
  <2>7. waiting' \in [Threads -> [open : BOOLEAN, slot : 1 .. nodes'.size - 1]
                                     \cup {NULL}]
    BY <2>1, <2>2, <2>5, <2>6 DEF SlotsOK
  <2> QED
    BY <2>1, <2>3, <2>5, <2>7 DEF SlotsOK
<1>2. ASSUME CreatRoot PROVE Inv'
  BY <1>2 DEF CreatRoot, NodesOK, SlotsOK
<1>3. ASSUME NEW t \in Threads, NEW reply \in Replies, CreatDone(t, reply)
      PROVE  Inv'
  <2> DEFINE s == waiting[t].slot
             old == At(nodes, s)
  <2>1. s \in Index(nodes) /\ s # 0 /\ s \in 1 .. nodes.size - 1
    BY <1>3, WaitingType DEF CreatDone
  <2>2. PICK n \in Nat :
            /\ n >= old.use_count
            /\ Changes(nodes, nodes', s, [old EXCEPT !.data = reply, !.use_count = n])
    BY <1>3, DoneChanges
  <2>3. old \in NodeType /\ old.path \in Paths /\ old.use_count > 0
    BY <2>1 DEF NodesOK
  <2> HIDE DEF old, s
  <2>4. reply \in Seq(Nat)
    BY ReplyType
  <2>5. /\ [old EXCEPT !.data = reply, !.use_count = n] \in NodeType
        /\ [old EXCEPT !.data = reply, !.use_count = n].path \in Paths
        /\ [old EXCEPT !.data = reply, !.use_count = n].use_count > 0
    <3> DEFINE node == [old EXCEPT !.data = reply, !.use_count = n]
    <3>1. n > 0
      BY <2>2, <2>3 DEF NodeType
    <3>2. node = [path |-> old.path, data |-> reply, len |-> old.len, use_count |-> n]
      <4>1. old = [path |-> old.path, data |-> old.data, len |-> old.len,
                   use_count |-> old.use_count]
        BY <2>3 DEF NodeType
      <4>2. PICK p, d, l, u :
                old = [path |-> p, data |-> d, len |-> l, use_count |-> u]
        BY <4>1
      <4>3. [old EXCEPT !.data = reply]
              = [path |-> p, data |-> reply, len |-> l, use_count |-> u]
        BY <4>2
      <4>4. [[path |-> p, data |-> reply, len |-> l, use_count |-> u]
                EXCEPT !.use_count = n]
              = [path |-> p, data |-> reply, len |-> l, use_count |-> n]
        OBVIOUS
      <4>5. old.path = p /\ old.len = l
        BY <4>2
      <4> QED
        BY <4>3, <4>4, <4>5, Zenon
    <3>3. old.path \in Paths /\ old.len \in {0}
      BY <2>3 DEF NodeType
    <3> HIDE DEF node
    <3>4. node \in NodeType /\ node.path \in Paths /\ node.use_count > 0
      BY <2>4, <3>1, <3>2, <3>3 DEF NodeType
    <3> QED
      BY <3>4 DEF node
  <2>6. NodesOK'
    BY <2>1, <2>2, <2>5, ChangesNodes
  <2>7. nodes'.size = nodes.size
    BY <2>2 DEF Changes
  <2>8. /\ handles' = IF waiting[t].open THEN handles \cup {s} ELSE handles
        /\ waiting' = [waiting EXCEPT ![t] = NULL]
        /\ up' = up
    BY <1>3 DEF CreatDone, s
  <2>9. handles' \subseteq 1 .. nodes'.size - 1
    BY <2>1, <2>7, <2>8 DEF SlotsOK
  <2>10. waiting' \in [Threads -> [open : BOOLEAN, slot : 1 .. nodes'.size - 1]
                                     \cup {NULL}]
    BY <2>7, <2>8 DEF SlotsOK
  <2> QED
    BY <2>6, <2>8, <2>9, <2>10 DEF SlotsOK
<1>4. ASSUME NEW s \in handles, Close(s) PROVE Inv'
  <2> DEFINE old == At(nodes, s)
             node == [old EXCEPT !.use_count = @ + 1]
  <2>1. s \in Index(nodes) /\ s # 0 /\ Changes(nodes, nodes', s, node)
    BY <1>4, CloseChanges
  <2>2. old \in NodeType /\ old.path \in Paths /\ old.use_count > 0
    BY <2>1 DEF NodesOK
  <2>3. node \in NodeType /\ node.path \in Paths /\ node.use_count > 0
    BY <2>2 DEF NodeType
  <2> HIDE DEF node
  <2>4. NodesOK'
    BY <2>1, <2>3, ChangesNodes
  <2>5. nodes'.size = nodes.size
    BY <2>1 DEF Changes
  <2> QED
    BY <1>4, <2>4, <2>5 DEF Close, SlotsOK
<1>5. ASSUME NEW s \in handles, NEW off \in 0 .. MaxOffset, NEW n \in 0 .. MaxCount,
             NEW buf \in [1 .. n -> Byte], Write(s, off, buf)
      PROVE  Inv'
  <2> DEFINE old == At(nodes, s)
             node == [old EXCEPT !.data = Written(@, off, buf)]
  <2>1. off \in Nat /\ buf \in Seq(Nat)
    <3>1. n \in Nat /\ off \in Nat
      BY AppEngineMountAssumption
    <3> QED
      BY <3>1, BytesAreNumbers
  <2>2. /\ s \in Index(nodes) /\ s # 0 /\ Changes(nodes, nodes', s, node)
        /\ node \in NodeType
    BY <1>5, <2>1, WriteChanges
  <2>3. old \in NodeType /\ old.path \in Paths /\ old.use_count > 0
    BY <2>2 DEF NodesOK
  <2>4. node.path \in Paths /\ node.use_count > 0
    BY <2>3 DEF NodeType
  <2> HIDE DEF node
  <2>5. NodesOK'
    BY <2>2, <2>4, ChangesNodes
  <2>6. nodes'.size = nodes.size
    BY <2>2 DEF Changes
  <2> QED
    BY <1>5, <2>5, <2>6 DEF Write, SlotsOK
<1>6. ASSUME NEW s \in handles, NEW lines \in Listings, Getdents(s, lines)
      PROVE  Inv'
  <2>1. up' \in BOOLEAN
    BY <1>6 DEF Getdents
  <2> QED
    BY <1>6, <2>1 DEF Getdents, NodesOK, SlotsOK
<1>7. CASE UNCHANGED vars
  BY <1>7 DEF vars, NodesOK, SlotsOK
<1> QED
  BY <1>1, <1>2, <1>3, <1>4, <1>5, <1>6, <1>7 DEF Next, Fsync

LEMMA InvInvariance == Spec => []Inv
  BY InitInv, InvStep, PTL DEF Spec

(***************************************************************************)
(* Every inode that a handle or a waiting thread has is an inode of the    *)
(* vector with a path and a positive use count, and its len_ is 0.         *)
(***************************************************************************)
THEOREM TypeTheorem == Spec => []TypeOK
<1>1. Inv => TypeOK
  <2> SUFFICES ASSUME Inv PROVE TypeOK
    OBVIOUS
  <2>1. nodes.size <= MaxNodes
    BY AppEngineMountAssumption DEF Inv, NodesOK
  <2>2. \A s \in Live(nodes) \ {0} : /\ At(nodes, s).path \in Paths
                                     /\ At(nodes, s).use_count > 0
                                     /\ At(nodes, s).len = 0
    BY DEF Inv, NodesOK, NodeType
  <2>3. \A t \in Threads : waiting[t] # NULL => waiting[t].slot \in 1 .. nodes.size - 1
    BY WaitingType DEF Inv
  <2> QED
    BY <2>1, <2>2, <2>3 DEF TypeOK, Inv, SlotsOK
<1> QED
  BY <1>1, InvInvariance, PTL

-------------------------------------------------------------------------------
(* Inode numbers.                                                          *)

\* An inode that is changed keeps its path.
LEMMA ChangesKeepPaths ==
    ASSUME NodesOK, NEW s \in Index(nodes), NEW node, node # NULL,
           Changes(nodes, nodes', s, node), node.path = At(nodes, s).path
    PROVE  \A r \in Live(nodes) : /\ At(nodes', r) # NULL
                                  /\ At(nodes', r).path = At(nodes, r).path
<1>1. \A r \in Live(nodes) : r \in Index(nodes) /\ At(nodes, r) # NULL
  BY NodeNotNull DEF NodesOK
<1> QED
  BY <1>1 DEF Changes

(***************************************************************************)
(* No step frees an inode or gives its number to another path, so the      *)
(* number a thread holds across a remote call never goes stale: the Free() *)
(* in Unref() is dead code.                                                *)
(***************************************************************************)
THEOREM ForeverTheorem == Spec => InodeIsForever
<1> DEFINE Kept == \A s \in Live(nodes) : /\ At(nodes', s) # NULL
                                          /\ At(nodes', s).path = At(nodes, s).path
<1>1. Inv /\ [Next]_vars => [Kept]_vars
  <2> SUFFICES ASSUME Inv, [Next]_vars PROVE Kept \/ UNCHANGED vars
    BY Zenon
  <2>0. NodesOK
    BY DEF Inv
  <2>1. \A s \in Live(nodes) : s \in Index(nodes) /\ At(nodes, s) # NULL
    BY <2>0, NodeNotNull DEF NodesOK
  <2>2. nodes' = nodes => Kept
    BY <2>1
  <2>3. ASSUME NEW t \in Threads, NEW path \in Paths, NEW open \in BOOLEAN,
               CreatStart(t, path, open)
        PROVE  Kept
    <3>1. Grows(path)
      BY <2>0, <2>3, AllocGrows DEF CreatStart
    <3> QED
      BY <2>1, <3>1 DEF Grows
  <2>4. ASSUME NEW t \in Threads, NEW reply \in Replies, CreatDone(t, reply)
        PROVE  Kept
    <3> DEFINE s == waiting[t].slot
               old == At(nodes, s)
    <3>1. s \in Index(nodes) /\ old \in NodeType
      BY <2>0, <2>4, WaitingType DEF CreatDone, Inv, NodesOK
    <3>2. PICK n \in Nat :
              Changes(nodes, nodes', s, [old EXCEPT !.data = reply, !.use_count = n])
      BY <2>4, DoneChanges
    <3> HIDE DEF s, old
    <3>3. [old EXCEPT !.data = reply, !.use_count = n].path = old.path
          /\ [old EXCEPT !.data = reply, !.use_count = n] \in NodeType
      <4>1. reply \in Seq(Nat)
        BY ReplyType
      <4>2. [old EXCEPT !.data = reply] \in NodeType
            /\ [old EXCEPT !.data = reply].path = old.path
        BY <3>1, <4>1 DEF NodeType
      <4>3. ASSUME NEW m \in NodeType
            PROVE  /\ [m EXCEPT !.use_count = n] \in NodeType
                   /\ [m EXCEPT !.use_count = n].path = m.path
        BY DEF NodeType
      <4> QED
        BY <4>2, <4>3, Zenon
    <3>4. [old EXCEPT !.data = reply, !.use_count = n] # NULL
      BY <3>3, NodeNotNull, Zenon
    <3> QED
      BY <2>0, <3>1, <3>2, <3>3, <3>4, ChangesKeepPaths DEF old
  <2>5. ASSUME NEW s \in handles, Close(s) PROVE Kept
    <3> DEFINE node == [At(nodes, s) EXCEPT !.use_count = @ + 1]
    <3>1. s \in Index(nodes) /\ Changes(nodes, nodes', s, node)
      BY <2>5, CloseChanges
    <3>2. node \in NodeType /\ node.path = At(nodes, s).path
      BY <2>0, <3>1 DEF NodesOK, NodeType
    <3> HIDE DEF node
    <3> QED
      BY <2>0, <3>1, <3>2, NodeNotNull, ChangesKeepPaths
  <2>6. ASSUME NEW s \in handles, NEW off \in 0 .. MaxOffset,
               NEW n \in 0 .. MaxCount, NEW buf \in [1 .. n -> Byte],
               Write(s, off, buf)
        PROVE  Kept
    <3> DEFINE node == [At(nodes, s) EXCEPT !.data = Written(@, off, buf)]
    <3>1. off \in Nat /\ n \in Nat
      BY AppEngineMountAssumption
    <3>2. buf \in Seq(Nat)
      BY <3>1, BytesAreNumbers
    <3>3. s \in Index(nodes) /\ Changes(nodes, nodes', s, node) /\ node \in NodeType
      BY <2>6, <3>1, <3>2, WriteChanges
    <3>4. node.path = At(nodes, s).path
      BY <2>0, <3>3 DEF NodesOK, NodeType
    <3> HIDE DEF node
    <3> QED
      BY <2>0, <3>3, <3>4, NodeNotNull, ChangesKeepPaths
  <2> HIDE DEF Kept
  <2> QED
    BY <2>2, <2>3, <2>4, <2>5, <2>6
    DEF Next, Fsync, CreatRoot, Getdents, vars
<1> QED
  BY <1>1, InvInvariance, PTL DEF Spec, InodeIsForever

-------------------------------------------------------------------------------
(* Contents.                                                               *)

\* The stores of p that reach byte i, and what they leave there.
Covers(p, i) == {k \in DOMAIN p : i > p[k].off /\ i <= p[k].off + Len(p[k].buf)}
Stored(p, i) == IF Covers(p, i) = {} THEN 0
                ELSE p[Max(Covers(p, i))].buf[i - p[Max(Covers(p, i))].off]

\* d is what the stores of p leave: DataIsOwn for one inode.
Own(p, d) == /\ \A i \in DOMAIN d : d[i] = Stored(p, i)
             /\ \A k \in DOMAIN p : p[k].off + Len(p[k].buf) <= Len(d)

MaxSize == MaxContent + 1 + 2 * (MaxOffset + MaxCount)

\* A slot that the vector does not have yet has no stores: a new inode starts
\* with none.
DataInv ==
    /\ patches \in [0 .. MaxNodes - 1 -> Seq(PatchType)]
    /\ \A s \in 0 .. MaxNodes - 1 : s >= nodes.size => patches[s] = <<>>
    /\ \A s \in Index(nodes) : /\ Own(patches[s], At(nodes, s).data)
                               /\ Len(At(nodes, s).data) <= MaxSize

\* The latest store that reaches a byte is one of them.
LEMMA LatestCovers ==
    ASSUME NEW p \in Seq(PatchType), NEW i, Covers(p, i) # {}
    PROVE  Max(Covers(p, i)) \in Covers(p, i)
<1>1. Len(p) + 1 \in Nat /\ Covers(p, i) \in SUBSET (0 .. (Len(p) + 1) - 1)
  BY DEF Covers
<1>2. \E m \in Covers(p, i) : \A k \in Covers(p, i) : m >= k
  BY <1>1, MaxExists
<1> QED
  BY <1>2 DEF Max

LEMMA OwnEmpty == Own(<<>>, <<>>)
  BY DEF Own

\* Creat() leaves just the answer.
LEMMA OwnReply ==
    ASSUME NEW d \in Seq(Nat)
    PROVE  Own(<<[off |-> 0, buf |-> d]>>, d)
<1> DEFINE p == <<[off |-> 0, buf |-> d]>>
<1>1. DOMAIN p = {1} /\ p[1].off = 0 /\ p[1].buf = d /\ Len(d) \in Nat
  OBVIOUS
<1> HIDE DEF p
<1>2. ASSUME NEW i \in DOMAIN d PROVE d[i] = Stored(p, i)
  <2>1. i \in 1 .. Len(d)
    OBVIOUS
  <2>2. Covers(p, i) = {1}
    BY <1>1, <2>1 DEF Covers
  <2>3. Max(Covers(p, i)) = 1
    BY <2>2 DEF Max
  <2> QED
    BY <1>1, <2>1, <2>2, <2>3 DEF Stored
<1>3. Own(p, d)
  BY <1>1, <1>2 DEF Own
<1> QED
  BY <1>3 DEF p

\* WriteData() lays its bytes over what was there.
LEMMA OwnWrite ==
    ASSUME NEW p \in Seq(PatchType), NEW d \in Seq(Nat), Own(p, d),
           NEW off \in Nat, NEW buf \in Seq(Nat)
    PROVE  Own(Append(p, [off |-> off, buf |-> buf]), Written(d, off, buf))
<1> DEFINE q == Append(p, [off |-> off, buf |-> buf])
           e == Written(d, off, buf)
           n == Len(p) + 1
           end == off + Len(buf)
           size == Grown(Len(d), end)
<1>1. /\ Len(p) \in Nat /\ Len(d) \in Nat /\ Len(buf) \in Nat /\ end \in Nat
      /\ n \in Nat /\ DOMAIN p = 1 .. Len(p)
  OBVIOUS
<1>2. /\ DOMAIN q = 1 .. n
      /\ \A k \in 1 .. Len(p) : q[k] = p[k]
      /\ q[n].off = off /\ q[n].buf = buf
  OBVIOUS
<1>3. size \in Nat /\ size >= Len(d) /\ size >= end
  BY <1>1, GrownRoom
<1>4. DOMAIN e = 1 .. size /\ Len(e) = size
  BY WrittenType DEF Written
<1>5. \A i \in 1 .. size : e[i] = IF i > off /\ i <= end THEN buf[i - off]
                                  ELSE IF i <= Len(d) THEN d[i] ELSE 0
  BY DEF Written
<1>6. \A k \in 1 .. Len(p) : /\ p[k].off \in Nat /\ Len(p[k].buf) \in Nat
                             /\ p[k].off + Len(p[k].buf) <= Len(d)
  <2> SUFFICES ASSUME NEW k \in 1 .. Len(p)
               PROVE  /\ p[k].off \in Nat /\ Len(p[k].buf) \in Nat
                      /\ p[k].off + Len(p[k].buf) <= Len(d)
    OBVIOUS
  <2>1. p[k] \in PatchType
    OBVIOUS
  <2>2. p[k].off \in Nat /\ p[k].buf \in Seq(Nat)
    BY <2>1 DEF PatchType
  <2>3. Len(p[k].buf) \in Nat
    BY <2>2
  <2> QED
    BY <1>1, <2>2, <2>3 DEF Own
<1> HIDE DEF q, e, n, size
<1>7. 1 .. n = (1 .. Len(p)) \cup {n} /\ n \notin 1 .. Len(p)
  BY <1>1 DEF n
<1>8. ASSUME NEW i \in 1 .. size PROVE e[i] = Stored(q, i)
  <2>0. i \in Nat /\ i >= 1
    BY <1>3
  <2>1. CASE i > off /\ i <= end
    <3>1. n \in Covers(q, i)
      BY <1>2, <1>7, <2>1 DEF Covers
    <3>2. \A k \in Covers(q, i) : k \in 1 .. n
      BY <1>2 DEF Covers
    <3>3. Max(Covers(q, i)) = n
      <4>1. \A k \in Covers(q, i) : n >= k
        BY <1>1, <3>2
      <4>2. \A m \in Covers(q, i) : (\A k \in Covers(q, i) : m >= k) => m = n
        BY <1>1, <3>1, <3>2
      <4> QED
        BY <3>1, <4>1, <4>2 DEF Max
    <3> QED
      BY <1>2, <1>5, <2>1, <3>1, <3>3 DEF Stored
  <2>2. CASE ~ (i > off /\ i <= end)
    <3>1. Covers(q, i) = Covers(p, i)
      BY <1>1, <1>2, <1>7, <2>2 DEF Covers
    <3>2. Stored(q, i) = Stored(p, i)
      <4>1. Covers(p, i) # {} => Max(Covers(p, i)) \in 1 .. Len(p)
        BY <1>1, LatestCovers DEF Covers
      <4> QED
        BY <1>2, <3>1, <4>1 DEF Stored
    <3>3. CASE i <= Len(d)
      <4>1. i \in DOMAIN d
        BY <1>1, <2>0, <3>3
      <4> QED
        BY <1>5, <2>2, <3>2, <3>3, <4>1 DEF Own
    <3>4. CASE ~ (i <= Len(d))
      <4>1. Covers(p, i) = {}
        BY <1>1, <1>6, <2>0, <3>4 DEF Covers
      <4> QED
        BY <1>5, <2>2, <3>2, <3>4, <4>1 DEF Stored
    <3> QED
      BY <3>3, <3>4
  <2> QED
    BY <2>1, <2>2
<1>9. ASSUME NEW k \in 1 .. n PROVE q[k].off + Len(q[k].buf) <= Len(e)
  <2>1. CASE k \in 1 .. Len(p)
    BY <1>1, <1>2, <1>3, <1>4, <1>6, <2>1
  <2>2. CASE k = n
    BY <1>2, <1>3, <1>4, <2>2
  <2> QED
    BY <1>7, <2>1, <2>2
<1> QED
  BY <1>2, <1>4, <1>8, <1>9 DEF Own, q, e

LEMMA GrowsData ==
    ASSUME Inv, DataInv, NEW path \in Paths, Grows(path), nodes.size < MaxNodes,
           patches' = patches
    PROVE  DataInv'
<1>1. nodes.size \in Nat /\ MaxNodes \in Nat
  BY AppEngineMountAssumption DEF Inv, NodesOK, WellFormed
<1>2. nodes'.size = nodes.size + 1
  BY DEF Grows
<1>3. Index(nodes') = Index(nodes) \cup {nodes.size} /\ nodes.size \in 0 .. MaxNodes - 1
  BY <1>1, <1>2 DEF Index
<1>4. \A s \in 0 .. MaxNodes - 1 : s >= nodes'.size => patches[s] = <<>>
  BY <1>1, <1>2 DEF DataInv
<1>5. patches[nodes.size] = <<>>
  BY <1>1, <1>3 DEF DataInv
<1>6. At(nodes', nodes.size).data = <<>>
  BY DEF Grows, Node
<1>7. Len(<<>>) <= MaxSize
  BY AppEngineMountAssumption DEF MaxSize
<1>8. ASSUME NEW s \in Index(nodes')
      PROVE  Own(patches[s], At(nodes', s).data) /\ Len(At(nodes', s).data) <= MaxSize
  <2>1. CASE s \in Index(nodes)
    BY <2>1 DEF DataInv, Grows
  <2>2. CASE s = nodes.size
    BY <1>5, <1>6, <1>7, <2>2, OwnEmpty
  <2> QED
    BY <1>3, <2>1, <2>2
<1> QED
  BY <1>4, <1>8 DEF DataInv

LEMMA ChangesData ==
    ASSUME Inv, DataInv, NEW s \in Index(nodes), NEW node,
           Changes(nodes, nodes', s, node), NEW p \in Seq(PatchType),
           patches' = [patches EXCEPT ![s] = p],
           Own(p, node.data), Len(node.data) <= MaxSize
    PROVE  DataInv'
<1>1. nodes.size \in 1 .. MaxNodes /\ MaxNodes \in Nat
  BY AppEngineMountAssumption DEF Inv, NodesOK
<1>2. nodes'.size = nodes.size /\ Index(nodes') = Index(nodes)
  BY DEF Changes, Index
<1>3. s \in 0 .. MaxNodes - 1 /\ s < nodes.size
  BY <1>1 DEF Index
<1>4. patches' \in [0 .. MaxNodes - 1 -> Seq(PatchType)]
  BY <1>3 DEF DataInv
<1>5. patches'[s] = p /\ \A r \in 0 .. MaxNodes - 1 : r # s => patches'[r] = patches[r]
  BY <1>3 DEF DataInv
<1>6. \A r \in 0 .. MaxNodes - 1 : r >= nodes'.size => patches'[r] = <<>>
  BY <1>1, <1>2, <1>3, <1>5 DEF DataInv
<1>7. ASSUME NEW r \in Index(nodes')
      PROVE  Own(patches'[r], At(nodes', r).data) /\ Len(At(nodes', r).data) <= MaxSize
  <2>1. r \in 0 .. MaxNodes - 1 /\ r \in Index(nodes)
    BY <1>1, <1>2 DEF Index
  <2>2. CASE r = s
    BY <1>5, <2>2 DEF Changes
  <2>3. CASE r # s
    BY <1>5, <2>1, <2>3 DEF Changes, DataInv
  <2> QED
    BY <2>2, <2>3
<1> QED
  BY <1>4, <1>6, <1>7 DEF DataInv

LEMMA InitData == Init => DataInv
<1> SUFFICES ASSUME Init PROVE DataInv
  OBVIOUS
<1> DEFINE root == [Node(NULL) EXCEPT !.use_count = 0]
<1>1. root # NULL /\ root.data = <<>>
  <2>1. root = [path |-> NULL, data |-> <<>>, len |-> 0, use_count |-> 0]
    BY DEF Node
  <2>2. root \in NodeType
    <3>1. <<>> \in Seq(Nat)
      OBVIOUS
    <3> QED
      BY <2>1, <3>1 DEF NodeType
  <2> QED
    BY <2>1, <2>2, NodeNotNull
<1>2. nodes = Alloc(EmptyAllocator, root) /\ EmptyAllocator.size = 0
  BY DEF Init, NewMount, EmptyAllocator
<1> HIDE DEF root
<1>3. At(nodes, 0) = root /\ Live(nodes) = {0}
  BY <1>1, <1>2, AllocFacts, EmptyWellFormed
<1>4. Index(nodes) = {0}
  BY <1>3, InitInv DEF Inv, NodesOK
<1>5. Len(<<>>) <= MaxSize
  BY AppEngineMountAssumption DEF MaxSize
<1>6. /\ patches \in [0 .. MaxNodes - 1 -> Seq(PatchType)]
      /\ \A s \in 0 .. MaxNodes - 1 : patches[s] = <<>>
  <2>1. <<>> \in Seq(PatchType)
    OBVIOUS
  <2> QED
    BY <2>1 DEF Init
<1>7. 0 \in 0 .. MaxNodes - 1
  BY AppEngineMountAssumption
<1> QED
  BY <1>1, <1>3, <1>4, <1>5, <1>6, <1>7, OwnEmpty DEF DataInv

LEMMA DataStep == Inv /\ DataInv /\ [Next]_vars => DataInv'
<1> SUFFICES ASSUME Inv, DataInv, [Next]_vars PROVE DataInv'
  OBVIOUS
<1>0. NodesOK
  BY DEF Inv
<1>1. nodes' = nodes /\ patches' = patches => DataInv'
  BY DEF DataInv
<1>2. \A s \in Index(nodes) : patches[s] \in Seq(PatchType)
                              /\ patches = [patches EXCEPT ![s] = patches[s]]
  <2>1. Index(nodes) \subseteq 0 .. MaxNodes - 1
    BY <1>0, AppEngineMountAssumption DEF NodesOK, Index
  <2> QED
    BY <2>1 DEF DataInv
<1>3. ASSUME NEW t \in Threads, NEW path \in Paths, NEW open \in BOOLEAN,
             CreatStart(t, path, open)
      PROVE  DataInv'
  <2>1. AllocSlot(nodes) = nodes.size /\ Grows(path)
    BY <1>0, <1>3, AllocGrows DEF CreatStart
  <2> QED
    BY <1>3, <2>1, GrowsData DEF CreatStart
<1>4. ASSUME NEW t \in Threads, NEW reply \in Replies, CreatDone(t, reply)
      PROVE  DataInv'
  <2> DEFINE s == waiting[t].slot
             old == At(nodes, s)
             p == <<[off |-> 0, buf |-> reply]>>
  <2>1. s \in Index(nodes) /\ old \in NodeType
    BY <1>0, <1>4, WaitingType DEF CreatDone, Inv, NodesOK
  <2>2. PICK n \in Nat :
            Changes(nodes, nodes', s, [old EXCEPT !.data = reply, !.use_count = n])
    BY <1>4, DoneChanges
  <2>3. reply \in Seq(Nat) /\ Len(reply) <= MaxContent + 1 /\ Len(reply) \in Nat
    BY ReplyType
  <2>4. [off |-> 0, buf |-> reply] \in PatchType
    BY <2>3 DEF PatchType
  <2>5. p \in Seq(PatchType)
    BY <2>4
  <2>6. Own(p, reply)
    BY <2>3, OwnReply
  <2>7. patches' = [patches EXCEPT ![s] = p]
    BY <1>4 DEF CreatDone
  <2> HIDE DEF s, old, p
  <2>8. [old EXCEPT !.data = reply, !.use_count = n].data = reply
    <3>1. [old EXCEPT !.data = reply] \in NodeType
          /\ [old EXCEPT !.data = reply].data = reply
      BY <2>1, <2>3 DEF NodeType
    <3>2. ASSUME NEW m \in NodeType PROVE [m EXCEPT !.use_count = n].data = m.data
      BY DEF NodeType
    <3> QED
      BY <3>1, <3>2, Zenon
  <2>9. Len(reply) <= MaxSize
    BY <2>3, AppEngineMountAssumption DEF MaxSize
  <2>10. PICK node : node = [old EXCEPT !.data = reply, !.use_count = n]
    OBVIOUS
  <2>11. Changes(nodes, nodes', s, node) /\ node.data = reply
    BY <2>2, <2>8, <2>10, Zenon
  <2> QED
    BY <2>1, <2>5, <2>6, <2>7, <2>9, <2>11, ChangesData
<1>5. ASSUME NEW s \in handles, Close(s) PROVE DataInv'
  <2> DEFINE node == [At(nodes, s) EXCEPT !.use_count = @ + 1]
  <2>1. s \in Index(nodes) /\ Changes(nodes, nodes', s, node)
    BY <1>5, CloseChanges
  <2>2. node.data = At(nodes, s).data
    BY <1>0, <2>1 DEF NodesOK, NodeType
  <2>3. patches' = [patches EXCEPT ![s] = patches[s]]
    BY <1>2, <1>5, <2>1 DEF Close
  <2>4. Own(patches[s], At(nodes, s).data) /\ Len(At(nodes, s).data) <= MaxSize
    BY <2>1 DEF DataInv
  <2> HIDE DEF node
  <2> QED
    BY <1>2, <2>1, <2>2, <2>3, <2>4, ChangesData
<1>6. ASSUME NEW s \in handles, NEW off \in 0 .. MaxOffset, NEW n \in 0 .. MaxCount,
             NEW buf \in [1 .. n -> Byte], Write(s, off, buf)
      PROVE  DataInv'
  <2> DEFINE node == [At(nodes, s) EXCEPT !.data = Written(@, off, buf)]
             d == At(nodes, s).data
             p == Append(patches[s], [off |-> off, buf |-> buf])
  <2>1. /\ off \in Nat /\ n \in Nat /\ off <= MaxOffset /\ n <= MaxCount
        /\ MaxOffset \in Nat /\ MaxCount \in Nat /\ MaxContent \in Nat
    BY AppEngineMountAssumption
  <2>2. buf \in Seq(Nat) /\ Len(buf) = n
    BY <2>1, BytesAreNumbers
  <2>3. s \in Index(nodes) /\ Changes(nodes, nodes', s, node)
    BY <1>6, <2>1, <2>2, WriteChanges
  <2>4. node.data = Written(d, off, buf) /\ d \in Seq(Nat)
    BY <1>0, <2>3 DEF NodesOK, NodeType
  <2>5. Own(p, Written(d, off, buf))
    BY <1>2, <2>1, <2>2, <2>3, <2>4, OwnWrite DEF DataInv
  <2>6. Len(Written(d, off, buf)) <= MaxSize
    <3>1. Len(Written(d, off, buf)) = Grown(Len(d), off + n)
      BY <2>1, <2>2, <2>4, WrittenType
    <3>2. Len(d) \in Nat /\ Len(d) <= MaxSize /\ off + n \in Nat
      BY <2>1, <2>3, <2>4 DEF DataInv
    <3>3. Grown(Len(d), off + n) = Len(d) \/ Grown(Len(d), off + n) <= 2 * (off + n)
      BY <3>2, GrownRoom
    <3>4. Grown(Len(d), off + n) \in Nat
      BY <3>2, GrownRoom
    <3>5. 2 * (off + n) <= MaxSize /\ MaxSize \in Nat
      BY <2>1 DEF MaxSize
    <3> QED
      BY <3>1, <3>2, <3>3, <3>4, <3>5
  <2>7. [off |-> off, buf |-> buf] \in PatchType
    BY <2>1, <2>2 DEF PatchType
  <2>8. p \in Seq(PatchType)
    BY <1>2, <2>3, <2>7
  <2>9. patches' = [patches EXCEPT ![s] = p]
    BY <1>6, Zenon DEF Write
  <2> HIDE DEF node, p, d
  <2> QED
    BY <2>3, <2>4, <2>5, <2>6, <2>8, <2>9, ChangesData
<1> QED
  BY <1>1, <1>3, <1>4, <1>5, <1>6 DEF Next, Fsync, CreatRoot, Getdents, vars

LEMMA DataInvariance == Spec => [](Inv /\ DataInv)
  BY InitInv, InvStep, InitData, DataStep, PTL DEF Spec

(***************************************************************************)
(* The answer to a request goes to the inode it was made for and a write   *)
(* to the inode of its handle, in the order of the calls, however many     *)
(* opens wait at once; what was stored is neither moved nor cut off.       *)
(***************************************************************************)
THEOREM DataTheorem == Spec => []DataIsOwn
<1>1. Inv /\ DataInv => DataIsOwn
  <2> SUFFICES ASSUME Inv, DataInv, NEW s \in Live(nodes)
               PROVE  Own(patches[s], At(nodes, s).data)
    BY Zenon DEF DataIsOwn, Own, Stored, Covers
  <2> QED
    BY DEF DataInv, Inv, NodesOK
<1> QED
  BY <1>1, DataInvariance, PTL

-------------------------------------------------------------------------------
(* read().                                                                 *)

\* SubSeq() by its elements.
LEMMA SubSeqIsFcn ==
    ASSUME NEW S, NEW s \in Seq(S), NEW a \in Nat, NEW n \in Nat, a + n <= Len(s)
    PROVE  SubSeq(s, a + 1, a + n) = [i \in 1 .. n |-> s[a + i]]
<1> DEFINE t == SubSeq(s, a + 1, a + n)
<1>1. a + 1 \in 1 .. Len(s) + 1 /\ a + n \in (a + 1) - 1 .. Len(s)
  OBVIOUS
<1>2. /\ t \in Seq(S) /\ Len(t) = (a + n) - (a + 1) + 1
      /\ \A i \in 1 .. (a + n) - (a + 1) + 1 : t[i] = s[(a + 1) + i - 1]
  BY <1>1, SubSeqProperties
<1>3. (a + n) - (a + 1) + 1 = n /\ \A i \in 1 .. n : (a + 1) + i - 1 = a + i
  OBVIOUS
<1> HIDE DEF t
<1>4. t = [i \in 1 .. n |-> t[i]]
  BY <1>2, <1>3
<1> QED
  BY <1>2, <1>3, <1>4 DEF t

\* The smaller of two numbers.
LEMMA MinOfTwo ==
    ASSUME NEW a \in Nat, NEW b \in Nat
    PROVE  Min({a, b}) = IF a <= b THEN a ELSE b
<1> DEFINE m == IF a <= b THEN a ELSE b
<1>1. m \in {a, b} /\ \A y \in {a, b} : m <= y
  OBVIOUS
<1>2. \A x \in {a, b} : (\A y \in {a, b} : x <= y) => x = m
  OBVIOUS
<1> QED
  BY <1>1, <1>2 DEF Min

\* From inside the data the unsigned subtraction does not wrap.
LEMMA ReadCountInside ==
    ASSUME NEW size \in Nat, size <= MaxSize, NEW off \in 0 .. size,
           NEW count \in Nat
    PROVE  ReadCount(size, off, count)
             = IF off + count <= size THEN count ELSE size - off
<1>1. MaxSize < SizeMod /\ SizeMod \in Nat /\ MaxSize \in Nat
  BY AppEngineMountAssumption DEF MaxSize
<1>2. size - off \in 0 .. SizeMod - 1
  BY <1>1
<1>3. (size - off) % SizeMod = size - off
  BY <1>1, <1>2
<1> QED
  BY <1>3 DEF ReadCount

(***************************************************************************)
(* A read() from inside the data returns exactly the bytes from there to   *)
(* its end or to the end of the data: no byte from behind the vector, and  *)
(* none too few, although data.size() - offset is unsigned.                *)
(***************************************************************************)
THEOREM ReadTheorem == Spec => []ReadWithinData
<1>1. Inv /\ DataInv => ReadWithinData
  <2> SUFFICES ASSUME Inv, DataInv, NEW s \in handles,
                      NEW off \in 0 .. Len(At(nodes, s).data),
                      NEW count \in 0 .. MaxCount
               PROVE  ReadBytes(s, off, count) =
                        SubSeq(At(nodes, s).data, off + 1,
                               Min({off + count, Len(At(nodes, s).data)}))
    BY DEF ReadWithinData
  <2> DEFINE d == At(nodes, s).data
             n == ReadCount(Len(d), off, count)
             m == Min({off + count, Len(d)})
  <2>1. s \in Index(nodes)
    BY DEF Inv, NodesOK, SlotsOK, WellFormed, Index
  <2>2. d \in Seq(Nat) /\ Len(d) <= MaxSize
    BY <2>1 DEF Inv, NodesOK, NodeType, DataInv
  <2>3. Len(d) \in Nat /\ off \in Nat /\ off <= Len(d) /\ count \in Nat
    BY <2>2, AppEngineMountAssumption
  <2>4. n = IF off + count <= Len(d) THEN count ELSE Len(d) - off
    BY <2>2, <2>3, ReadCountInside
  <2>5. m = IF off + count <= Len(d) THEN off + count ELSE Len(d)
    BY <2>3, MinOfTwo
  <2>6. ReadBytes(s, off, count) =
          [i \in 1 .. n |-> IF off + i <= Len(d) THEN d[off + i] ELSE GARBAGE]
    BY DEF ReadBytes
  <2> HIDE DEF d, n, m
  <2>7. n \in Nat /\ m = off + n /\ m <= Len(d) /\ m \in Nat
    BY <2>3, <2>4, <2>5
  <2>8. [i \in 1 .. n |-> IF off + i <= Len(d) THEN d[off + i] ELSE GARBAGE]
          = [i \in 1 .. n |-> d[off + i]]
    BY <2>3, <2>7
  <2>9. SubSeq(d, off + 1, m) = [i \in 1 .. n |-> d[off + i]]
    BY <2>2, <2>3, <2>7, SubSeqIsFcn
  <2> QED
    BY <2>6, <2>8, <2>9, Zenon DEF d, m
<1> QED
  BY <1>1, DataInvariance, PTL

-------------------------------------------------------------------------------
(* Listings.                                                               *)

\* A line of n bytes and its newline, and the text after each line.
Line(n) == Append([i \in 1 .. n |-> 0], Newline)
IsText(lines, w) ==
    w = [k \in 0 .. Len(lines) |-> IF k = 0 THEN <<>> ELSE w[k - 1] \o Line(lines[k])]

LEMMA ListingIsText ==
    ASSUME NEW lines
    PROVE  Listing(lines) = (CHOOSE w : IsText(lines, w))[Len(lines)]
  BY Zenon DEF Listing, IsText, Line

LEMMA LineFacts ==
    ASSUME NEW n \in Nat, NEW l, l = Line(n)
    PROVE  /\ l \in Seq(Nat) /\ Len(l) = n + 1 /\ l[n + 1] = Newline
           /\ \A i \in 1 .. n : l[i] = 0
<1>1. PICK z : z = [i \in 1 .. n |-> 0]
  OBVIOUS
<1>2. z \in Seq(Nat) /\ Len(z) = n /\ \A i \in 1 .. n : z[i] = 0
  BY <1>1
<1>3. Newline \in Nat
  BY DEF Newline
<1>4. l = Append(z, Newline)
  BY <1>1 DEF Line
<1> QED
  BY <1>2, <1>3, <1>4, AppendProperties

\* The texts after each line.
Texts(lines, n, w) ==
    /\ n = Len(lines) /\ w \in [0 .. n -> Seq(Nat)] /\ w[0] = <<>>
    /\ \A k \in 1 .. n : w[k] = w[k - 1] \o Line(lines[k])
    /\ Listing(lines) = w[n]

LEMMA TextsOf ==
    ASSUME NEW lines \in Seq(Nat)
    PROVE  \E w : Texts(lines, Len(lines), w)
<1>1. PICK n, V : n = Len(lines) /\ V = Seq(Nat)
  OBVIOUS
<1>2. n \in Nat /\ <<>> \in V
  BY <1>1
<1>3. \A k \in 1 .. n : \A v \in V : v \o Line(lines[k]) \in V
  <2> SUFFICES ASSUME NEW k \in 1 .. n, NEW v \in V PROVE v \o Line(lines[k]) \in V
    OBVIOUS
  <2>1. lines[k] \in Nat
    BY <1>1, ElementOfSeq
  <2>2. PICK l : l = Line(lines[k])
    OBVIOUS
  <2>3. l \in Seq(Nat)
    BY <2>1, <2>2, LineFacts
  <2>4. v \o l \in Seq(Nat)
    BY <1>1, <2>3, ConcatProperties
  <2> QED
    BY <1>1, <2>2, <2>4
<1>4. PICK F : F = [k \in 1 .. n |-> [v \in V |-> v \o Line(lines[k])]]
  OBVIOUS
<1>5. F \in [1 .. n -> [V -> V]]
  BY <1>3, <1>4
<1>6. PICK x : x = <<>>
  OBVIOUS
<1>7. PICK u : Does(V, x, n, F, u)
  BY <1>2, <1>5, <1>6, LoopExists
<1>8. /\ u \in [0 .. n -> V] /\ u[0] = <<>>
      /\ \A k \in 1 .. n : u[k] = u[k - 1] \o Line(lines[k])
  <2>1. /\ u \in [0 .. n -> V] /\ u[0] = x
        /\ \A k \in 1 .. n : u[k] = F[k][u[k - 1]]
    BY <1>7 DEF Does
  <2>2. \A k \in 1 .. n : u[k - 1] \in V
    BY <1>2, <2>1
  <2> QED
    BY <1>4, <1>6, <2>1, <2>2
<1>9. IsText(lines, u)
  <2>1. u = [k \in 0 .. n |-> u[k]]
    BY <1>8
  <2>2. \A k \in 0 .. n : u[k] = IF k = 0 THEN <<>> ELSE u[k - 1] \o Line(lines[k])
    <3>1. \A k \in 0 .. n : k # 0 => k \in 1 .. n
      BY <1>2
    <3> QED
      BY <1>8, <3>1
  <2>3. u = [k \in 0 .. n |-> IF k = 0 THEN <<>> ELSE u[k - 1] \o Line(lines[k])]
    BY <2>1, <2>2, Zenon
  <2> QED
    BY <1>1, <2>3, Zenon DEF IsText
<1>10. PICK w : w = CHOOSE v : IsText(lines, v)
  OBVIOUS
<1>11. IsText(lines, w)
  BY <1>9, <1>10
<1>12. w = [k \in 0 .. n |-> IF k = 0 THEN <<>> ELSE w[k - 1] \o Line(lines[k])]
  BY <1>1, <1>11 DEF IsText
<1>13. w[0] = <<>> /\ \A k \in 1 .. n : w[k] = w[k - 1] \o Line(lines[k])
  <2>1. 0 \in 0 .. n /\ \A k \in 1 .. n : k \in 0 .. n /\ k # 0
    BY <1>2
  <2> QED
    BY <1>12, <2>1
<1>14. \A k \in 0 .. n : w[k] \in V
  <2> DEFINE T == {k \in 0 .. n : w[k] \notin V}
  <2> SUFFICES ASSUME T # {} PROVE FALSE
    OBVIOUS
  <2>1. PICK m \in T : \A y \in T : m <= y
    <3>1. T \in SUBSET Nat
      OBVIOUS
    <3> HIDE DEF T
    <3> QED
      BY <3>1, LeastExists
  <2>2. m \in 0 .. n /\ w[m] \notin V
    BY <2>1
  <2>3. m # 0
    BY <1>2, <1>13, <2>2
  <2>4. m - 1 \in 0 .. n /\ ~ (m <= m - 1) /\ m \in 1 .. n
    BY <1>2, <2>2, <2>3
  <2>5. w[m - 1] \in V
    BY <2>1, <2>4
  <2> HIDE DEF T
  <2> QED
    BY <1>3, <1>13, <2>2, <2>4, <2>5
<1>15. w \in [0 .. n -> V]
  BY <1>12, <1>14
<1>16. Listing(lines) = w[n]
  BY <1>1, <1>10, ListingIsText
<1> QED
  BY <1>1, <1>13, <1>15, <1>16 DEF Texts

\* Where the newlines of a text are.
Newlines(dst) == {k \in DOMAIN dst : dst[k] = Newline}

LEMMA NewlinesGrow ==
    ASSUME NEW v \in Seq(Nat), NEW n \in Nat, NEW u, u = v \o Line(n)
    PROVE  Len(u) = Len(v) + n + 1 /\ Newlines(u) = Newlines(v) \cup {Len(v) + n + 1}
<1>1. PICK l, a : l = Line(n) /\ a = Len(v)
  OBVIOUS
<1>2. /\ l \in Seq(Nat) /\ Len(l) = n + 1 /\ l[n + 1] = Newline
      /\ \A i \in 1 .. n : l[i] = 0
  BY <1>1, LineFacts
<1>3. a \in Nat /\ Newline # 0
  BY <1>1 DEF Newline
<1>4. /\ u \in Seq(Nat) /\ Len(u) = a + (n + 1)
      /\ \A i \in 1 .. a + (n + 1) : u[i] = IF i <= a THEN v[i] ELSE l[i - a]
  <2>1. /\ v \o l \in Seq(Nat) /\ Len(v \o l) = Len(v) + Len(l)
        /\ \A i \in 1 .. Len(v) + Len(l) :
               (v \o l)[i] = IF i <= Len(v) THEN v[i] ELSE l[i - Len(v)]
    BY <1>2, ConcatProperties
  <2>2. u = v \o l
    BY <1>1
  <2> QED
    BY <1>1, <1>2, <2>1, <2>2, Zenon
<1>5. DOMAIN u = 1 .. a + (n + 1) /\ DOMAIN v = 1 .. a
  BY <1>1, <1>4
<1>6. ASSUME NEW i \in 1 .. a PROVE i \in 1 .. a + (n + 1) /\ u[i] = v[i]
  <2>1. i \in 1 .. a + (n + 1) /\ i <= a
    BY <1>3
  <2> QED
    BY <1>4, <2>1
<1>7. ASSUME NEW i \in 1 .. a + (n + 1), ~ (i <= a)
      PROVE  u[i] = Newline <=> i = a + (n + 1)
  <2>1. PICK j : j = i - a
    OBVIOUS
  <2>2. j \in 1 .. n + 1 /\ (j = n + 1 <=> i = a + (n + 1)) /\ (j # n + 1 => j \in 1 .. n)
    BY <1>3, <1>7, <2>1
  <2>3. u[i] = l[j]
    BY <1>4, <1>7, <2>1
  <2>4. l[j] = Newline <=> j = n + 1
    BY <1>2, <1>3, <2>2
  <2> QED
    BY <2>2, <2>3, <2>4
<1>8. Newlines(u) = Newlines(v) \cup {a + (n + 1)}
  <2>1. a + (n + 1) \in 1 .. a + (n + 1) /\ ~ (a + (n + 1) <= a)
    BY <1>3
  <2>2. \A i \in 1 .. a + (n + 1) : i <= a => i \in 1 .. a
    BY <1>3
  <2> QED
    BY <1>5, <1>6, <1>7, <2>1, <2>2 DEF Newlines
<1>9. a + (n + 1) = a + n + 1
  BY <1>3
<1> QED
  BY <1>1, <1>4, <1>8, <1>9

LEMMA TextNewlines ==
    ASSUME NEW lines \in Seq(Nat \ {0}), NEW n, NEW w, Texts(lines, n, w),
           NEW m \in 0 .. n
    PROVE  Newlines(w[m]) = {Len(w[k]) : k \in 1 .. m}
<1> DEFINE T == {k \in 0 .. n : Newlines(w[k]) # {Len(w[i]) : i \in 1 .. k}}
<1>1. T = {}
  <2> SUFFICES ASSUME T # {} PROVE FALSE
    OBVIOUS
  <2>1. PICK k \in T : \A y \in T : k <= y
    <3>1. T \in SUBSET Nat
      OBVIOUS
    <3> HIDE DEF T
    <3> QED
      BY <3>1, LeastExists
  <2>2. k \in 0 .. n /\ Newlines(w[k]) # {Len(w[i]) : i \in 1 .. k}
    BY <2>1
  <2>3. k # 0
    <3> SUFFICES ASSUME k = 0 PROVE FALSE
      OBVIOUS
    <3>1. Newlines(<<>>) = {} /\ 1 .. 0 = {}
      BY DEF Newlines
    <3>2. w[0] = <<>>
      BY DEF Texts
    <3>3. {Len(w[i]) : i \in 1 .. 0} = {}
      BY <3>1
    <3> QED
      BY <2>2, <3>1, <3>2, <3>3, Zenon
  <2>4. PICK j : j = k - 1
    OBVIOUS
  <2>5. /\ j \in 0 .. n /\ ~ (k <= j) /\ k \in 1 .. n
        /\ \A i \in 1 .. k : i = k \/ i \in 1 .. j
        /\ \A i \in 1 .. j : i \in 1 .. k
        /\ k \in 1 .. k
    <3>1. n \in Nat
      BY DEF Texts
    <3> QED
      BY <2>2, <2>3, <2>4, <3>1
  <2>6. Newlines(w[j]) = {Len(w[i]) : i \in 1 .. j}
    BY <2>1, <2>5
  <2> HIDE DEF T
  <2>7. PICK v, u, c : v = w[j] /\ u = w[k] /\ c = lines[k]
    OBVIOUS
  <2>8. v \in Seq(Nat) /\ u = v \o Line(c)
    BY <2>4, <2>5, <2>7 DEF Texts
  <2>9. c \in Nat
    <3>1. n = Len(lines)
      BY DEF Texts
    <3>2. lines[k] \in Nat \ {0}
      BY <2>5, <3>1, ElementOfSeq
    <3> QED
      BY <2>7, <3>2
  <2>10. Len(u) = Len(v) + c + 1 /\ Newlines(u) = Newlines(v) \cup {Len(v) + c + 1}
    BY <2>8, <2>9, NewlinesGrow
  <2>12. Newlines(w[k]) = {Len(w[i]) : i \in 1 .. j} \cup {Len(w[k])}
    BY <2>6, <2>7, <2>10, Zenon
  <2>13. {Len(w[i]) : i \in 1 .. k} = {Len(w[i]) : i \in 1 .. j} \cup {Len(w[k])}
    BY <2>5
  <2> QED
    BY <2>2, <2>12, <2>13
<1> QED
  BY <1>1

\* getdents() counts the newlines, and nothing is left behind the last.
LEMMA EntriesOfListing ==
    ASSUME NEW lines \in Seq(Nat \ {0})
    PROVE  Entries(Listing(lines)) = Len(lines)
<1>1. lines \in Seq(Nat)
  <2>1. Nat \ {0} \subseteq Nat
    OBVIOUS
  <2> QED
    BY <2>1, SeqMonotonic
<1>2. PICK n : n = Len(lines)
  OBVIOUS
<1>3. PICK w : Texts(lines, n, w)
  BY <1>1, <1>2, TextsOf
<1>4. PICK e : e = [k \in 0 .. n |-> Len(w[k])]
  OBVIOUS
<1>5. /\ n \in Nat /\ w \in [0 .. n -> Seq(Nat)] /\ w[0] = <<>>
      /\ \A k \in 1 .. n : w[k] = w[k - 1] \o Line(lines[k])
      /\ Listing(lines) = w[n]
  BY <1>2, <1>3 DEF Texts
<1>6. e \in [0 .. n -> Nat] /\ e[0] = 0
  <2>1. \A k \in 0 .. n : Len(w[k]) \in Nat
    BY <1>5
  <2>2. e[0] = Len(w[0])
    BY <1>4, <1>5
  <2>3. e[0] = 0
    BY <1>5, <2>2
  <2> QED
    BY <1>4, <2>1, <2>3
<1>7. ASSUME NEW k \in 1 .. n PROVE e[k - 1] < e[k] /\ e[k] >= 2
  <2>1. PICK j : j = k - 1
    OBVIOUS
  <2>2. j \in 0 .. n /\ k \in 0 .. n
    BY <1>5, <2>1
  <2>3. PICK v, u, c : v = w[j] /\ u = w[k] /\ c = lines[k]
    OBVIOUS
  <2>4. v \in Seq(Nat) /\ u = v \o Line(c)
    BY <1>5, <2>1, <2>2, <2>3
  <2>5. c \in Nat /\ c >= 1
    <3>1. lines[k] \in Nat \ {0}
      BY <1>2, ElementOfSeq
    <3> QED
      BY <2>3, <3>1
  <2>6. Len(u) = Len(v) + c + 1
    BY <2>4, <2>5, NewlinesGrow
  <2>7. e[k] = Len(u) /\ e[j] = Len(v) /\ Len(v) \in Nat
    <3>1. e[k] = Len(w[k]) /\ e[j] = Len(w[j])
      BY <1>4, <2>2
    <3>2. Len(v) \in Nat
      BY <2>4
    <3> QED
      BY <2>3, <3>1, <3>2
  <2>8. Len(v) < Len(u) /\ Len(u) >= 2
    BY <2>5, <2>6, <2>7
  <2> QED
    BY <2>1, <2>7, <2>8
<1>8. PICK a : a = [k \in 1 .. n |-> e[k]]
  OBVIOUS
<1>9. Rising(a, n)
  <2>1. \A k \in 1 .. n : k \in 0 .. n
    BY <1>5
  <2>2. a \in [1 .. n -> Nat]
    BY <1>6, <1>8, <2>1
  <2>3. ASSUME NEW j \in 1 .. n, NEW k \in 1 .. n, j < k PROVE a[j] < a[k]
    <3>1. e[j] < e[k]
      BY <1>5, <1>6, <1>7, <2>1, <2>3, Increasing
    <3> QED
      BY <1>8, <3>1
  <2> QED
    BY <1>5, <2>2, <2>3 DEF Rising
<1>10. PICK dst, ends : /\ dst = Listing(lines)
                        /\ ends = {k \in DOMAIN dst : dst[k] = Newline /\ k > 1}
  OBVIOUS
<1>11. ends = {a[k] : k \in 1 .. n}
  <2>1. n \in 0 .. n
    BY <1>5
  <2>2. Newlines(dst) = {e[k] : k \in 1 .. n}
    <3>1. Newlines(w[n]) = {Len(w[k]) : k \in 1 .. n}
      BY <1>3, <2>1, TextNewlines
    <3>2. \A k \in 1 .. n : e[k] = Len(w[k])
      BY <1>4, <1>5
    <3> QED
      BY <1>5, <1>10, <3>1, <3>2
  <2>3. ASSUME NEW k \in 1 .. n PROVE e[k] \in Nat /\ e[k] > 1
    <3>1. k \in 0 .. n
      BY <1>5
    <3>2. PICK x : x = e[k]
      OBVIOUS
    <3>3. x \in Nat /\ x >= 2
      BY <1>6, <1>7, <3>1, <3>2
    <3>4. x > 1
      BY <3>3
    <3> QED
      BY <3>2, <3>3, <3>4, Zenon
  <2>4. ends = {k \in Newlines(dst) : k > 1}
    BY <1>10 DEF Newlines
  <2>5. ends = {e[k] : k \in 1 .. n}
    BY <2>2, <2>3, <2>4
  <2> QED
    BY <1>8, <2>5
<1>12. Cardinality(ends) = n
  <2>1. n \in 0 .. n
    BY <1>5
  <2> QED
    BY <1>9, <1>11, <2>1, CardRising
<1>13. Len(dst) = e[n]
  <2>1. n \in 0 .. n
    BY <1>5
  <2> QED
    BY <1>4, <1>5, <1>10, <2>1
<1>14. PICK ind : ind = IF ends = {} THEN 1 ELSE Max(ends)
  OBVIOUS
<1>15. ~ (ind < Len(dst))
  <2>1. CASE n = 0
    <3>1. ends = {}
      BY <1>11, <2>1
    <3>2. ind = 1 /\ Len(dst) = 0
      BY <1>6, <1>13, <1>14, <2>1, <3>1
    <3> QED
      BY <3>2
  <2>2. CASE n # 0
    <3>1. n \in 1 .. n /\ a[n] = e[n] /\ a[n] \in ends
      BY <1>5, <1>8, <1>11, <2>2
    <3>2. ASSUME NEW x \in ends PROVE a[n] >= x
      <4>1. PICK k \in 1 .. n : x = a[k]
        BY <1>11
      <4>2. k = n \/ k < n
        BY <1>5
      <4>3. a[k] = a[n] \/ a[k] < a[n]
        BY <1>9, <3>1, <4>2 DEF Rising
      <4>4. a[k] \in Nat /\ a[n] \in Nat
        BY <1>9, <3>1 DEF Rising
      <4> QED
        BY <4>1, <4>3, <4>4
    <3>3. Max(ends) = a[n]
      <4>1. \A x \in ends : x \in Nat
        BY <1>9, <1>11 DEF Rising
      <4>2. \A m \in ends : (\A x \in ends : m >= x) => m = a[n]
        BY <3>1, <3>2, <4>1
      <4> QED
        BY <3>1, <3>2, <4>2 DEF Max
    <3>4. ind = e[n]
      BY <1>14, <3>1, <3>3
    <3>5. e[n] \in Nat
      BY <1>5, <1>6
    <3> QED
      BY <1>13, <3>4, <3>5
  <2> QED
    BY <2>1, <2>2
<1>16. Entries(dst) = Cardinality(ends) + (IF ind < Len(dst) THEN 1 ELSE 0)
  BY <1>10, <1>14, Zenon DEF Entries
<1>17. Entries(dst) = n
  BY <1>5, <1>12, <1>15, <1>16
<1> QED
  BY <1>2, <1>10, <1>17

(***************************************************************************)
(* getdents() returns the number of the files for every listing, however   *)
(* many files it has and however long their names are.                     *)
(***************************************************************************)
THEOREM CountTheorem == Spec => []CountsEntries
<1>1. CountsEntries
  <2> SUFFICES ASSUME NEW s \in handles, NEW lines \in Listings \ {<<>>}
               PROVE  Entries(Listing(lines)) = Len(lines)
    BY DEF CountsEntries
  <2>1. PICK m \in 0 .. MaxFiles : lines \in [1 .. m -> 1 .. MaxName]
    BY DEF Listings, SeqOf
  <2>2. lines \in Seq(Nat \ {0})
    <3>1. m \in Nat /\ \A i \in 1 .. m : lines[i] \in Nat \ {0}
      BY <2>1
    <3> QED
      BY <2>1, <3>1, IsASeq
  <2> QED
    BY <2>2, EntriesOfListing
<1> QED
  BY <1>1, PTL
===============================================================================
