---------------------------- MODULE AppEngineMount ----------------------------
(***************************************************************************)
(* AppEngine/AppEngineMount.cc and AppEngineNode.cc behind the calls of    *)
(* KernelProxy, with several threads.  Looking a path up makes an inode    *)
(* and reads the whole file from the server (AppEngine/naclmounts/         *)
(* simple.py) through MainThreadRunner; while a thread waits for that      *)
(* answer the others go on.  A request whose open fails is never answered. *)
(*                                                                         *)
(* lseek() leads to any offset, so read() and write() take any.  Bytes are *)
(* numbers; lines of a listing are given by their lengths.                 *)
(***************************************************************************)
EXTENDS SlotAllocator, SequencesExt

CONSTANTS Threads, Paths,
          Byte,         \* bytes of files, on the server and written
          MaxContent,   \* bound on the length of a file on the server
          MaxCount,     \* bound on the bytes of one call
          MaxOffset,    \* bound on offsets
          MaxWrites,    \* bound on the calls of write()
          MaxNodes,     \* bound on the slots of the mount
          MaxFiles,     \* bound on the files of a listing
          MaxName,      \* bound on the length of their names
          SizeMod       \* 2^w for the width w of size_t and off_t

ASSUME AppEngineMountAssumption ==
    /\ Byte \subseteq Nat
    /\ MaxContent \in Nat /\ MaxCount \in Nat /\ MaxOffset \in Nat
    /\ MaxWrites \in Nat /\ MaxNodes \in Nat \ {0}
    /\ MaxFiles \in Nat /\ MaxName \in Nat
    /\ SizeMod \in Nat /\ 4 * (MaxOffset + MaxCount + MaxContent + 2) < SizeMod

\* NULL is the address of no AppEngineNode, and tells a thread that waits from
\* one that does not.
ASSUME NullAssumption ==
    /\ NULL \notin [path : Paths \cup {NULL}, data : Seq(Nat), len : Nat,
                    use_count : Nat]
    /\ NULL \notin [open : BOOLEAN, slot : Nat]

GARBAGE == -1
CharZero == 48
CharOne == 49
Newline == 10

VARIABLES nodes,     \* slots_: AppEngineNode [path, data, len, use_count]
          waiting,   \* the remote read each thread waits for, [open, slot]
          handles,   \* the inodes that open handles refer to
          patches,   \* ghost: what was stored in each inode, oldest first
          up         \* FALSE after a crash

vars == <<nodes, waiting, handles, patches, up>>

Node(path) == [path |-> path, data |-> <<>>, len |-> 0, use_count |-> 1]

\* Mutant: slot 0 is not set aside.
NewMount_Empty == EmptyAllocator

\* AppEngineMount(): slot 0 is taken and never used.
NewMount == Alloc(EmptyAllocator, [Node(NULL) EXCEPT !.use_count = 0])

Init == /\ nodes = NewMount
        /\ waiting = [t \in Threads |-> NULL]
        /\ handles = {}
        /\ patches = [s \in 0 .. MaxNodes - 1 |-> <<>>]
        /\ up = TRUE

\* The bytes AppEngineUrlRequest::Read() leaves in dst for /read: '1' and the
\* file, or '0', or the part of it that arrived before an error.
Replies ==
    LET contents == UNION {[1 .. n -> Byte] : n \in 0 .. MaxContent}
        whole == {<<CharOne>> \o c : c \in contents} \cup {<<CharZero>>}
    IN  UNION {{SubSeq(r, 1, n) : n \in 0 .. Len(r)} : r \in whole}

Writes == Cardinality({w \in (0 .. MaxNodes - 1) \X (2 .. MaxWrites + 1) :
                           w[2] <= Len(patches[w[1]])})

-------------------------------------------------------------------------------
\* Creat(path, mode, st) up to the remote read, for open() if `open', else for
\* stat(), access(), chmod(), chdir(), rmdir() or remove().  GetNode() is
\* Creat().
CreatStart(t, path, open) ==
    /\ up /\ waiting[t] = NULL
    /\ AllocSlot(nodes) < MaxNodes
    /\ nodes' = Alloc(nodes, Node(path))
    /\ waiting' = [waiting EXCEPT ![t] = [open |-> open, slot |-> AllocSlot(nodes)]]
    /\ UNCHANGED <<handles, patches, up>>

\* Creat() of the root of the mount asks for the last name of an empty list.
\* Where that does not crash it is CreatStart().
CreatRoot ==
    /\ up
    /\ up' = FALSE
    /\ UNCHANGED <<nodes, waiting, handles, patches>>

\* void Ref(slot)
Ref(a, slot) == IF At(a, slot) = NULL THEN a
                ELSE [a EXCEPT !.slots[slot].use_count = @ + 1]

\* Mutant: the answer goes to the inode made last.
CreatDone_Newest(t, reply) ==
    LET w == waiting[t]
        stored == [nodes EXCEPT !.slots[nodes.size - 1].data = reply]
    IN  /\ up /\ waiting[t] # NULL
        /\ nodes' = IF w.open THEN Ref(stored, w.slot) ELSE stored
        /\ handles' = IF w.open THEN handles \cup {w.slot} ELSE handles
        /\ patches' = [patches EXCEPT ![w.slot] = <<[off |-> 0, buf |-> reply]>>]
        /\ waiting' = [waiting EXCEPT ![t] = NULL]
        /\ UNCHANGED up

\* The rest of Creat(): set_data() of whatever arrived, and for open() Ref()
\* and a handle.  The result of the remote read is not looked at, and the
\* calls other than open() fail or change nothing: Unlink() is the one of
\* Mount, Rmdir() and Mkdir() just return 0, chmod() is ENOSYS.
CreatDone(t, reply) ==
    LET w == waiting[t]
        stored == [nodes EXCEPT !.slots[w.slot].data = reply]
    IN  /\ up /\ waiting[t] # NULL
        /\ nodes' = IF w.open THEN Ref(stored, w.slot) ELSE stored
        /\ handles' = IF w.open THEN handles \cup {w.slot} ELSE handles
        /\ patches' = [patches EXCEPT ![w.slot] = <<[off |-> 0, buf |-> reply]>>]
        /\ waiting' = [waiting EXCEPT ![t] = NULL]
        /\ UNCHANGED up

\* Mutant: the inode is freed with its handle.
Unref_Free(a, slot) == IF At(a, slot) = NULL THEN a ELSE Free(a, slot)

\* void Unref(slot).  DecrementUseCount() is `++use_count_'.
Unref(a, slot) ==
    LET count == At(a, slot).use_count + 1
    IN  IF At(a, slot) = NULL THEN a
        ELSE IF count > 0 THEN [a EXCEPT !.slots[slot].use_count = count]
        ELSE Free(a, slot)

\* close() of the handle on an inode.  The handle was the inode's only one.
Close(s) ==
    /\ up /\ s \in handles
    /\ nodes' = Unref(nodes, s)
    /\ handles' = handles \ {s}
    /\ UNCHANGED <<waiting, patches, up>>

\* The size WriteData() gives data_ for a write that ends at `end'.
Grown(size, end) == IF end <= size THEN size
                    ELSE IF (size + 1) * 2 > end THEN (size + 1) * 2
                    ELSE end

\* Write(slot, off, buf): resize() fills with zeros, up to an offset past the
\* end also when buf is empty.  len_ follows only a write that ends behind
\* data_, and after the resize none does.
Write(s, off, buf) ==
    LET old == At(nodes, s)
        end == off + Len(buf)
        size == Grown(Len(old.data), end)
        byte(i) == IF i > off /\ i <= end THEN buf[i - off]
                   ELSE IF i <= Len(old.data) THEN old.data[i]
                   ELSE 0
        new == [old EXCEPT !.data = [i \in 1 .. size |-> byte(i)],
                           !.len = IF end > size THEN end ELSE @]
    IN  /\ up /\ s \in handles /\ Writes < MaxWrites
        /\ nodes' = Update(nodes, s, new)
        /\ patches' = [patches EXCEPT ![s] = Append(@, [off |-> off, buf |-> buf])]
        /\ UNCHANGED <<waiting, handles, up>>

\* Fsync(slot) sends data(), status byte and padding included; /write answers
\* '1' and stores nothing.
Fsync(s) == up /\ s \in handles /\ UNCHANGED vars

-------------------------------------------------------------------------------
\* Mutant: the length of the data does not limit the read.
ReadCount_NoLimit(size, off, count) == count

\* How much Read() copies.  data.size() - offset is unsigned.
ReadCount(size, off, count) ==
    LET left == (size - off) % SizeMod
    IN  IF count > left THEN left ELSE count

\* What Read(slot, off, buf, count) stores in buf.
ReadBytes(s, off, count) ==
    LET data == At(nodes, s).data
    IN  [i \in 1 .. ReadCount(Len(data), off, count) |->
            IF off + i <= Len(data) THEN data[off + i] ELSE GARBAGE]

-------------------------------------------------------------------------------
\* The answer to /list: each name with a newline behind it.
Listing(lines) ==
    LET name(n) == [i \in 1 .. n |-> 0]
        Text[k \in 0 .. Len(lines)] ==
            IF k = 0 THEN <<>> ELSE Text[k - 1] \o Append(name(lines[k]), Newline)
    IN  Text[Len(lines)]

\* Mutant: what is behind the last newline always counts.
Entries_CountLast(dst) ==
    Cardinality({k \in DOMAIN dst : dst[k] = Newline /\ k > 1}) + 1

\* The entries Getdents() counts: ind moves to each newline in turn, and what
\* is left at the end counts when more than one byte is.
Entries(dst) ==
    LET ends == {k \in DOMAIN dst : dst[k] = Newline /\ k > 1}
        ind == IF ends = {} THEN 1 ELSE Max(ends)
    IN  Cardinality(ends) + (IF ind < Len(dst) THEN 1 ELSE 0)

\* Getdents(slot, ..) returns Entries() of the answer and changes nothing.  Of
\* an empty answer the last string is made with its end before its beginning,
\* which throws.
Getdents(s, lines) ==
    /\ up /\ s \in handles
    /\ up' = (Listing(lines) # <<>>)
    /\ UNCHANGED <<nodes, waiting, handles, patches>>

\* The names are not empty.
Listings == SeqOf(1 .. MaxName, MaxFiles)

Next ==
    \/ \E t \in Threads, path \in Paths, open \in BOOLEAN : CreatStart(t, path, open)
    \/ CreatRoot
    \/ \E t \in Threads, reply \in Replies : CreatDone(t, reply)
    \/ \E s \in handles :
           \/ Close(s) \/ Fsync(s)
           \/ \E off \in 0 .. MaxOffset, n \in 0 .. MaxCount :
                  \E buf \in [1 .. n -> Byte] : Write(s, off, buf)
           \/ \E lines \in Listings : Getdents(s, lines)

Spec == Init /\ [][Next]_vars

-------------------------------------------------------------------------------
\* Inodes have a path and a positive use count but for slot 0, which no handle
\* and no waiting thread has.  stat() never sees a length but 0.
TypeOK ==
    /\ nodes.size <= MaxNodes
    /\ \A s \in Live(nodes) \ {0} : /\ At(nodes, s).path \in Paths
                                    /\ At(nodes, s).use_count > 0
                                    /\ At(nodes, s).len = 0
    /\ handles \subseteq 1 .. nodes.size - 1
    /\ \A t \in Threads : waiting[t] # NULL => waiting[t].slot \in 1 .. nodes.size - 1
    /\ up \in BOOLEAN

(***************************************************************************)
(* However opens overlap, an inode holds the answer to its own request     *)
(* with the bytes of its own writes over it, the latest on top, and zeros  *)
(* where nothing was stored; nothing that was stored is cut off.           *)
(***************************************************************************)
DataIsOwn ==
    \A s \in Live(nodes) :
        LET p == patches[s]
            covers(i) == {k \in DOMAIN p : i > p[k].off /\ i <= p[k].off + Len(p[k].buf)}
            data == At(nodes, s).data
        IN  /\ \A i \in DOMAIN data :
                   data[i] = IF covers(i) = {} THEN 0
                             ELSE p[Max(covers(i))].buf[i - p[Max(covers(i))].off]
            /\ \A k \in DOMAIN p : p[k].off + Len(p[k].buf) <= Len(data)

(***************************************************************************)
(* "Limit to the end of the file.": a read() from inside the data returns  *)
(* just the bytes from there on, and no byte from outside it.              *)
(***************************************************************************)
ReadWithinData ==
    \A s \in handles : \A off \in 0 .. Len(At(nodes, s).data), count \in 0 .. MaxCount :
        ReadBytes(s, off, count) =
            SubSeq(At(nodes, s).data, off + 1,
                   Min({off + count, Len(At(nodes, s).data)}))

(***************************************************************************)
(* An inode number means the same file for ever: none is freed, so the one *)
(* a thread holds across a remote call is never somebody else's.           *)
(***************************************************************************)
InodeIsForever ==
    [][\A s \in Live(nodes) : /\ At(nodes', s) # NULL
                              /\ At(nodes', s).path = At(nodes, s).path]_vars

(***************************************************************************)
(* getdents() returns the number of files of a listing that is not empty,  *)
(* although the names it cuts out of it are wrong.                         *)
(***************************************************************************)
CountsEntries ==
    \A s \in handles, lines \in Listings \ {<<>>} :
        Entries(Listing(lines)) = Len(lines)
===============================================================================
