-------------------------- MODULE KernelProxyThreads --------------------------
(***************************************************************************)
(* KernelProxy called by several threads at once.  No call takes a lock:   *)
(* "Here is the possibility for data race. Fix it" (base/KernelProxy.cc).  *)
(*                                                                         *)
(* One step is one call of the mount or of one of the two allocators, with *)
(* the accesses through the pointer it returned, up to the next call; in   *)
(* between, the other threads take their own steps.  Two threads inside    *)
(* one allocator or one method of the mount, or one of them freeing what   *)
(* the other's pointer leads to, would be a data race in the memory of the *)
(* process and is not modelled.                                            *)
(*                                                                         *)
(* Threads may remove the root and open directories at any time; `early'   *)
(* says when that freed what is in use.  open("/") is left to KernelProxy. *)
(***************************************************************************)
EXTENDS KernelProxy, TLC

CONSTANT Threads

ASSUME ThreadsAssumption == IsFiniteSet(Threads)

VARIABLES call,    \* where each thread is: the call it is about to make next,
                   \* and its local variables path, st_ino or node, h, fd
          early    \* ghost: an inode was freed that something still uses

tvars == <<vars, call, early>>

ThreadSymmetry == Permutations(Names) \cup Permutations(Threads)

\* A field that `new FileDescriptor' or `new FileHandle' left uninitialised,
\* or a local variable not in use.
UNSET == -1

\* A thread between two calls of KernelProxy.
Idle == [at |-> "idle", path |-> <<>>, node |-> UNSET, handle |-> UNSET,
         fd |-> UNSET]

TInit == /\ Init
         /\ call = [t \in Threads |-> Idle]
         /\ early = FALSE

Goes(t, to) == call' = [call EXCEPT ![t] = to]

\* The descriptor is still being made by an open().
HalfOpen(fd) == \E t \in Threads : call[t].at = "fill" /\ call[t].fd = fd

\* Another call is in the middle of using the descriptor.
Closing(fd) == \E t \in Threads : call[t].at = "free_fd" /\ call[t].fd = fd
Reading(fd) == \E t \in Threads :
                   call[t].at \in {"find_handle", "getdents"} /\ call[t].fd = fd

\* Which of these a program lets happen.
MayUse(fd) == ~ Closing(fd) \/ "close_race" \in Unguarded
MayClose(fd) == ~ (Closing(fd) \/ Reading(fd)) \/ "close_race" \in Unguarded

\* Bound on the descriptors, those about to be made included.
Room == LET making == {t \in Threads :
                           call[t].at \in {"ref", "alloc_handle", "alloc_fd"}}
        IN  Cardinality(Live(fds)) + Cardinality(making) < MaxFds

\* The handles on a slot that a descriptor leads to, and the calls that have
\* counted themselves on it with Ref(), or took that count over from a handle.
HandlesInUse(slot) == {h \in HandlesOn(slot) : At(open_files, h).use_count > 0}
Holds == {"alloc_handle", "alloc_fd", "fill", "free_handle", "unref"}
Holders(slot) == {t \in Threads : call[t].at \in Holds /\ call[t].node = slot}

\* The slots a step frees that something still refers to: the root, which
\* every walk starts from, a directory with users, and an inode between the
\* two halves of an open().
FreedEarly ==
    LET freed == Live(nodes) \ Live(nodes')
    IN  \/ 0 \in freed
        \/ \E s \in freed : /\ At(nodes, s).is_dir
                            /\ HandlesInUse(s) \cup Holders(s) # {}
        \/ \E t \in Threads : call[t].at = "ref" /\ call[t].node \in freed

Watch == early' = (early \/ FreedEarly)

-------------------------------------------------------------------------------
(* OpenHandle().                                                           *)

\* Creat() or GetNode() of the mount.
OpenFind(t, path, flags) ==
    LET r == IF flags # 0 THEN Creat(nodes, path) ELSE GetNode(nodes, path)
    IN  /\ status = "ok"
        /\ call[t].at = "idle"
        /\ path # <<>>
        /\ Room
        /\ MountCall(r)
        /\ Goes(t, IF r.err = "OK"
                   THEN [Idle EXCEPT !.at = "ref", !.node = r.slot] ELSE Idle)
        /\ early' = early

\* Mutant: the inode is not referenced.
OpenRef_NoRef(t) ==
    /\ status = "ok"
    /\ call[t].at = "ref"
    /\ Goes(t, [call[t] EXCEPT !.at = "alloc_handle"])
    /\ UNCHANGED <<vars, early>>

\* Ref() of whatever has the inode number now.
OpenRef(t) ==
    /\ status = "ok"
    /\ call[t].at = "ref"
    /\ nodes' = Ref(nodes, call[t].node)
    /\ Goes(t, [call[t] EXCEPT !.at = "alloc_handle"])
    /\ UNCHANGED <<fds, open_files, status, early>>

OpenAllocHandle(t) ==
    /\ status = "ok"
    /\ call[t].at = "alloc_handle"
    /\ open_files' = Alloc(open_files, [node |-> UNSET, use_count |-> 0])
    /\ Goes(t, [call[t] EXCEPT !.at = "alloc_fd", !.handle = AllocSlot(open_files)])
    /\ UNCHANGED <<nodes, fds, status, early>>

OpenAllocFd(t) ==
    /\ status = "ok"
    /\ call[t].at = "alloc_fd"
    /\ fds' = Alloc(fds, [handle |-> UNSET])
    /\ Goes(t, [call[t] EXCEPT !.at = "fill", !.fd = AllocSlot(fds)])
    /\ UNCHANGED <<nodes, open_files, status, early>>

\* The stores through the two pointers.
OpenFill(t) ==
    LET fd == call[t].fd
        h == call[t].handle
    IN  /\ status = "ok"
        /\ call[t].at = "fill"
        /\ IF At(fds, fd) = NULL \/ At(open_files, h) = NULL
           THEN status' = "crashed" /\ UNCHANGED <<fds, open_files>>
           ELSE /\ fds' = Update(fds, fd, [handle |-> h])
                /\ open_files' = Update(open_files, h,
                                        [node |-> call[t].node, use_count |-> 1])
                /\ status' = "ok"
        /\ Goes(t, Idle)
        /\ UNCHANGED <<nodes, early>>

-------------------------------------------------------------------------------
(* close(), for a descriptor that an open() has returned; At() answers NULL *)
(* for any other, and nothing changes.                                     *)

CloseFind(t, fd) ==
    /\ status = "ok"
    /\ call[t].at = "idle"
    /\ At(fds, fd) # NULL
    /\ ~ HalfOpen(fd) /\ MayClose(fd)
    /\ Goes(t, [Idle EXCEPT !.at = "free_fd", !.fd = fd,
                            !.handle = At(fds, fd).handle])
    /\ UNCHANGED <<vars, early>>

CloseFreeFd(t) ==
    /\ status = "ok"
    /\ call[t].at = "free_fd"
    /\ fds' = Free(fds, call[t].fd)
    /\ Goes(t, [call[t] EXCEPT !.at = "drop"])
    /\ UNCHANGED <<nodes, open_files, status, early>>

\* What the code reads as the use count of a handle.
Counts(handle) == IF handle.node = UNSET THEN {0, 2} ELSE {handle.use_count}

\* Mutant: the handle is left behind.
CloseDrop_KeepHandle(t) ==
    LET handle == At(open_files, call[t].handle)
    IN  /\ status = "ok"
        /\ call[t].at = "drop"
        /\ Goes(t, IF handle = NULL THEN Idle
                   ELSE [call[t] EXCEPT !.at = "unref", !.node = handle.node])
        /\ UNCHANGED <<vars, early>>

\* use_count--, and whether it was the last use; EBADF without a handle.
CloseDrop(t) ==
    LET h == call[t].handle
        handle == At(open_files, h)
        last == [call[t] EXCEPT !.at = "free_handle", !.node = handle.node]
    IN  /\ status = "ok"
        /\ call[t].at = "drop"
        /\ IF handle = NULL
           THEN Goes(t, Idle) /\ UNCHANGED open_files
           ELSE \E count \in Counts(handle) :
                    /\ open_files' = Update(open_files, h,
                                     [handle EXCEPT !.use_count = count - 1])
                    /\ Goes(t, IF count - 1 <= 0 THEN last ELSE Idle)
        /\ UNCHANGED <<nodes, fds, status, early>>

CloseFreeHandle(t) ==
    /\ status = "ok"
    /\ call[t].at = "free_handle"
    /\ open_files' = Free(open_files, call[t].handle)
    /\ Goes(t, [call[t] EXCEPT !.at = "unref"])
    /\ UNCHANGED <<nodes, fds, status, early>>

\* What a node read from a handle names: an uninitialised one, anything.
Named(node) == IF node = UNSET THEN Index(nodes) ELSE {node}
\* How a call through the mount read with it may end.
Ends(node) == IF node = UNSET THEN {"ok", "crashed"} ELSE {"ok"}

CloseUnref(t) ==
    /\ status = "ok"
    /\ call[t].at = "unref"
    /\ \E s \in Named(call[t].node) : nodes' = Unref(nodes, s)
    /\ status' \in Ends(call[t].node)
    /\ Goes(t, Idle)
    /\ Watch
    /\ UNCHANGED <<fds, open_files>>

-------------------------------------------------------------------------------
(* remove() and rmdir(): the path is looked up in one call of the mount    *)
(* and the inode, or the path again, removed in the next.                  *)

RemoveFind(t, path) ==
    LET found == GetNode(nodes, path)
        next == IF At(nodes, found.slot).is_dir
                THEN [Idle EXCEPT !.at = "rmdir", !.node = found.slot]
                ELSE [Idle EXCEPT !.at = "unlink", !.path = path]
    IN  /\ status = "ok"
        /\ call[t].at = "idle"
        /\ MountCall(found)
        /\ Goes(t, IF found.err = "OK" THEN next ELSE Idle)
        /\ early' = early

RmdirFind(t, path) ==
    LET found == GetNode(nodes, path)
    IN  /\ status = "ok"
        /\ call[t].at = "idle"
        /\ MountCall(found)
        /\ Goes(t, IF found.err = "OK"
                   THEN [Idle EXCEPT !.at = "rmdir", !.node = found.slot] ELSE Idle)
        /\ early' = early

RemoveDir(t) ==
    /\ status = "ok"
    /\ call[t].at = "rmdir"
    /\ MountCall(Rmdir(nodes, call[t].node))
    /\ Goes(t, Idle)
    /\ Watch

RemoveFile(t) ==
    /\ status = "ok"
    /\ call[t].at = "unlink"
    /\ MountCall(Unlink(nodes, call[t].path))
    /\ Goes(t, Idle)
    /\ Watch

-------------------------------------------------------------------------------
\* mkdir(), and stat() with the other calls that only look a path up.
OneCall(t, path) ==
    /\ call[t].at = "idle"
    /\ MkdirPath(path) \/ StatPath(path)
    /\ UNCHANGED <<call, early>>

\* getdents(): GetFileHandle() is a call of each table.
GetdentsFind(t, fd) ==
    /\ status = "ok"
    /\ call[t].at = "idle"
    /\ At(fds, fd) # NULL
    /\ ~ HalfOpen(fd) /\ MayUse(fd)
    /\ Goes(t, [Idle EXCEPT !.at = "find_handle", !.fd = fd,
                            !.handle = At(fds, fd).handle])
    /\ UNCHANGED <<vars, early>>

GetdentsHandle(t) ==
    LET handle == At(open_files, call[t].handle)
    IN  /\ status = "ok"
        /\ call[t].at = "find_handle"
        /\ Goes(t, IF handle = NULL THEN Idle
                   ELSE [call[t] EXCEPT !.at = "getdents", !.node = handle.node])
        /\ UNCHANGED <<vars, early>>

GetdentsCall(t, room) ==
    /\ status = "ok"
    /\ call[t].at = "getdents"
    /\ \E s \in Named(call[t].node) :
           status' \in IF Getdents(nodes, s, room).err = "CRASH"
                       THEN {"crashed"} ELSE Ends(call[t].node)
    /\ Goes(t, Idle)
    /\ UNCHANGED <<nodes, fds, open_files, early>>

TNext ==
    \E t \in Threads :
        \/ \E path \in Paths, flags \in {0, 1} : OpenFind(t, path, flags)
        \/ OpenRef(t) \/ OpenAllocHandle(t) \/ OpenAllocFd(t) \/ OpenFill(t)
        \/ \E fd \in Index(fds) : CloseFind(t, fd) \/ GetdentsFind(t, fd)
        \/ CloseFreeFd(t) \/ CloseDrop(t) \/ CloseFreeHandle(t) \/ CloseUnref(t)
        \/ \E path \in Paths : \/ RemoveFind(t, path) \/ RmdirFind(t, path)
                               \/ OneCall(t, path)
        \/ RemoveDir(t) \/ RemoveFile(t)
        \/ GetdentsHandle(t) \/ \E room \in {1, MaxNodes} : GetdentsCall(t, room)

TSpec == TInit /\ [][TNext]_tvars

-------------------------------------------------------------------------------
Ready == {fd \in Live(fds) : ~ HalfOpen(fd)}

\* What a handle belongs to: a descriptor, or the call that is making it or
\* getting rid of it.
HasHandle == {"alloc_fd", "fill", "drop", "free_handle"}
Owners(h) ==
    ({"fd"} \X {fd \in Ready : At(fds, fd).handle = h}) \cup
    ({"call"} \X {t \in Threads : call[t].at \in HasHandle /\ call[t].handle = h})

(***************************************************************************)
(* However open() and close() of several threads interleave between the    *)
(* two allocators, which no longer hand out the same numbers, every handle *)
(* belongs to exactly one descriptor or to one call, so that none is       *)
(* shared or leaked; every descriptor open() returned leads to a handle    *)
(* that is filled in; and no call keeps a number of a handle that is gone. *)
(***************************************************************************)
TablesMatch ==
    /\ \A h \in Live(open_files) : \E x \in Owners(h) : Owners(h) = {x}
    /\ \A fd \in Ready :
           LET handle == At(open_files, At(fds, fd).handle)
           IN  handle # NULL /\ handle.node # UNSET /\ handle.use_count = 1
    /\ \A t \in Threads :
           call[t].at \in HasHandle => At(open_files, call[t].handle) # NULL

(***************************************************************************)
(* As long as no thread closes a descriptor that another one is using,     *)
(* freeing an inode too early is the only way in which interleaved calls   *)
(* break the tree: until it happens nothing crashes, no entry dangles, the *)
(* tree is well formed, and every use count is the entries and handles of  *)
(* its file and the calls that are half way through an open() or close().  *)
(***************************************************************************)
IntactUnlessFreedEarly ==
    early \/ /\ NoCrash /\ NoDanglingChild /\ TreeWellFormed
             /\ \A s \in Live(nodes) : ~ At(nodes, s).is_dir =>
                    /\ At(nodes, s).use_count > 0
                    /\ At(nodes, s).use_count = Cardinality(Links(s)) +
                           Cardinality(HandlesInUse(s)) + Cardinality(Holders(s))

(***************************************************************************)
(* What Ref() and Unref() are for, as memory/MemMount.cc has it: unless a  *)
(* call frees what another thread is still using, no directory entry       *)
(* outlives its inode.                                                     *)
(***************************************************************************)
ChildUnlessFreedEarly == early \/ NoDanglingChild
===============================================================================
