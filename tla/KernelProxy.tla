------------------------------ MODULE KernelProxy ------------------------------
(***************************************************************************)
(* base/KernelProxy.cc over the memory mount at "/" that MountManager::    *)
(* Init() installs: the calls that make, open, close and remove files and  *)
(* directories, one at a time.                                             *)
(***************************************************************************)
EXTENDS MemMount

CONSTANTS Names,       \* path components
          MaxDepth,    \* bound on the length of a path
          MaxNodes,    \* bound on the slots of the mount
          MaxFds,      \* bound on the slots of fds_
          Unguarded    \* which of the calls below programs make

\* Calls that the code does not guard against:
\* open_root    open("/"): Last() of an empty component list
\* remove_root  remove("/") or rmdir("/")
\* rmdir_open   remove() or rmdir() of a directory that a descriptor refers to
\* close_race   close() of a descriptor that another thread is in a call on
\*              (KernelProxyThreads)
UnguardedCalls == {"open_root", "remove_root", "rmdir_open", "close_race"}

ASSUME KernelProxyAssumption ==
    /\ MaxDepth \in Nat /\ MaxNodes \in Nat \ {0} /\ MaxFds \in Nat
    /\ Unguarded \subseteq UnguardedCalls

\* NULL is no slot, and the address of no MemNode, FileHandle or
\* FileDescriptor.
ASSUME NullAssumption ==
    /\ NULL \notin Int
    /\ NULL \notin [name : Names \cup {"/"}, is_dir : BOOLEAN,
                    parent : -1 .. MaxNodes - 1,
                    children : Seq(0 .. MaxNodes - 1), use_count : Nat]
    /\ NULL \notin [node : Int, use_count : Int]
    /\ NULL \notin [handle : Int]

VARIABLES nodes,        \* MemMount::slots_
          fds,          \* fds_: FileDescriptor [handle]
          open_files,   \* open_files_: FileHandle [node, use_count]
          status        \* "ok", "crashed" after a NULL was followed, or
                        \* "no_name" after open("/") took the last of no names

vars == <<nodes, fds, open_files, status>>

Paths == UNION {[1 .. n -> Names] : n \in 0 .. MaxDepth}

Init == /\ nodes = NewMount
        /\ fds = EmptyAllocator
        /\ open_files = EmptyAllocator
        /\ status = "ok"

\* A call of the mount that changes the tree at most.
MountCall(r) ==
    /\ r.fs.size <= MaxNodes
    /\ nodes' = r.fs
    /\ status' = IF r.err = "CRASH" THEN "crashed" ELSE "ok"
    /\ UNCHANGED <<fds, open_files>>

HandlesOn(slot) == {h \in Live(open_files) : At(open_files, h).node = slot}

-------------------------------------------------------------------------------
\* Mutant: the inode is not referenced.
OpenHandle_NoRef(path, flags) ==
    LET r == IF flags # 0 THEN Creat(nodes, path) ELSE GetNode(nodes, path)
    IN  IF r.err # "OK"
        THEN MountCall(r)
        ELSE /\ r.fs.size <= MaxNodes
             /\ nodes' = r.fs
             /\ open_files' = Alloc(open_files, [node |-> r.slot, use_count |-> 1])
             /\ fds' = Alloc(fds, [handle |-> AllocSlot(open_files)])
             /\ status' = "ok"

\* Mutant: a failed GetNode() is not noticed.
OpenHandle_NoCheck(path, flags) ==
    LET r == IF flags # 0 THEN Creat(nodes, path) ELSE GetNode(nodes, path)
    IN  IF r.err # "OK" /\ flags # 0
        THEN MountCall(r)
        ELSE /\ r.fs.size <= MaxNodes
             /\ nodes' = Ref(r.fs, r.slot)
             /\ open_files' = Alloc(open_files, [node |-> r.slot, use_count |-> 1])
             /\ fds' = Alloc(fds, [handle |-> AllocSlot(open_files)])
             /\ status' = "ok"

\* OpenHandle(mount, path, flags, mode).  `flags && O_CREAT' and
\* `flags && O_EXCL' are both just flags # 0.
OpenHandle(path, flags) ==
    LET r == IF flags # 0 THEN Creat(nodes, path) ELSE GetNode(nodes, path)
    IN  IF r.err # "OK"
        THEN MountCall(r)
        ELSE /\ r.fs.size <= MaxNodes
             /\ nodes' = Ref(r.fs, r.slot)
             /\ open_files' = Alloc(open_files, [node |-> r.slot, use_count |-> 1])
             /\ fds' = Alloc(fds, [handle |-> AllocSlot(open_files)])
             /\ status' = "ok"

\* open(path, flags, mode)
Open(path, flags) ==
    /\ status = "ok"
    /\ AllocSlot(fds) < MaxFds
    /\ path # <<>>
    /\ OpenHandle(path, flags)

\* open("/", ..): back() of an empty list stops the program or yields some
\* string.
OpenRoot(flags) ==
    /\ "open_root" \in Unguarded
    /\ status = "ok"
    /\ AllocSlot(fds) < MaxFds
    /\ \/ status' = "no_name" /\ UNCHANGED <<nodes, fds, open_files>>
       \/ \E n \in Names : OpenHandle(<<n>>, flags)

\* Mutant: the handle is left behind.
Close_KeepHandle(fd) ==
    /\ status = "ok"
    /\ At(fds, fd) # NULL
    /\ fds' = Free(fds, fd)
    /\ nodes' = Unref(nodes, At(open_files, At(fds, fd).handle).node)
    /\ UNCHANGED <<open_files, status>>

\* close(fd) of an open descriptor; any other is EBADF and changes nothing.
Close(fd) ==
    LET h == At(fds, fd).handle
        handle == At(open_files, h)
    IN  /\ status = "ok"
        /\ At(fds, fd) # NULL
        /\ fds' = Free(fds, fd)
        /\ IF handle = NULL
           THEN UNCHANGED <<nodes, open_files>>
           ELSE IF handle.use_count - 1 <= 0
           THEN /\ open_files' = Free(open_files, h)
                /\ nodes' = Unref(nodes, handle.node)
           ELSE /\ open_files' = Update(open_files, h,
                                        [handle EXCEPT !.use_count = @ - 1])
                /\ nodes' = nodes
        /\ UNCHANGED status

\* What callers do not do unless Unguarded says so.
MayRmdir(slot) ==
    /\ slot = 0 => "remove_root" \in Unguarded
    /\ HandlesOn(slot) # {} => "rmdir_open" \in Unguarded

\* remove(path)
Remove(path) ==
    LET found == GetNode(nodes, path)
    IN  /\ status = "ok"
        /\ IF found.err # "OK"
           THEN MountCall(found)
           ELSE IF At(nodes, found.slot).is_dir
           THEN MayRmdir(found.slot) /\ MountCall(Rmdir(nodes, found.slot))
           ELSE MountCall(Unlink(nodes, path))

\* rmdir(path)
RmdirPath(path) ==
    LET found == GetNode(nodes, path)
    IN  /\ status = "ok"
        /\ IF found.err # "OK"
           THEN MountCall(found)
           ELSE MayRmdir(found.slot) /\ MountCall(Rmdir(nodes, found.slot))

\* mkdir(path, mode)
MkdirPath(path) ==
    /\ status = "ok"
    /\ MountCall(Mkdir(nodes, path))

\* stat(path), chmod(path, mode), and each prefix in access(path)
StatPath(path) ==
    /\ status = "ok"
    /\ MountCall(GetNode(nodes, path))

\* getdents(fd, buf, room entries)
GetdentsFd(fd, room) ==
    /\ status = "ok"
    /\ At(fds, fd) # NULL
    /\ At(open_files, At(fds, fd).handle) # NULL
    /\ MountCall(Getdents(nodes, At(open_files, At(fds, fd).handle).node, room))

Next ==
    \/ \E path \in Paths, flags \in {0, 1} : Open(path, flags)
    \/ \E flags \in {0, 1} : OpenRoot(flags)
    \/ \E fd \in Index(fds) : Close(fd)
    \/ \E path \in Paths : \/ Remove(path) \/ RmdirPath(path)
                           \/ MkdirPath(path) \/ StatPath(path)
    \/ \E fd \in Index(fds), room \in {1, MaxNodes} : GetdentsFd(fd, room)

Spec == Init /\ [][Next]_vars

-------------------------------------------------------------------------------
IsAllocator(a, Obj(_)) ==
    /\ a.size \in Nat
    /\ DOMAIN a.slots = Index(a)
    /\ a.heap \in [Index(a) -> Nat]
    /\ \A s \in Live(a) : Obj(a.slots[s])

IsNode(n) ==
    /\ DOMAIN n = {"name", "is_dir", "parent", "children", "use_count"}
    /\ n.name \in Names \cup {"/"}
    /\ n.is_dir \in BOOLEAN
    /\ n.parent \in -1 .. MaxNodes - 1
    /\ n.children \in Seq(0 .. MaxNodes - 1)
    /\ n.use_count \in Nat

IsHandle(h) ==
    /\ DOMAIN h = {"node", "use_count"}
    /\ h.node \in 0 .. MaxNodes - 1
    /\ h.use_count \in Nat

IsDescriptor(d) == DOMAIN d = {"handle"} /\ d.handle \in 0 .. MaxFds - 1

\* The three allocators hold inodes, handles and descriptors, and every slot
\* number stored in one of them is inside the bounds of the one it points to.
TypeOK ==
    /\ IsAllocator(nodes, IsNode) /\ nodes.size <= MaxNodes
    /\ IsAllocator(open_files, IsHandle)
    /\ IsAllocator(fds, IsDescriptor) /\ fds.size <= MaxFds
    /\ status \in {"ok", "crashed", "no_name"}

(***************************************************************************)
(* Descriptors and handles correspond one to one, with use_count 1: two    *)
(* descriptors never share an offset by accident and close() leaks no      *)
(* handle, also after directories were removed under them.                 *)
(***************************************************************************)
FdsMatchHandles ==
    /\ \A fd \in Live(fds) : At(open_files, At(fds, fd).handle) # NULL
    /\ \A f, g \in Live(fds) : At(fds, f).handle = At(fds, g).handle => f = g
    /\ \A h \in Live(open_files) :
           /\ At(open_files, h).use_count = 1
           /\ \E fd \in Live(fds) : At(fds, fd).handle = h

\* The positions at which directories list a slot.
Links(slot) ==
    UNION {{d} \X {i \in 1 .. Len(At(nodes, d).children) :
                       At(nodes, d).children[i] = slot} : d \in Live(nodes)}

(***************************************************************************)
(* Every directory entry leads to a live inode: no walk in GetSlot() or    *)
(* Getdents() follows a NULL.                                              *)
(***************************************************************************)
NoDanglingChild ==
    \A d \in Live(nodes) : \A i \in 1 .. Len(At(nodes, d).children) :
        At(nodes, At(nodes, d).children[i]) # NULL

(***************************************************************************)
(* The inodes form a tree below slot 0: an entry and the parent_ of its    *)
(* inode agree, no inode is listed twice, siblings have different names,   *)
(* and every directory but the root is listed.                             *)
(***************************************************************************)
TreeWellFormed ==
    /\ At(nodes, 0) # NULL /\ At(nodes, 0).is_dir
    /\ Links(0) = {}
    /\ \A s \in Live(nodes) :
           /\ \A l \in Links(s) : l[1] = At(nodes, s).parent /\ Links(s) = {l}
           /\ At(nodes, s).is_dir /\ s # 0 => Links(s) # {}
           /\ \A t \in Live(nodes) \ {s} :
                  /\ Links(s) # {} /\ Links(t) # {}
                  /\ At(nodes, s).parent = At(nodes, t).parent
                  => At(nodes, s).name # At(nodes, t).name

(***************************************************************************)
(* use_count_ of a file is its directory entry plus the handles open on    *)
(* it, and it is never zero: Unref() frees a file exactly when the last of *)
(* them goes.                                                              *)
(***************************************************************************)
UseCountMatches ==
    \A s \in Live(nodes) : ~ At(nodes, s).is_dir =>
        /\ At(nodes, s).use_count > 0
        /\ At(nodes, s).use_count =
               Cardinality(Links(s)) + Cardinality(HandlesOn(s))

(***************************************************************************)
(* No call of the mount follows the NULL pointer of a slot.                *)
(***************************************************************************)
NoCrash == status # "crashed"
===============================================================================
