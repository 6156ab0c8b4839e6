------------------------------- MODULE MemMount -------------------------------
(***************************************************************************)
(* memory/MemMount.cc and memory/MemNode.cc: the tree of inodes of the     *)
(* in-memory mount, as operators on its slots_ (an allocator of            *)
(* SlotAllocator whose objects are MemNode records).  KernelProxy drives   *)
(* them.  File contents are the subject of MemFile.                        *)
(*                                                                         *)
(* A path is the sequence of components PathHandle makes of an absolute    *)
(* path, already collapsed; path + "/.." is then its lexical parent.       *)
(*                                                                         *)
(* A call returns [fs, slot, err]: the tree after it, an inode, and "OK",  *)
(* an errno, or CRASH where the code calls a method through the NULL that  *)
(* slots_.At() gave it.                                                    *)
(***************************************************************************)
EXTENDS SlotAllocator, Sequences

\* Bound on the use_count_ of a directory, which Ref() increments, nothing
\* decrements and nothing reads: it is counted up to here.
CONSTANT MaxDirUse

ASSUME MaxDirUseAssumption == MaxDirUse \in Nat

NOT_FOUND == -1
CRASHED == -2

\* The collapsed form of path + "/..".
ParentPath(path) == IF path = <<>> THEN <<>> ELSE SubSeq(path, 1, Len(path) - 1)

MemNode(name, is_dir, parent, use_count) ==
    [name |-> name, is_dir |-> is_dir, parent |-> parent,
     children |-> <<>>, use_count |-> use_count]

Result(fs, slot, err) == [fs |-> fs, slot |-> slot, err |-> err]

\* MemMount(): slot 0 is the root.  Its parent_ is never set.
NewMount == Alloc(EmptyAllocator, MemNode("/", TRUE, NOT_FOUND, 0))

\* The inner loop of GetSlot(): the first child of that name.  name() is
\* called on every child up to it, so a freed one among them crashes.
FindChild(fs, dir, name) ==
    LET children == At(fs, dir).children
        stops == {i \in 1 .. Len(children) :
                      \/ At(fs, children[i]) = NULL
                      \/ At(fs, children[i]).name = name}
        stop == children[Min(stops)]
    IN  IF stops = {} THEN NOT_FOUND
        ELSE IF At(fs, stop) = NULL THEN CRASHED
        ELSE stop

\* int GetSlot(path)
GetSlot(fs, path) ==
    LET Walk[k \in 0 .. Len(path)] ==
            IF k = 0 THEN 0
            ELSE LET slot == Walk[k - 1]
                 IN  IF slot < 0 THEN slot
                     ELSE IF At(fs, slot) = NULL THEN CRASHED
                     ELSE IF ~ At(fs, slot).is_dir THEN NOT_FOUND
                     ELSE FindChild(fs, slot, path[k])
        slot == Walk[Len(path)]
    IN  IF slot = 0 /\ Len(path) > 1 THEN NOT_FOUND ELSE slot

GetParentSlot(fs, path) == GetSlot(fs, ParentPath(path))

\* int GetNode(path, st), with Stat() of the slot found.
GetNode(fs, path) ==
    LET slot == GetSlot(fs, path)
    IN  IF slot = CRASHED           THEN Result(fs, slot, "CRASH")
        ELSE IF At(fs, slot) = NULL THEN Result(fs, slot, "ENOENT")
        ELSE Result(fs, slot, "OK")

\* parent->AddChild(slot) for a node just allocated there.
AddChild(fs, dir, slot) ==
    LET node == At(fs, dir)
    IN  IF node.is_dir
        THEN Update(fs, dir, [node EXCEPT !.children = Append(@, slot)])
        ELSE fs

\* Mutant: the entry stays in the directory.
RemoveChild_Keep(fs, dir, slot) == fs

\* children_.remove(slot): Kept[i] is what is left of the first i.
Without(children, slot) ==
    LET Kept[i \in 0 .. Len(children)] ==
            IF i = 0 THEN <<>>
            ELSE IF children[i] = slot THEN Kept[i - 1]
            ELSE Append(Kept[i - 1], children[i])
    IN  Kept[Len(children)]

\* dir->RemoveChild(slot)
RemoveChild(fs, dir, slot) ==
    LET node == At(fs, dir)
    IN  IF node.is_dir
        THEN Update(fs, dir, [node EXCEPT !.children = Without(@, slot)])
        ELSE fs

\* A new node under `parent', as Creat() and Mkdir() make it.
NewChild(fs, path, parent, is_dir, use_count) ==
    LET slot == AllocSlot(fs)
        node == MemNode(path[Len(path)], is_dir, parent, use_count)
    IN  Result(AddChild(Alloc(fs, node), parent, slot), slot, "OK")

\* int Creat(path, mode, st), for a path that is not the root.
Creat(fs, path) ==
    LET parent == GetParentSlot(fs, path)
        child == GetSlot(fs, path)
    IN  IF parent = CRASHED               THEN Result(fs, NOT_FOUND, "CRASH")
        ELSE IF parent = NOT_FOUND        THEN Result(fs, NOT_FOUND, "ENOTDIR")
        ELSE IF At(fs, parent) = NULL     THEN Result(fs, NOT_FOUND, "EINVAL")
        ELSE IF ~ At(fs, parent).is_dir   THEN Result(fs, NOT_FOUND, "ENOTDIR")
        ELSE IF child = CRASHED           THEN Result(fs, NOT_FOUND, "CRASH")
        ELSE IF At(fs, child) # NULL      THEN Result(fs, NOT_FOUND, "EEXIST")
        ELSE NewChild(fs, path, parent, FALSE, 1)

\* Mutant: the check that the name is free is dropped.
Mkdir_NoExistCheck(fs, path) ==
    LET parent == GetParentSlot(fs, path)
    IN  IF parent < 0 \/ path = <<>>      THEN Result(fs, NOT_FOUND, "ENOENT")
        ELSE IF At(fs, parent) = NULL     THEN Result(fs, NOT_FOUND, "CRASH")
        ELSE IF ~ At(fs, parent).is_dir   THEN Result(fs, NOT_FOUND, "ENOTDIR")
        ELSE NewChild(fs, path, parent, TRUE, 0)

\* int Mkdir(path, mode, NULL).  A NULL parent is not checked for.
Mkdir(fs, path) ==
    LET child == GetSlot(fs, path)
        parent == GetParentSlot(fs, path)
    IN  IF child = CRASHED                THEN Result(fs, NOT_FOUND, "CRASH")
        ELSE IF At(fs, child) # NULL      THEN Result(fs, NOT_FOUND, "EEXIST")
        ELSE IF parent = NOT_FOUND        THEN Result(fs, NOT_FOUND, "ENOENT")
        ELSE IF parent = CRASHED          THEN Result(fs, NOT_FOUND, "CRASH")
        ELSE IF At(fs, parent) = NULL     THEN Result(fs, NOT_FOUND, "CRASH")
        ELSE IF ~ At(fs, parent).is_dir   THEN Result(fs, NOT_FOUND, "ENOTDIR")
        ELSE NewChild(fs, path, parent, TRUE, 0)

\* void Ref(slot)
Ref(fs, slot) ==
    LET node == At(fs, slot)
    IN  IF node = NULL THEN fs
        ELSE IF node.is_dir /\ node.use_count = MaxDirUse THEN fs
        ELSE Update(fs, slot, [node EXCEPT !.use_count = @ + 1])

\* Mutant: the node is freed while one user is left.
Unref_Early(fs, slot) ==
    LET node == At(fs, slot)
    IN  IF node = NULL \/ (node # NULL /\ node.is_dir) THEN fs
        ELSE IF node.use_count - 1 > 1
             THEN Update(fs, slot, [node EXCEPT !.use_count = @ - 1])
             ELSE Free(fs, slot)

\* void Unref(slot): directories are not counted down.
Unref(fs, slot) ==
    LET node == At(fs, slot)
    IN  IF node = NULL THEN fs
        ELSE IF node.is_dir THEN fs
        ELSE IF node.use_count - 1 > 0
             THEN Update(fs, slot, [node EXCEPT !.use_count = @ - 1])
             ELSE Free(fs, slot)

\* Mutant: the node is freed at once, whoever has it open.
Unlink_Free(fs, path) ==
    LET slot == GetSlot(fs, path)
        parent == GetParentSlot(fs, path)
    IN  IF slot < 0 \/ At(fs, slot) = NULL THEN Result(fs, slot, "ENOENT")
        ELSE IF At(fs, slot).is_dir        THEN Result(fs, slot, "EISDIR")
        ELSE Result(Free(RemoveChild(fs, parent, slot), slot), slot, "OK")

\* int Unlink(path)
Unlink(fs, path) ==
    LET slot == GetSlot(fs, path)
        parent == GetParentSlot(fs, path)
    IN  IF slot = CRASHED                  THEN Result(fs, slot, "CRASH")
        ELSE IF At(fs, slot) = NULL        THEN Result(fs, slot, "ENOENT")
        ELSE IF parent = CRASHED           THEN Result(fs, slot, "CRASH")
        ELSE IF At(fs, parent) = NULL      THEN Result(fs, slot, "EBUSY")
        ELSE IF At(fs, slot).is_dir        THEN Result(fs, slot, "EISDIR")
        ELSE Result(Unref(RemoveChild(fs, parent, slot), slot), slot, "OK")

\* int Rmdir(slot)
Rmdir(fs, slot) ==
    LET node == At(fs, slot)
    IN  IF node = NULL                     THEN Result(fs, slot, "ENOENT")
        ELSE IF ~ node.is_dir              THEN Result(fs, slot, "ENOTDIR")
        ELSE IF node.children # <<>>       THEN Result(fs, slot, "ENOTEMPTY")
        ELSE IF slot = 0                   THEN Result(Free(fs, slot), slot, "OK")
        ELSE IF At(fs, node.parent) = NULL THEN Result(fs, slot, "CRASH")
        ELSE Result(Free(RemoveChild(fs, node.parent, slot), slot), slot, "OK")

\* int Getdents(slot, ..): name() of every child the buffer has room for.
Getdents(fs, slot, room) ==
    LET node == At(fs, slot)
    IN  IF node = NULL                     THEN Result(fs, slot, "ENOTDIR")
        ELSE IF ~ node.is_dir              THEN Result(fs, slot, "ENOTDIR")
        ELSE IF \E i \in 1 .. Len(node.children) :
                    i <= room /\ At(fs, node.children[i]) = NULL
                                           THEN Result(fs, slot, "CRASH")
        ELSE Result(fs, slot, "OK")
===============================================================================
