---------------------------- MODULE KernelProxyTree ----------------------------
(***************************************************************************)
(* KernelProxy over MemMount shown to implement FileTree.  The refinement  *)
(* mapping is kept in two variables of its own, each a function of the     *)
(* state of KernelProxy, so that it is computed once per state.            *)
(***************************************************************************)
EXTENDS KernelProxy, TLC

VARIABLES tree, open

\* What each path that stat() finds names.
TreeOf(fs) ==
    [p \in {q \in Paths : GetNode(fs, q).err = "OK"} |->
        LET slot == GetSlot(fs, p)
        IN  [ino |-> slot, dir |-> At(fs, slot).is_dir]]

\* The inode each open descriptor refers to.
OpenOf(f, h) == [fd \in Live(f) |-> At(h, At(f, fd).handle).node]

MappedInit ==
    /\ Init
    /\ tree = TreeOf(nodes)
    /\ open = OpenOf(fds, open_files)

MappedNext ==
    /\ Next
    /\ tree' = TreeOf(nodes')
    /\ open' = OpenOf(fds', open_files')

MappedSpec == MappedInit /\ [][MappedNext]_<<vars, tree, open>>

Files == INSTANCE FileTree WITH Path <- Paths,
                                Inode <- 0 .. MaxNodes - 1,
                                Fd <- 0 .. MaxFds - 1

(***************************************************************************)
(* The calls implement FileTree: an inode number is not given out again    *)
(* while a path or a descriptor has it, removing a name leaves the open    *)
(* descriptors and all other paths alone, and a call that fails changes    *)
(* nothing.                                                                *)
(***************************************************************************)
ImplementsTree == Files!Spec

\* No definition picks a name, so names can be exchanged.
NameSymmetry == Permutations(Names)
===============================================================================
