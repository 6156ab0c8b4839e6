------------------------------- MODULE FileTree -------------------------------
(***************************************************************************)
(* What the path and descriptor calls of KernelProxy promise a program: a  *)
(* tree of named inodes, and descriptors that each stay with one inode     *)
(* until they are closed, also when its name is removed.  Calls that fail  *)
(* change nothing.                                                         *)
(***************************************************************************)
EXTENDS Integers, Sequences

CONSTANTS Path,    \* paths, as sequences of components; <<>> is the root
          Inode,
          Fd

VARIABLES tree,    \* the inode each existing path names
          open     \* the inode each open descriptor refers to

vars == <<tree, open>>

Without(f, x) == [y \in DOMAIN f \ {x} |-> f[y]]
With(f, x, v) == [y \in DOMAIN f \cup {x} |-> IF y = x THEN v ELSE f[y]]

Parent(p) == SubSeq(p, 1, Len(p) - 1)

\* An inode that no path names and no descriptor refers to.
Fresh(i) == /\ \A p \in DOMAIN tree : tree[p].ino # i
            /\ \A f \in DOMAIN open : open[f] # i

\* A path that can be made: its parent is a directory and it does not exist.
Free(p) == /\ p # <<>>
           /\ p \notin DOMAIN tree
           /\ Parent(p) \in DOMAIN tree
           /\ tree[Parent(p)].dir

Init == /\ \E i \in Inode : tree = [p \in {<<>>} |-> [ino |-> i, dir |-> TRUE]]
        /\ open = [f \in {} |-> 0]

Create(p, i, f) ==
    /\ Free(p)
    /\ Fresh(i)
    /\ tree' = With(tree, p, [ino |-> i, dir |-> FALSE])
    /\ open' = With(open, f, i)

Open(p, f) ==
    /\ p \in DOMAIN tree
    /\ tree' = tree
    /\ open' = With(open, f, tree[p].ino)

Close(f) ==
    /\ open' = Without(open, f)
    /\ tree' = tree

Mkdir(p, i) ==
    /\ Free(p)
    /\ Fresh(i)
    /\ tree' = With(tree, p, [ino |-> i, dir |-> TRUE])
    /\ open' = open

\* A file, or a directory with nothing below it; never the root.
Remove(p) ==
    /\ p \in DOMAIN tree \ {<<>>}
    /\ \A q \in DOMAIN tree \ {<<>>} : Parent(q) # p
    /\ tree' = Without(tree, p)
    /\ open' = open

Next ==
    \/ \E p \in Path, i \in Inode, f \in Fd \ DOMAIN open : Create(p, i, f)
    \/ \E p \in Path, f \in Fd \ DOMAIN open : Open(p, f)
    \/ \E f \in DOMAIN open : Close(f)
    \/ \E p \in Path, i \in Inode : Mkdir(p, i)
    \/ \E p \in Path : Remove(p)

Spec == Init /\ [][Next]_vars
===============================================================================
