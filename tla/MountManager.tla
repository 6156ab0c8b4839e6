----------------------------- MODULE MountManager -----------------------------
(***************************************************************************)
(* Which file a path means: base/MountManager.cc, the working directory    *)
(* and the path handling of base/KernelProxy.cc, and the wrappers of       *)
(* base/Entry.cc, over any number of memory mounts.  Descriptors are the   *)
(* subject of KernelProxy: a program here closes what it opens at once.    *)
(***************************************************************************)
EXTENDS MemMount, PathHandle

CONSTANTS Mounts,        \* the memory mounts that programs make
          DefaultMount,  \* the one of Init()
          Chars,         \* the characters of strings
          MountPaths,    \* the strings AddMount() and RemoveMount() are given
          CallPaths,     \* the strings the calls are given
          Strings,       \* the strings the invariants range over
          MaxNodes,      \* bound on the slots of a mount
          SizeMod        \* 2^w for the width w of size_t

ASSUME MountManagerAssumption ==
    /\ NULL \notin Mounts /\ DefaultMount \in Mounts
    /\ {"/", "."} \subseteq Chars
    /\ CallPaths \subseteq Strings
    /\ MountPaths \cup Strings \subseteq Seq(Chars)
    /\ MaxNodes \in Nat \ {0} /\ SizeMod \in Nat \ {0}

VARIABLES mount_map,   \* mount_map_: from the strings that are keys
          cwd_mount,   \* cwd_mount_, which nothing reads but RemoveMount()
          cwd,         \* KernelProxy::cwd_, a PathHandle
          trees        \* the slots_ of each mount

vars == <<mount_map, cwd_mount, cwd, trees>>

Init == /\ mount_map = [k \in {Slash} |-> DefaultMount]
        /\ cwd_mount = DefaultMount
        /\ cwd = SetPath(Slash)
        /\ trees = [m \in Mounts |-> NewMount]

-------------------------------------------------------------------------------
(* Finding mounts.                                                         *)

\* The keys that the STRING s starts with.
Keys(s) == {k \in DOMAIN mount_map : k # <<>> /\ IsPrefix(k, s)}

\* Mutant: the first key that matches is taken, not the longest.
GetMount_First(s) ==
    LET best == CHOOSE k \in Keys(s) : \A l \in Keys(s) : Len(k) <= Len(l)
    IN  IF Keys(s) = {} THEN [mount |-> NULL, rest |-> s]
        ELSE [mount |-> mount_map[best],
              rest |-> IF best = s THEN Slash ELSE SubSeq(s, Len(best) + 1, Len(s))]

\* GetMount(path): the longest of them, and what follows it.
GetMount(s) ==
    LET best == CHOOSE k \in Keys(s) : \A l \in Keys(s) : Len(k) >= Len(l)
    IN  IF Keys(s) = {} THEN [mount |-> NULL, rest |-> s]
        ELSE [mount |-> mount_map[best],
              rest |-> IF best = s THEN Slash ELSE SubSeq(s, Len(best) + 1, Len(s))]

\* A place: a mount and the components MemMount::GetSlot() walks there.
Place(s) ==
    LET found == GetMount(s)
    IN  IF found.mount = NULL THEN NULL
        ELSE [mount |-> found.mount, path |-> NewPathHandle(found.rest).path]

\* GetNode(path), before it asks the mount.
NodePlace(s) == IF IsAbsolute(s) THEN Place(s) ELSE NULL

\* The answer of the mount.
NodeAt(p) == IF p = NULL THEN [err |-> "ENOENT"]
             ELSE GetNode(trees[p.mount], p.path)
Found(p) == NodeAt(p).err = "OK"
IsDir(p) == At(trees[p.mount], NodeAt(p).slot).is_dir

-------------------------------------------------------------------------------
(* Where the calls of KernelProxy look for a path.                         *)

\* chdir(), mkdir() and access() start from the working directory.
Target(s) == IF IsAbsolute(s) THEN SetPath(s) ELSE AppendPath(cwd, s)

ChdirPlace(s) == NodePlace(FormulatePath(Target(s)))
MkdirPlace(s) == Place(FormulatePath(Target(s)))
StatPlace(s) == NodePlace(s)
RemovePlace(s) == Place(s)

\* open() refuses a path of which nothing is left (EINVAL).
OpenRefuses(s) == FormulatePath(NewPathHandle(s)) = <<>>

\* The handle open() makes of its path: a relative path is collapsed before
\* the working directory is put in front of it.
OpenHandlePath(s) ==
    LET ph == NewPathHandle(s)
    IN  IF FormulatePath(ph) # <<>> /\ ~ ph.is_absolute
        THEN NewPathHandle(FormulatePath(cwd) \o Slash \o FormulatePath(ph))
        ELSE ph

\* Mutant: the mount of the path itself is taken, with the name added again.
OpenPlace_NoParent(s) ==
    LET ph == OpenHandlePath(s)
        found == GetMount(FormulatePath(ph))
    IN  IF OpenRefuses(s) \/ found.mount = NULL THEN NULL
        ELSE [mount |-> found.mount,
              path |-> NewPathHandle(found.rest \o Slash \o Last(ph.path)).path]

\* open() looks up the mount of the PARENT and adds the name to what is left.
OpenPlace(s) ==
    LET ph == OpenHandlePath(s)
        parent == NewPathHandle(FormulatePath(ph) \o SlashDotDot)
        found == GetMount(FormulatePath(parent))
    IN  IF OpenRefuses(s) \/ found.mount = NULL THEN NULL
        ELSE [mount |-> found.mount,
              path |-> NewPathHandle(found.rest \o Slash \o Last(ph.path)).path]

\* access() calls stat() for "/" and for every prefix, each component with a
\* slash before it: the second string starts with "//".
AccessPlaces(s) ==
    LET path == Target(s).path
        Prefix[k \in 0 .. Len(path)] ==
            IF k = 0 THEN Slash ELSE Prefix[k - 1] \o Slash \o path[k]
    IN  [k \in 1 .. Len(path) + 1 |-> StatPlace(Prefix[k - 1])]

-------------------------------------------------------------------------------
(* Operations of MountManager.                                             *)

SetMount(k, m) == mount_map' = [l \in DOMAIN mount_map \cup {k} |->
                                    IF l = k THEN m ELSE mount_map[l]]

\* AddMount(m, path), m not NULL: operator[] makes an entry for the empty path
\* before it is refused.
AddMount(m, k) ==
    /\ k \in DOMAIN mount_map => mount_map[k] = NULL
    /\ SetMount(k, IF k = <<>> THEN NULL ELSE m)
    /\ UNCHANGED <<cwd_mount, cwd, trees>>

\* Mutant: the entry stays, without a mount.
RemoveMount_KeepKey(k) ==
    /\ k \in DOMAIN mount_map
    /\ cwd_mount' = IF cwd_mount = mount_map[k] THEN NULL ELSE cwd_mount
    /\ SetMount(k, NULL)
    /\ UNCHANGED <<cwd, trees>>

\* RemoveMount(path)
RemoveMount(k) ==
    /\ k \in DOMAIN mount_map
    /\ cwd_mount' = IF cwd_mount = mount_map[k] THEN NULL ELSE cwd_mount
    /\ mount_map' = [l \in DOMAIN mount_map \ {k} |-> mount_map[l]]
    /\ UNCHANGED <<cwd, trees>>

ClearMounts ==
    /\ mount_map' = [k \in {} |-> NULL]
    /\ cwd_mount' = NULL
    /\ UNCHANGED <<cwd, trees>>

-------------------------------------------------------------------------------
(* Calls of KernelProxy.  One that fails changes nothing.                  *)

\* Mutant: the path is stored as it was put together.
Chdir_Raw(s) ==
    /\ s # <<>>
    /\ Found(ChdirPlace(s)) /\ IsDir(ChdirPlace(s))
    /\ GetMount(FormulatePath(cwd)).mount # NULL
    /\ cwd' = Target(s)
    /\ UNCHANGED <<mount_map, cwd_mount, trees>>

\* chdir(path).  It also fails when the OLD directory has no mount any more.
Chdir(s) ==
    /\ s # <<>>
    /\ Found(ChdirPlace(s)) /\ IsDir(ChdirPlace(s))
    /\ GetMount(FormulatePath(cwd)).mount # NULL
    /\ cwd' = Collapsed(Target(s))
    /\ UNCHANGED <<mount_map, cwd_mount, trees>>

\* __wrap_rmdir(path), which is what rmdir() of a linked program reaches.
WrapRmdir(s) == Chdir(s)

\* A call of the mount at p with result r.
MountCall(p, r) ==
    /\ r.err = "OK"
    /\ r.fs.size <= MaxNodes
    /\ trees' = [trees EXCEPT ![p.mount] = r.fs]
    /\ UNCHANGED <<mount_map, cwd_mount, cwd>>

\* mkdir(path, mode)
MkdirPath(s) ==
    LET p == MkdirPlace(s)
    IN  /\ s # <<>>
        /\ p # NULL
        /\ MountCall(p, Mkdir(trees[p.mount], p.path))

\* Directories are removed, but never the root of a mount: see KernelProxy.
RmdirAt(p) == /\ NodeAt(p).slot # 0
              /\ MountCall(p, Rmdir(trees[p.mount], NodeAt(p).slot))

\* rmdir(path)
RmdirPath(s) == Found(StatPlace(s)) /\ RmdirAt(StatPlace(s))

\* remove(path)
RemovePath(s) ==
    LET p == RemovePlace(s)
    IN  /\ Found(p)
        /\ \/ IsDir(p) /\ RmdirAt(p)
           \/ ~ IsDir(p) /\ MountCall(p, Unlink(trees[p.mount], p.path))

\* open(path, O_CREAT | .., mode) of a new file, and close().
CreatePath(s) ==
    LET p == OpenPlace(s)
    IN  /\ OpenHandlePath(s).path # <<>>
        /\ p # NULL
        /\ MountCall(p, Creat(trees[p.mount], p.path))

\* getcwd(buf, size): the length of what it stores, or -1.
Getcwd(size) == IF size <= 0 \/ size < Len(FormulatePath(cwd)) THEN -1
                ELSE Len(FormulatePath(cwd))

\* Mutant: the room for the final zero is forgotten.
WrapGetcwd_NoZero(size) == Getcwd(size) + 1

\* __wrap_getcwd(buf, size): the bytes it stores.  size - 1 is unsigned.
WrapGetcwd(size) == Getcwd((size - 1) % SizeMod) + 1

Next ==
    \/ \E m \in Mounts, k \in MountPaths : AddMount(m, k)
    \/ \E k \in MountPaths : RemoveMount(k)
    \/ ClearMounts
    \/ \E s \in CallPaths :
           \/ Chdir(s) \/ WrapRmdir(s)
           \/ MkdirPath(s) \/ RmdirPath(s) \/ RemovePath(s) \/ CreatePath(s)

Spec == Init /\ [][Next]_vars

-------------------------------------------------------------------------------
\* Mounts are mounted at the strings that were given, and the working
\* directory is always an absolute path.
TypeOK ==
    /\ DOMAIN mount_map \subseteq MountPaths \cup {Slash}
    /\ \A k \in DOMAIN mount_map : mount_map[k] \in Mounts \cup {NULL}
    /\ cwd_mount \in Mounts \cup {NULL}
    /\ cwd.is_absolute /\ \A i \in DOMAIN cwd.path : cwd.path[i] # <<>>
    /\ \A m \in Mounts : trees[m].size <= MaxNodes

(***************************************************************************)
(* chdir() and mkdir() resolve every path lexically from the working       *)
(* directory.  open() refuses just the relative paths of which no name is  *)
(* left, "." and "a/.." among them, and resolves the others lexically too, *)
(* but for one case: of a relative path that climbs above the working      *)
(* directory it loses the leading ".." and looks below the directory.      *)
(***************************************************************************)
ResolvesLexically ==
    \A s \in Strings :
        LET path == (IF IsAbsolute(s) THEN <<>> ELSE cwd.path) \o Runs(s)
            down == Lexical(Runs(s))
        IN  /\ Collapsed(Target(s)).path = Lexical(path)
            /\ OpenRefuses(s) <=> ~ IsAbsolute(s) /\ down = <<>>
            /\ ~ OpenRefuses(s) =>
                   OpenHandlePath(s).path =
                       IF ~ IsAbsolute(s) /\ Climbs(Runs(s))
                       THEN cwd.path \o down ELSE Lexical(path)

(***************************************************************************)
(* What getcwd() returns leads back to the working directory: chdir() to   *)
(* it changes nothing.                                                     *)
(***************************************************************************)
CwdRoundTrip == Collapsed(SetPath(FormulatePath(cwd))) = cwd

(***************************************************************************)
(* getcwd() of a linked program never stores more than the size it was     *)
(* given, for every size but 0, where size - 1 wraps.                      *)
(***************************************************************************)
GetcwdFits == \A size \in 1 .. SizeMod - 1 : WrapGetcwd(size) <= size

\* s is in the form FormulatePath() gives an absolute path.
Canonical(s) == IsAbsolute(s) /\ FormulatePath(SetPath(s)) = s

\* The mount points on the way to a place, and the last of them.
Around(path) == {k \in DOMAIN mount_map : k # <<>> /\ Canonical(k)
                                          /\ IsPrefix(Runs(k), path)}
Innermost(path) == CHOOSE k \in Around(path) :
                       \A l \in Around(path) : Len(Runs(l)) <= Len(Runs(k))

\* A longer key starts the string but is not around the path.
Misled(s) == \E k \in Keys(s) \ Around(Runs(s)) : Len(k) > Len(Innermost(Runs(s)))

(***************************************************************************)
(* GetMount() sends a canonical path to the innermost mount around it and  *)
(* loses no component on the way, PROVIDED no longer key starts its string *)
(* without being around it, as "/m" starts "/mm"; otherwise it answers     *)
(* with the mount of such a neighbour, where the path does not belong.     *)
(***************************************************************************)
RoutesToInnermost ==
    \A s \in Strings : Canonical(s) /\ Around(Runs(s)) # {} =>
        IF Misled(s)
        THEN \E k \in Keys(s) \ Around(Runs(s)) : GetMount(s).mount = mount_map[k]
        ELSE /\ Place(s).mount = mount_map[Innermost(Runs(s))]
             /\ Runs(Innermost(Runs(s))) \o Place(s).path = Runs(s)

(***************************************************************************)
(* No key has a NULL mount, except the empty string, which GetMount()      *)
(* never chooses: a mount that was found can be called, and a removed one  *)
(* does not hide the mount around it.                                      *)
(***************************************************************************)
NoNullMount == \A k \in DOMAIN mount_map : mount_map[k] = NULL => k = <<>>

\* What open() asks GetMount() about: the parent of an absolute path.
Parent(s) == FormulatePath(NewPathHandle(s \o SlashDotDot))

(***************************************************************************)
(* open() looks up the mount of the parent and adds the name again; for a  *)
(* canonical path it still means the file stat() means, PROVIDED no key    *)
(* reaches into the last component: a mount rooted at the path itself, and *)
(* one at "/m" for the path "/mm", are seen by stat() only.  access() asks *)
(* with a doubled slash at the front; it ends at the file of stat(),       *)
(* PROVIDED nothing but "/" is mounted.                                    *)
(***************************************************************************)
CanonicalAgree ==
    \A s \in Strings : Canonical(s) =>
        /\ s # Slash /\ Keys(s) \subseteq Keys(Parent(s))
               => OpenPlace(s) = StatPlace(s)
        /\ DOMAIN mount_map \subseteq {<<>>, Slash}
               => Last(AccessPlaces(s)) = StatPlace(s)
===============================================================================
