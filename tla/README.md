# A TLA+ model of nacl-mounts

nacl-mounts gives Native Client programs a file system. Libc calls are wrapped
by the linker and answered by `KernelProxy` out of *mounts*: a tree in memory
(`MemMount`) or files kept by a Google App Engine server (`AppEngineMount`).
This directory holds TLA+ modules translated from that code, the TLC
configurations that check them, and TLAPS proofs.

## 1. Inventory

| Component | State it keeps | Operations | What makes it correct |
|---|---|---|---|
| `base/SlotAllocator.h` | `slots_` (objects or NULL), `heap_` of freed slots | `Alloc`, `Free`, `At` | a live slot is never handed out again; nothing leaks; it grows only when full |
| `base/MainThreadRunner` | `job_queue_`, `lock_`, per-entry semaphore, a 10 ms timer | `RunJob` (workers); `DoWork`, `StuffResult` (main thread) | every `RunJob` returns, with its own result; the main thread never touches an entry of a returned `RunJob` |
| `AppEngine/AppEngineUrlLoader` | `did_open_`, `dst_` | `Run`, `OnOpen`, `ReadMore`, `OnRead`; `Read/Write/List/Remove` | success means that the whole answer arrived and was positive |
| `memory/MemMount`, `MemNode` (tree) | inodes: name, parent, children, use count | `Creat`, `Mkdir`, `GetNode`, `Unlink`, `Rmdir`, `Ref`, `Unref`, `Getdents` | a tree below slot 0; a file lives exactly as long as a name or a handle |
| `memory/MemMount`, `MemNode` (contents) | `data_`, `capacity_`, `len_` | `Read`, `Write`, `ReallocData` | what was written is read back; all accesses are inside the buffer |
| `base/KernelProxy` | `fds_`, `open_files_` (offset, use count), `cwd_` | `open`, `close`, `read`, `write`, `lseek`, `remove`, `rmdir`, `mkdir`, `stat`, `access`, `chdir`, `getdents` | descriptors stay with one inode until closed; failing calls change nothing |
| `base/PathHandle` | component list, absolute or not | split, append, collapse, formulate | agrees with lexical resolution of `.` and `..` |
| `base/MountManager` | map from path to mount, `cwd_mount_` | `AddMount`, `RemoveMount`, `ClearMounts`, `GetMount`, `GetNode` | the innermost mount around a path answers, for every call alike |
| `AppEngine/AppEngineMount`, `AppEngineNode` | inodes, each with a private copy of its file, and use counts | `Creat`, `GetNode`, `Read`, `Write`, `Fsync`, `Getdents`, `Ref`, `Unref` | an inode holds the answer to its own request and its own writes |
| `AppEngine/naclmounts/simple.py` | stored files | `/read`, `/write`, `/list`, `/remove` | |
| `base/Entry` | none | `__wrap_*` | each call reaches its `KernelProxy` method |

**How they interact.** `Entry` → `KernelProxy` → `MountManager` (which mount)
→ mount. `KernelProxy` and both mounts number what they own with
`SlotAllocator`s. The App Engine mount calls `AppEngineUrlRequest` on a worker
thread, which goes through `MainThreadRunner` to the browser's main thread and
its asynchronous `URLLoader`; the answer comes back through callbacks.

**What is hard.** (a) `RunJob`'s queue entry lives on the worker's stack, and
`DoWork` is driven by three different things (timer, loader callbacks, a nested
call from `StuffResult`) with a non-recursive lock that is held across `Run`.
(b) Inodes and handles are plain numbers: lifetime is decided by use counts and
by slots being reused. (c) The arithmetic of `Read`, `Write` and `lseek` mixes
signed and unsigned values. (d) `KernelProxy` takes no lock, although threads
are its reason to exist. (e) Each call makes its own string of a path, and mounts
are found by string prefix. `PROJECT.json` lists each hazard at its line.

## 2. Modules

| Module | Models | Notes |
|---|---|---|
| `SlotAllocator` | `SlotAllocator<T>` as operators on a value | embedded wherever the code has a `SlotAllocator` member. `heap_` is a multiset; its front is the largest freed slot |
| `SlotPool` | the promise of an allocator | abstract |
| `SlotTable` | one allocator with an arbitrary client | implements `SlotPool` |
| `MainThreadRunner` | `MainThreadRunner`, `AppEnginePost`, `AppEngineUrlRequest` | workers, the main thread, the browser |
| `MemMount` | the inode tree as operators | each call returns the new tree, an inode and an errno |
| `KernelProxy` | path and descriptor calls over the default mount | composes three `SlotAllocator`s and `MemMount` |
| `KernelProxyThreads` | the same calls made by several threads | extends `KernelProxy`; a step is one call of the mount or of an allocator |
| `FileTree` | what those calls promise | abstract |
| `KernelProxyTree` | `KernelProxy` with the refinement mapping to `FileTree` held in two auxiliary variables (`MappedSpec`) | implements `FileTree` |
| `MemFile` | contents of one file: `read`, `write`, `lseek` through several handles | implements `ByteFile` |
| `ByteFile` | what those calls promise | abstract |
| `PathHandle` | `PathHandle` as operators, with a reference resolution | the one module where a path is a string of characters |
| `MountManager` | `MountManager`, the working directory, the paths of every call, two wrappers of `Entry` | composes `PathHandle` and a `MemMount` per mount; `MCMountManager` gives it strings |
| `AppEngineMount` | `AppEngineMount`, `AppEngineNode` and the answers of `simple.py` | several threads |
| `SlotAllocatorProofs` | | lemmas the other proofs cite: about `Alloc`, `Free`, `At`, about loops and about increasing sequences of positions |
| `SlotTableProofs`, `MainThreadRunnerProofs`, `MemFileProofs`, `KernelProxyProofs`, `KernelProxyThreadsProofs`, `AppEngineMountProofs`, `MountManagerProofs` | | theorems about the module each is named for |

`PROJECT.json` maps each definition to its source lines. A definition with a
suffix (`Unref_Early`) whose comment starts with *Mutant* is a plausible bug of
the definition after it; no specification uses it. It serves to show that the
property it is listed with can fail.

### MainThreadRunner

A step is the code between two points where another thread can interfere.
`RunJob` is `Request` (up to the mutex), `RunJobLock`, `RunJobPush`,
`RunJobReturn`. `DoWork` is `DoWorkLock`, then `DoWorkTake` and the job's `Run`
*with the lock held*, or `DoWorkEmpty`, then `DoWorkUnlock`. `StuffResult` is
split where it calls `DoWork`: `StuffResult` and `Post`; since the nested
`DoWork` can finish another job, `stuffing` is the stack of active calls. Entries
are named by their worker because they live on its stack: `EntryInOnePlace`
turns "no dangling pointer" into a statement about where that name occurs.

The constructor calls `DoWork` before `pthread_mutex_init`; `raw_lock` lets the
raw bytes look like a locked mutex, after which the main thread never returns.

`Env` says what the browser does: complete `Open` or `ReadResponseBody` with an
error, or synchronously. A reply is a number of chunks, the first being the
status byte; `Replies` is taken from `simple.py`.

### KernelProxy and MemMount

Paths are sequences of components of an absolute, collapsed path, which is what
`PathHandle` hands on. `CRASH` is a method call through the NULL that `At`
returned. Facts of the code that the model keeps:

* `flags && O_CREAT` and `flags && O_EXCL` are true for all nonzero flags, so any
  open but a plain `O_RDONLY` creates, and fails with `EEXIST` on an existing file.
* `Unref` does not count directories down, and nothing reads a directory's count;
  `MaxDirUse` lets it saturate.
* `Rmdir` looks neither at open handles nor, for the free itself, at slot 0.
* `open("/")` asks for the last component of an empty list: undefined, modelled
  as the end of the program (`status` is `no_name`) or an arbitrary name.

`Unguarded` lists what the code does not defend against: `open_root`,
`remove_root`, `rmdir_open` (removing a directory that is open) and, for threads,
`close_race` (closing a descriptor that another thread is using). `kernel_tree` has
`open_root`; its properties fail with the next two (`NoCrash` fails with `remove_root`),
but for `TypeOK` and `FdsMatchHandles`, which section 4 proves for every `Unguarded`.

### KernelProxyThreads

No call of `KernelProxy` takes a lock ("Here is the possibility for data race. Fix
it", at `OpenHandle`). A step is one call of the mount, or one call of `fds_` or
`open_files_` with the accesses through the pointer it returned, up to the next such
call; between two of them other threads run. `call` holds where a thread is and its
local variables:

* `open`: `OpenFind` (`Creat` or `GetNode`), `OpenRef` (`Ref` of whatever has the
  number by then), `OpenAllocHandle`, `OpenAllocFd`, `OpenFill` (the stores through the
  two pointers). Until the last one the handle and the descriptor are visible with
  uninitialised fields, `UNSET`.
* `close`: `CloseFind`, `CloseFreeFd`, `CloseDrop` (`use_count--`), `CloseFreeHandle`,
  `CloseUnref`.
* `remove` and `rmdir`: `RemoveFind` or `RmdirFind` (`GetNode`), then `RemoveDir` or
  `RemoveFile`; `getdents`: `GetdentsFind`, `GetdentsHandle`, `GetdentsCall`. `mkdir`,
  `stat` and the like are one call (`OneCall`).

A descriptor is given to the program when `open` returns it, so no call uses one
before that (`HalfOpen`). The ghost `early` becomes true when a step frees an inode
that something still refers to: the root, a directory with a handle on it, an inode
between the two halves of an `open`. All three happen in the runs. Without
`close_race`, `IntactUnlessFreedEarly` says that they are the only ways in which
the tree or a use count goes wrong, and `TablesMatch` that the descriptor tables survive even
those. With `close_race` neither holds: `kernel_close_race` shows two `close`s that
count one handle down twice.

### MemFile

`data` has `capacity` bytes, `GARBAGE` where nothing was stored. `Read`'s
limit is computed modulo `SizeMod`, as an unsigned subtraction of equally wide
types (`size_t` and `off_t` of the hosts the tests are built for). Where `off_t`
is wider than `size_t` the limit is negative, is converted to a very large count
and `memcpy` runs off the buffer; that case is not modelled. `SEEK_END` is
`len - off`, as in the code. `PastEnd` says whether programs seek past the end.
`Truncate` has no caller, and the destructor, which does not free `data_`, has no
effect on any call.

### PathHandle and MountManager

Which mount answers depends on characters (a name that starts like another, a
doubled slash), so here strings are sequences of characters, taken from `Chars`. The
loops of the code are recursive functions over positions. `Runs` and `Lexical`
say without loops what `Split` and `PathCollapse` are to compute. `Target`,
`OpenHandlePath` and the operators ending in `Place` give, for each call, the
mount and the components at which it looks for a string; the actions and the
properties use the same operators. Facts of the code that the model keeps:

* `stat`, `rmdir`, `chmod` and `remove` hand the string to the mount manager as it
  is, so relative paths fail there; `chdir` and `mkdir` resolve it against the
  working directory first; `open` looks up the mount of the *parent*; `access`
  asks for `/`, `//a`, `//a/b`, ...
* `open` collapses a relative path before it puts the working directory in front:
  `../x` opens `x` in the working directory, and a relative path of which no name is
  left (`.`, `a/..`) is refused with `EINVAL`. `ResolvesLexically` says so: it has
  the place of every string for `chdir`, `mkdir` and `open`. It says nothing of
  `access`, which asks about every prefix of the path before it is collapsed and
  fails on `/gone/../x`.
* `GetMount` compares characters: with a mount at `/m` the path `/mm` is looked for in
  it, as `m`. `Misled(s)` is that case: `RoutesToInnermost` says that a path goes to the
  innermost mount outside it, and to such a neighbour's in it. `CanonicalAgree` compares
  `open`, which asks about the parent, with `stat`; it excludes the paths of which a key
  reaches into the last name (`/m` and `/mm` with a mount at `/m`), and compares `access`
  only while nothing but `/` is mounted.
* `cwd_mount_` is the default mount until that one is removed, then NULL; nothing else
  reads it, and `chdir` does not set it, so no property is about it.
* `AddMount("")` leaves an entry without a mount, which `GetMount` never chooses.
* `chdir` fails when the directory it leaves has no mount.
* `__wrap_rmdir` calls `chdir` (`WrapRmdir`), and `__wrap_getcwd` passes
  `size - 1`, unsigned: `GetcwdFits` holds for every size but 0.
* `RemoveMount` and `ClearMounts` do not call destructors, whatever their comments
  say: a removed mount keeps its tree and can be added again.

Descriptors and the removal of a mount's root are left to `KernelProxy`: here files
are closed as soon as they are made and roots stay.

### AppEngineMount

`GetNode` is `Creat`: every lookup of a path makes a new inode and reads the whole
file from the server. `CreatStart` goes up to that remote read, `CreatDone` is what
follows it; in between other threads run. A request whose open fails is never
answered (see `runner_open_fails`), which is a `CreatDone` that does not happen.
The result of the read is ignored and the status byte stays in front of the data,
so `Replies` are the raw bytes, cut short where a transfer broke off. `patches`
is the history `DataIsOwn` compares an inode with. `DecrementUseCount` is
`++use_count_`, so no inode is ever freed (`InodeIsForever`), and since data is
resized before the test, `len_` stays 0: `stat` reports 0 and `O_APPEND` and
`SEEK_END` start at the front (`TypeOK` has it). A `write` of no bytes past the end
still makes the data longer. Reads are limited as in `MemFile`: `ReadWithinData`
is about offsets inside the data; past them the limit wraps. `Fsync` sends the data, but
`/write` returns before it stores anything. `Getdents` counts entries and throws on
an empty listing; `Creat` of the root asks for the last name of an empty list.

## 3. Runs

| Run | Expectation | Shows |
|---|---|---|
| `slot_table` | pass | any order of `Alloc` and (repeated) `Free` keeps `heap_` exactly the free list, grows only when full, implements `SlotPool` |
| `runner_safety` | pass | with every `Env`: exactly one driver of `DoWork` (none once an open failed); every waiting entry in exactly one place, no entry of a returned `RunJob` anywhere |
| `runner_live` | pass | without failures: each `RunJob` returns, with the server's whole answer to this request, and `DoWork` never waits for a lock held further down its own stack |
| `runner_open_fails` | violation of `RunJobReturns` | `OnOpen` drops a failed open: its caller waits for ever, and so does everybody after it, since nothing is left that calls `DoWork` |
| `kernel_tree` | pass | programs that leave the root and open directories in place see `FileTree`: descriptors and handles are one to one; inode numbers are not reused while a name or a descriptor has them; counts, links and parents agree; no NULL is followed |
| `kernel_threads` | pass | two threads interleaved at every call of the mount and of an allocator, none closing what the other uses: every handle has one owner and every returned descriptor a filled handle, whatever is removed under them; the tree and the counts are intact until an inode is freed under its user |
| `kernel_close_race` | violation of `ChildUnlessFreedEarly` | two threads closing one descriptor both find its handle and both `Unref`: the file is freed while its directory lists it |
| `kernel_rmdir_open` | violation of `NoDanglingChild` | after `rmdir` of an open directory its slot goes to a new file, which closing the old descriptor frees while the directory lists it |
| `file_contents` | pass | without seeks past the end: `ByteFile` is implemented, nothing is written outside `data_`, no uninitialised byte is in the file |
| `file_gap` | violation of `NoGarbageInFile` | the `memset` for the gap starts behind the buffer |
| `mounts` | pass | while two mounts are added and removed at will: `chdir` and `mkdir` resolve lexically from the working directory, and `open` does but for the `..` it loses; what `getcwd` returns leads back; a canonical path goes to the innermost mount, or to a neighbour whose longer key starts its string, and `open` agrees with `stat` unless a key reaches into the last name |
| `appengine` | pass | two threads whose opens, writes and closes overlap: every inode holds the answer to its own request under its own writes; reads from inside the data stay inside; inode numbers are never reused |

The violations are the disagreements between the code and its own comments or
tests that `PROJECT.json` quotes under `findings`. What the passing runs exclude or
describe beyond that:

* `OnRead` reports 1 for an error too, so `Read` returns 0 with part of a file
  (`runner_live` with `read_error` in `Env` violates `AnswerIsServers`).
* "Can't delete root" (`MemMount.cc:212`) holds for `Unlink` only: `rmdir("/")` of the
  empty root frees slot 0 (`kernel_tree` with `remove_root` in `Unguarded` violates
  `NoCrash`).
* "Limit to the end of the file" (`MemMount.cc:323`, `AppEngineMount.cc:146`) wraps
  after a seek past the end (`file_contents` with `PastEnd` violates `ReadWithinFile`).
* "sys calls are determined by the implementation in mount m" (`MountManager.h:36`) does
  not hold for `/mm` beside a mount at `/m`, nor for `stat("/m/../x")`, which asks the
  mount at `/m`, nor for `access("/m")`, which asks the one at `/`.

**Bounds.** Slots: 4, enough for two freed slots on the heap beside live ones.
Runner: 2 workers with all four calls and replies of up to 2 chunks (status byte
and data): queueing behind each other, nesting in `StuffResult` and the
two-result protocol of `did_open_` all occur, and a third worker only lengthens
the queue. `DriverTheorem`, `EntryTheorem` and `AnswerTheorem` cover any number. Tree: 2 names, depth 2, 4 inodes,
2 descriptors: a directory with a file in it beside another entry, slot reuse with
two handles on the same or on different inodes; names are symmetric.
`kernel_threads`: 2 threads, 3 inodes, 2 descriptors including those being made:
enough for an open that is overtaken by a remove and a creation that takes its slot,
for two opens whose handles and descriptors get different numbers, and for two closes
of one descriptor; `ThreadsTablesTheorem` and `IntactTheorem` cover any number. Mounts: 2
mounts with an inode below the root each, at `""`, `/`, `/m` and `/mm`, so that a
mount lies inside another and beside one whose name starts alike; the properties
range over all strings of up to 4 of the characters `/`, `.` and `m` and some longer
ones. App Engine: 2 inodes beside slot 0, files of up to 1 byte, 2 writes of 0 to 2
bytes at offsets up to 3: both arms of the growth rule, overlapping writes, gaps;
listings of up to 2 names of up to 2 characters, the empty listing among them. Contents: 2 handles, bytes {0, 1}, writes of up to 3
bytes to a file of up to 4: with capacities 2, 3, 6 and 8 both arms of the growth
rule and a write that needs none occur.

**Deadlock** is checked except where the program may stop: `runner_safety` and
`runner_open_fails` (a main thread stuck on the raw or on its own lock, everybody
waiting after a failed open), the `kernel_*` runs and
`appengine` (a crash, or `open("/")`, ends the behaviour).

**Fairness** (`runner_live`, `runner_open_fails`): weak fairness of the main
thread, because the browser keeps running its event loop and completes what it
was asked for; weak fairness of a worker that is to push or to return, because
threads are scheduled; strong fairness of a worker's `pthread_mutex_lock`,
because the main thread takes and releases the lock every 10 ms and weak
fairness would allow it to win for ever, which no scheduler does with a lock held
for microseconds. Nobody has to make a request. `runner_live` excludes synchronous `Open`:
together with a synchronous read the job finishes inside its own `Run`, and the
nested `DoWork` waits for the lock its own thread holds. PPAPI completes network
opens asynchronously, but nothing in the code relies on it knowingly.

## 4. Proofs

All of these hold for every value of the constants; nothing but the named
assumptions of the modules is assumed. Those that need care are about `NULL`: it is
no slot number and the address of no object (`NullAssumption` of `KernelProxy` and
`AppEngineMount`), which C++ guarantees and TLC evaluates with a model value.
Where a theorem has a hypothesis of its own it is one of the constants that
separate the runs: `~PastEnd`, a call missing from `Unguarded`, or a completion
missing from `Env`.

| Property | Theorem | Hypothesis |
|---|---|---|
| `SlotTable`: `TypeOK`, `HeapIsFreeList`, `GrowsOnlyWhenFull`, `ImplementsPool` | `TypeTheorem`, `Invariance`, `Growth`, `Refinement` | |
| `MainThreadRunner`: `TypeOK`, `OneDriver`, `EntryInOnePlace` | `TypeTheorem`, `DriverTheorem`, `EntryTheorem` | |
| `MainThreadRunner`: `NoSelfDeadlock` | `LockTheorem` | not both `sync_open` and `sync_read` in `Env` |
| `MainThreadRunner`: `AnswerIsServers` | `AnswerTheorem` | `read_error` not in `Env` |
| `MemFile`: `TypeOK`, `LenWithinCapacity` | `TypeTheorem`, `LengthTheorem` | |
| `MemFile`: `NoOverrun`, `NoGarbageInFile`, `ReadWithinFile`, `ImplementsFile` | `OverrunTheorem`, `GarbageTheorem`, `ReadTheorem`, `FileTheorem` | `~PastEnd` |
| `KernelProxy`: `TypeOK`, `FdsMatchHandles` | `TypeTheorem`, `FdsTheorem` | |
| `KernelProxy`: `NoDanglingChild`, `TreeWellFormed`, `UseCountMatches`, `NoCrash` | `ChildTheorem`, `TreeTheorem`, `CountTheorem`, `CrashTheorem` | neither `remove_root` nor `rmdir_open` in `Unguarded` |
| `KernelProxyTree`: `ImplementsTree` | `TreeRefinement` | neither `remove_root` nor `rmdir_open` in `Unguarded`; `MaxDepth > 0` if `open_root` is |
| `KernelProxyThreads`: `TablesMatch`, `IntactUnlessFreedEarly` | `ThreadsTablesTheorem`, `IntactTheorem` | `close_race` not in `Unguarded` |
| `AppEngineMount`: `TypeOK`, `InodeIsForever`, `DataIsOwn`, `ReadWithinData`, `CountsEntries` | `TypeTheorem`, `ForeverTheorem`, `DataTheorem`, `ReadTheorem`, `CountTheorem` | |
| `MountManager`: `TypeOK`, `NoNullMount` | `TypeTheorem`, `NullTheorem` | |
| `MountManager`: `ResolvesLexically`, `CwdRoundTrip`, `GetcwdFits` | `ResolvesTheorem`, `RoundTripTheorem`, `GetcwdTheorem` | |
| `MountManager`: `RoutesToInnermost`, `CanonicalAgree` | `RoutesTheorem`, `AgreeTheorem` | |

The hypotheses on the program are needed: without each of them a run or a constant
named in section 3 violates the property. `MaxDepth > 0` belongs to the bound: the name
that `open("/")` makes up must be within it, or the bounded set of paths lacks the entry.

**The allocator** (`SlotAllocatorProofs`). `WellFormed(a)`: the three fields agree,
and a slot is on the heap once if it is empty and not at all if it is taken.
`AllocFacts`, `FreeFacts` and `UpdateFacts` say what an operation does to a
well-formed allocator in terms of `At` and `Live`; no other proof looks inside one.
`LeastExists`, from the well-foundedness of `<`, is the form in which the proofs use
induction: a property of all numbers is proved by looking at the least number that
lacks it. `MaxExists` gives a nonempty heap its front. `LoopExists` turns a loop (a
function of the rounds, each computed from the one before) into a function that
exists; `CardRising` counts the members of an increasing sequence of positions.

**`SlotTable`.** `TypeOK /\ HeapIsFreeList` is inductive. `HeapIsFreeList` alone is
not: without the types a step could leave an index that one of the vectors lacks.
`Growth` follows from it: if no slot is on the heap, none is NULL. `Refinement`: the
slot `Alloc` picks is new or on the heap, hence not live, as `SlotPool!Alloc` asks.

**`MainThreadRunner`.** `DriverInv` adds to `OneDriver` that nothing is scheduled
before the constructor ends; every step of the main thread hands the role of the
driver on (timer → code → timer, or code → callback → code). `TypeInv` adds to
`TypeOK` that `Run`, `ReadMore` and `Post` have a job. `PlaceInv` is the invariant
behind `EntryInOnePlace`: queue and stack have no repetitions, and the entry of a
waiting worker is in exactly one of queue, stack, callback, running code, posted
semaphore and lost, that of any other worker in none. It needs `DriverInv`: only
because there is one driver can no second callback hold the entry. `LockInv`: who is
outside `DoWork` does not hold `lock_`. `AnswerInv`: a job under way has a reply of
its own kind, and a finished one has all of it.

**`MemFile`.** `SizeInv` adds the types of data, offsets and `capacity`. The
theorems under `~PastEnd` rest on `WithinFile`: offsets never pass `len_`, so no
write leaves a gap and the unsigned limit of `Read` does not wrap. That a file does
not shrink keeps the offsets of the *other* handles inside. `FileTheorem` maps the
first `len_` bytes of `data_` to the bytes of `ByteFile`; each call is a step there or
changes nothing, the copy in `ReallocData` included.

**`KernelProxy`.** The proof has four layers.

1. *The walk.* `GetSlot` is a recursive function over the path. `WalkExists` and
   `WalksAgree` (induction with `LeastExists`) show that it is defined and unique,
   `GetSlotIsWalk` that it ends where its last round does. `Without`, the
   `std::list::remove` of `RemoveChild`, is treated alike: `WithoutFacts` says that
   exactly the entries of the slot go and the order of the others stays.
2. *Trees.* `Typed(a)` and `Tree(a)` speak of one value of `slots_`. `Tree` is
   `NoDanglingChild` and `TreeWellFormed` said from the directories' side, plus that
   files have no children, without which freeing a file could leave entries behind.
   In a tree `GetSlot` ends at a live inode or `NOT_FOUND`, never at a NULL
   (`GetSlotInTree`). `RecountsTree`, `AddsTree`, `DropsForest` and `FreesTree` cover
   the four things a call does to `slots_`. Between dropping the entry of a
   directory and freeing it there is no tree; `Forest` is what there is.
3. *Handles.* `FdsOK`: `fds_` and `open_files_` are live at the same slots and a
   descriptor has the number of its handle. It is stronger than `FdsMatchHandles`,
   which is not inductive: that `Alloc` picks equal slots in both tables depends on
   both being live at the same places (`AllocSame`).
4. *Counts.* `Whole(a, u)` adds `Held` (whoever counted themselves on an inode, `u`, are on
   live ones) and `Counted` (the use count of a file is its entry and those).
   `UnrefWhole` serves both `close` and `Unlink`: a file that has just lost a user is
   counted down, or freed when it was the last, and then nothing refers to it.

`Basic` (types and `FdsOK`) is kept by all calls. `Whole` is kept by a call that
frees neither the root nor a directory with a handle on it (`CallWhole`), and by
`open("/")` whether it stops or opens some name (`OpenRootWhole`); a program that
makes no call of the other two kinds is `Guarded`.

**`KernelProxyTree`.** `Mapped` is `Basic`, `Whole` and the values of the two auxiliary
variables. In a tree two paths never lead to one inode (`PathUnique`): an inode other
than the root has one parent and one name, so the shortest pair of such paths would
have a shorter one. `Lockstep` compares
the walks of one path before and after a call round by round. They part only at an
inode that the call changed, which only one path leads to; a call therefore adds a
path (`MakesMaps`), drops one that nothing lies below (`CutsMaps`), or leaves all of
them as they were (`TreeOfSame`). `SlotFresh` is the condition of `FileTree` on new
inodes: the slot `Alloc` picks is not live, and whatever a path or a descriptor has is.

**`KernelProxyThreads`.** The lemmas about counts take a function `u` that gives
each user of an inode (what counted itself on it with `Ref`) that inode: for the
sequential `KernelProxy` the users are its handles (`Users`), here the handles in use and the
calls that are past `Ref` or have yet to `Unref` (`AllUsers`). `TInv` has two parts. `TBasic`, kept by every
step, holds the types and `Tables`, from which `TablesMatch` follows: each handle has
one owner, and calls under way and descriptors refer to handles that exist. `Intact`,
until `early`, is `Whole` with `AllUsers`, and that the inode number between the
two halves of an `open` is live. A step that leaves `early` false freed no such number
and no directory in use, so the lemmas apply; a count moves from a call to a handle in
`OpenFill` and back in `CloseDrop`, which keeps the number of users of each inode (`SwapWhole`). `NoRace` (no
`close_race`) is needed in `Tables` already: with it two calls own one handle.

**`AppEngineMount`.** `Inv`: every slot of the vector holds an inode (nothing is
freed), handles and waiting threads refer to slots other than 0. `DataInv` states
`DataIsOwn` for one inode as `Own(stores, data)`, for all slots, those not allocated
yet included (they have no stores), and bounds the data so that no size wraps.

`CountTheorem`: a listing is its lines, each with a newline behind it and none inside
(`IsText`), so the newlines `Getdents` splits at are as many as the lines
(`TextNewlines`).

**`MountManager`.** `MapOK`: entries are mounts, or NULL for the empty string only.
`PlacesOK`: keys are strings given to `AddMount`, and the working directory is
`Abs(P)`, an absolute handle whose components `P` are names (neither `.` nor `..`).
These two are the inductive invariants; the rest is about what loops over strings
compute, for every string.

1. *Spelling and splitting.* `Spells(s, P, b, e)` says at which positions of `s` the
   components `P` begin and end. `RawSpells` shows that `FormulateRawPath` makes such a
   string, `SplitSpelled` that `Split` of such a string is `P`; `StrFacts` puts them
   together, and `RoundTripTheorem` is its use on `cwd`. The length of the string gives
   `GetcwdTheorem`.
2. *Splitting any string.* `SplitIsRuns`: the loop started at a position that no run
   straddles lists the runs that start there or later (`FitsStep`, one round).
3. *Collapsing.* `CollapseIsLexical`: after `n` rounds the stack holds the names not
   lost among the first `n` components, in order. That is not inductive, because a
   `..` also has to remove the right one: `Keeps` adds that, for each name on the
   stack, the surplus of names over `..` behind it is the number of names that stand
   above it. `CollapseBehind`: a path that does not climb never takes away the names put
   in front of it, so collapsing it first, as `open` does, makes no difference.
   `ResolvesTheorem` combines these with `RelString` (the spelling of a relative
   handle) and `SplitSlashed` (splitting a string glued together with slashes), and
   `OpenRefusal` says which strings `open` refuses.
4. *Routing.* The keys around a canonical path are prefixes of its string
   (`AroundAreKeys`), and of two of them the longer string is that of the longer path
   (`LeadsCompare`), so the longest is the innermost (`InnermostIs`). A key
   that is a prefix without being around the path, as `/m` is of `/mm`, does no harm if
   it is shorter (`BestIsInnermost`), and answers if it is longer, which is `RoutesTheorem`.
5. *Agreement.* `ParentKeys`: what the parent's string starts with, the path's string
   does too. If the converse holds, which is the hypothesis of `AgreeTheorem`, `open`,
   which asks for the parent and adds the name, finds the same mount as `stat`, and what
   is left over differs by the name (`RestsAgree`). With nothing mounted but `/`,
   `access`, which asks for `//a/b`, ends where `stat` does.

**Checked by TLC only.** `RunJobReturns`, which is liveness. Every invariant, action
property and refinement of a passing run is proved.

## 5. What is not modelled

Not modelled: `Mount.h` (an interface), the wrappers of `Entry` that only pass a call
on, `link`, `symlink`, `ioctl`, `chmod` and `utime` (they set errno), `getwd`, which is
`getcwd` with a fixed size, the demo and its page, tests and build files, the text of
requests, permissions and times, printing, and the data race of
two threads inside one method of the mount or one `SlotAllocator`, or of one that frees
what another's pointer leads to: `KernelProxyThreads` interleaves whole calls of these. The default mount and `AppEngineMount` are not put under one
`MountManager`: the routing does not depend on what a mount does with a path.

Nothing that the runs check remains to be proved but `RunJobReturns`: liveness under
fairness is out of the prover's reach.
