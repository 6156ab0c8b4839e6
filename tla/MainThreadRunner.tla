--------------------------- MODULE MainThreadRunner ---------------------------
(***************************************************************************)
(* base/MainThreadRunner.cc with its only job, AppEnginePost, and its only *)
(* client, AppEngineUrlRequest (AppEngine/AppEngineUrlLoader.cc).          *)
(*                                                                         *)
(* PPAPI allows URL requests on the main thread only.  A worker thread in  *)
(* RunJob() puts an entry that lives on ITS OWN STACK on job_queue_ and    *)
(* waits on the entry's semaphore.  The main thread takes entries in       *)
(* DoWork(), which keeps itself going: through a 10 ms timer while the     *)
(* queue is empty, otherwise through the completion of the job it started. *)
(*                                                                         *)
(* A step is a piece of code between two points where another thread can   *)
(* interfere (a lock, a semaphore, a return to the event loop).  Printing  *)
(* and the contents of requests are left out; a response is a number of    *)
(* chunks, the first of which is the status byte.                          *)
(***************************************************************************)
EXTENDS Integers, Sequences

CONSTANTS Workers,     \* the threads that call AppEngineUrlRequest
          Ops,         \* the calls they make: "read", "write", "list", "remove"
          MaxChunks,   \* bound on the chunks of one response
          Env          \* what the browser may do, see Hazard

\* open_error  URLLoader::Open completes with a negative result
\* read_error  URLLoader::ReadResponseBody completes with a negative result
\* sync_open   Open returns its result instead of PP_OK_COMPLETIONPENDING
\* sync_read   ReadResponseBody does
\* raw_lock    lock_, locked before pthread_mutex_init, looks locked
Hazard == {"open_error", "read_error", "sync_open", "sync_read", "raw_lock"}

ASSUME RunnerAssumption ==
    /\ {"free", "main", "garbage", "none"} \cap Workers = {}
    /\ Ops \subseteq {"read", "write", "list", "remove"}
    /\ MaxChunks \in Nat \ {0}
    /\ Env \subseteq Hazard

VARIABLES
    lock,        \* lock_: "free", "main", the worker that holds it, "garbage"
    job_queue,   \* job_queue_: entries, named by the worker they belong to
    wpc,         \* where each worker is in RunJob()
    request,     \* the AppEngineUrlRequest call each worker makes
    reply,       \* what the server answers to it
    sem,         \* e.done
    result,      \* e.result
    did_open,    \* AppEnginePost::did_open_
    got,         \* chunks appended to AppEnginePost::dst_
    ret,         \* what the worker's last call returned
    mpc,         \* where the main thread is; "loop" is the event loop
    cur,         \* the entry whose AppEnginePost the main thread runs
    stuffing,    \* the entries of the active StuffResult() calls, inner first
    timer,       \* pending CallOnMainThread(10, DoWorkShim)
    io,          \* pending loader callbacks: <<entry, "open" or "read">>
    lost         \* entries whose AppEnginePost gave up without StuffResult()

workerVars == <<wpc, request, reply, ret>>
jobVars == <<did_open, got, result>>
vars == <<lock, job_queue, wpc, request, reply, sem, result, did_open, got,
          ret, mpc, cur, stuffing, timer, io, lost>>

\* External (naclmounts/simple.py): /read answers '1' and the data or '0',
\* /write always '1', /remove '1' or '0', /list just names.
Replies(op) ==
    CASE op = "read"   -> [ok : {TRUE}, len : 1 .. MaxChunks]
                            \cup [ok : {FALSE}, len : {1}]
      [] op = "write"  -> [ok : {TRUE}, len : {1}]
      [] op = "list"   -> [ok : {TRUE}, len : 0 .. MaxChunks]
      [] op = "remove" -> [ok : BOOLEAN, len : {1}]

\* What Read(), Write(), List() and Remove() return when RunJob() returned
\* raw and n chunks of the reply r are in dst.
Outcome(op, raw, n, r) ==
    IF raw = 0 THEN -1
    ELSE CASE op = "read" -> IF n >= 1 /\ r.ok THEN 0 ELSE -1
           [] op = "list" -> 0
           [] OTHER       -> IF n = 1 /\ r.ok THEN 0 ELSE -1

\* The runner is being constructed; no worker knows it yet.
Init ==
    /\ lock \in {"free"} \cup (IF "raw_lock" \in Env THEN {"garbage"} ELSE {})
    /\ job_queue = <<>>
    /\ wpc = [w \in Workers |-> "idle"]
    /\ request = [w \in Workers |-> "none"]
    /\ reply = [w \in Workers |-> [ok |-> TRUE, len |-> 0]]
    /\ sem = [w \in Workers |-> 0]
    /\ result = [w \in Workers |-> 0]
    /\ did_open = [w \in Workers |-> FALSE]
    /\ got = [w \in Workers |-> 0]
    /\ ret = [w \in Workers |-> 0]
    /\ mpc = "ctor"
    /\ cur = "none"
    /\ stuffing = <<>>
    /\ timer = 0
    /\ io = {}
    /\ lost = {}

-------------------------------------------------------------------------------
(* Worker threads.                                                         *)

\* Read(), Write(), List() or Remove() up to pthread_mutex_lock in RunJob():
\* a new AppEnginePost with did_open_ false, an empty dst, sem_init(.., 0).
Request(w, op, r) ==
    /\ mpc # "ctor"
    /\ wpc[w] = "idle"
    /\ wpc' = [wpc EXCEPT ![w] = "lock"]
    /\ request' = [request EXCEPT ![w] = op]
    /\ reply' = [reply EXCEPT ![w] = r]
    /\ sem' = [sem EXCEPT ![w] = 0]
    /\ did_open' = [did_open EXCEPT ![w] = FALSE]
    /\ got' = [got EXCEPT ![w] = 0]
    /\ UNCHANGED <<lock, job_queue, result, ret, mpc, cur, stuffing, timer,
                   io, lost>>

RunJobLock(w) ==
    /\ wpc[w] = "lock"
    /\ lock = "free"
    /\ lock' = w
    /\ wpc' = [wpc EXCEPT ![w] = "push"]
    /\ UNCHANGED <<job_queue, request, reply, sem, ret, jobVars, mpc, cur,
                   stuffing, timer, io, lost>>

\* push_back(&e) and pthread_mutex_unlock.
RunJobPush(w) ==
    /\ wpc[w] = "push"
    /\ job_queue' = Append(job_queue, w)
    /\ lock' = "free"
    /\ wpc' = [wpc EXCEPT ![w] = "wait"]
    /\ UNCHANGED <<request, reply, sem, ret, jobVars, mpc, cur, stuffing,
                   timer, io, lost>>

\* sem_wait returns; RunJob() and the caller return, and the entry is gone.
RunJobReturn(w) ==
    /\ wpc[w] = "wait"
    /\ sem[w] = 1
    /\ sem' = [sem EXCEPT ![w] = 0]
    /\ wpc' = [wpc EXCEPT ![w] = "idle"]
    /\ ret' = [ret EXCEPT ![w] = Outcome(request[w], result[w], got[w], reply[w])]
    /\ UNCHANGED <<lock, job_queue, request, reply, jobVars, mpc, cur,
                   stuffing, timer, io, lost>>

WorkerStep(w) ==
    \/ \E op \in Ops : \E r \in Replies(op) : Request(w, op, r)
    \/ RunJobLock(w)
    \/ RunJobPush(w)
    \/ RunJobReturn(w)

-------------------------------------------------------------------------------
(* The main thread.                                                        *)

\* The constructor: DoWork() on the uninitialised lock_ and an empty queue,
\* then pthread_mutex_init.
Construct ==
    /\ mpc = "ctor"
    /\ lock = "free"
    /\ timer' = timer + 1
    /\ mpc' = "loop"
    /\ UNCHANGED <<lock, job_queue, workerVars, sem, jobVars, cur, stuffing,
                   io, lost>>

\* The 10 ms callback runs DoWorkShim(), that is DoWork().
TimerFires ==
    /\ mpc = "loop"
    /\ timer > 0
    /\ timer' = timer - 1
    /\ mpc' = "lock"
    /\ UNCHANGED <<lock, job_queue, workerVars, sem, jobVars, cur, stuffing,
                   io, lost>>

\* pthread_mutex_lock in DoWork().  lock_ is not recursive.
DoWorkLock ==
    /\ mpc = "lock"
    /\ lock = "free"
    /\ lock' = "main"
    /\ mpc' = "locked"
    /\ UNCHANGED <<job_queue, workerVars, sem, jobVars, cur, stuffing, timer,
                   io, lost>>

\* Mutant: the timer is set although a job was taken.
DoWorkTake_Reschedule ==
    /\ mpc = "locked"
    /\ job_queue # <<>>
    /\ cur' = Head(job_queue)
    /\ job_queue' = Tail(job_queue)
    /\ timer' = timer + 1
    /\ mpc' = "run"
    /\ UNCHANGED <<lock, workerVars, sem, jobVars, stuffing, io, lost>>

\* DoWork() finds a job ...
DoWorkTake ==
    /\ mpc = "locked"
    /\ job_queue # <<>>
    /\ cur' = Head(job_queue)
    /\ job_queue' = Tail(job_queue)
    /\ mpc' = "run"
    /\ UNCHANGED <<lock, workerVars, sem, jobVars, stuffing, timer, io, lost>>

\* ... or none, and asks to be called again.
DoWorkEmpty ==
    /\ mpc = "locked"
    /\ job_queue = <<>>
    /\ timer' = timer + 1
    /\ mpc' = "unlock"
    /\ UNCHANGED <<lock, job_queue, workerVars, sem, jobVars, cur, stuffing,
                   io, lost>>

\* Mutant: the lock is kept on the way out of DoWork().
DoWorkUnlock_Kept ==
    /\ mpc = "unlock"
    /\ mpc' = IF stuffing = <<>> THEN "loop" ELSE "post"
    /\ UNCHANGED <<lock, job_queue, workerVars, sem, jobVars, cur, stuffing,
                   timer, io, lost>>

\* The end of DoWork(), which returns to the event loop or to StuffResult().
DoWorkUnlock ==
    /\ mpc = "unlock"
    /\ lock' = "free"
    /\ mpc' = IF stuffing = <<>> THEN "loop" ELSE "post"
    /\ UNCHANGED <<job_queue, workerVars, sem, jobVars, cur, stuffing, timer,
                   io, lost>>

\* Where a loader callback or AppEnginePost::Run() returns to: DoWork(), which
\* called it with lock_ held, or the event loop.
CallerPc == IF lock = "main" THEN "unlock" ELSE "loop"

\* Mutant: the semaphore is posted before DoWorkShim(e->runner).
StuffResult_PostFirst(w, n) ==
    /\ result' = [result EXCEPT ![w] = n]
    /\ sem' = [sem EXCEPT ![w] = 1]
    /\ stuffing' = <<w>> \o stuffing
    /\ mpc' = "lock"

\* StuffResult(e, n) up to the nested DoWork().
StuffResult(w, n) ==
    /\ result' = [result EXCEPT ![w] = n]
    /\ sem' = sem
    /\ stuffing' = <<w>> \o stuffing
    /\ mpc' = "lock"

\* Mutant: nobody is woken.
Post_NoPost ==
    /\ mpc = "post"
    /\ stuffing' = Tail(stuffing)
    /\ mpc' = CallerPc
    /\ UNCHANGED <<lock, job_queue, workerVars, sem, jobVars, cur, timer, io,
                   lost>>

\* The rest of StuffResult(): sem_post, and back to the event loop.
Post ==
    /\ mpc = "post"
    /\ sem' = [sem EXCEPT ![Head(stuffing)] = 1]
    /\ stuffing' = Tail(stuffing)
    /\ mpc' = CallerPc
    /\ UNCHANGED <<lock, job_queue, workerVars, jobVars, cur, timer, io, lost>>

\* OnOpen(result): read the body, or do nothing at all.
OnOpen(w, ok) ==
    /\ IF ok THEN mpc' = "readmore" /\ lost' = lost
             ELSE mpc' = CallerPc /\ lost' = lost \cup {w}
    /\ cur' = w
    /\ UNCHANGED <<lock, job_queue, workerVars, sem, jobVars, stuffing, timer>>

OpenResults == {TRUE} \cup (IF "open_error" \in Env THEN {FALSE} ELSE {})

\* AppEnginePost::Run(): Open is pending, or its result is used at once.
RunPending ==
    /\ mpc = "run"
    /\ io' = io \cup {<<cur, "open">>}
    /\ mpc' = CallerPc
    /\ UNCHANGED <<lock, job_queue, workerVars, sem, jobVars, cur, stuffing,
                   timer, lost>>

RunSync ==
    /\ mpc = "run"
    /\ "sync_open" \in Env
    /\ \E ok \in OpenResults : OnOpen(cur, ok)
    /\ UNCHANGED io

\* The event loop runs the completion callback of Open.
OpenDone(w) ==
    /\ mpc = "loop"
    /\ <<w, "open">> \in io
    /\ io' = io \ {<<w, "open">>}
    /\ \E ok \in OpenResults : OnOpen(w, ok)

\* Mutant: the first read ends the transfer, with data still to come.
OnRead_StopAtFirst(w, n) ==
    /\ cur' = w
    /\ got' = [got EXCEPT ![w] = @ + (IF n > 0 THEN 1 ELSE 0)]
    /\ did_open' = did_open
    /\ StuffResult(w, 1)
    /\ UNCHANGED <<lock, job_queue, workerVars, timer, lost>>

\* Mutant: ProcessBytes() is called for every result.
OnRead_AlwaysProcess(w, n) ==
    /\ cur' = w
    /\ got' = [got EXCEPT ![w] = @ + 1]
    /\ did_open' = [did_open EXCEPT ![w] = @ \/ n = 0]
    /\ IF n > 0 \/ (n = 0 /\ ~ did_open[w])
       THEN mpc' = "readmore" /\ UNCHANGED <<result, sem, stuffing>>
       ELSE StuffResult(w, 1)
    /\ UNCHANGED <<lock, job_queue, workerVars, timer, lost>>

\* OnRead(n): n > 0 a chunk, 0 PP_OK, n < 0 an error.
OnRead(w, n) ==
    /\ cur' = w
    /\ got' = [got EXCEPT ![w] = @ + (IF n > 0 THEN 1 ELSE 0)]
    /\ did_open' = [did_open EXCEPT ![w] = @ \/ n = 0]
    /\ IF n > 0 \/ (n = 0 /\ ~ did_open[w])
       THEN mpc' = "readmore" /\ UNCHANGED <<result, sem, stuffing>>
       ELSE StuffResult(w, 1)
    /\ UNCHANGED <<lock, job_queue, workerVars, timer, lost>>

\* External: the next result of ReadResponseBody.
ReadResults(w) == {IF got[w] < reply[w].len THEN 1 ELSE 0}
                    \cup (IF "read_error" \in Env THEN {-1} ELSE {})

\* ReadMore(): the read is pending, or its result is used at once.
ReadMorePending ==
    /\ mpc = "readmore"
    /\ io' = io \cup {<<cur, "read">>}
    /\ mpc' = CallerPc
    /\ UNCHANGED <<lock, job_queue, workerVars, sem, jobVars, cur, stuffing,
                   timer, lost>>

ReadMoreSync ==
    /\ mpc = "readmore"
    /\ "sync_read" \in Env
    /\ \E n \in ReadResults(cur) : OnRead(cur, n)
    /\ UNCHANGED io

\* The event loop runs the completion callback of ReadResponseBody.
ReadDone(w) ==
    /\ mpc = "loop"
    /\ <<w, "read">> \in io
    /\ io' = io \ {<<w, "read">>}
    /\ \E n \in ReadResults(w) : OnRead(w, n)

MainStep ==
    \/ Construct \/ TimerFires
    \/ DoWorkLock \/ DoWorkTake \/ DoWorkEmpty \/ DoWorkUnlock
    \/ Post
    \/ RunPending \/ RunSync
    \/ ReadMorePending \/ ReadMoreSync
    \/ \E w \in Workers : OpenDone(w) \/ ReadDone(w)

Next == MainStep \/ \E w \in Workers : WorkerStep(w)

Spec == Init /\ [][Next]_vars

(***************************************************************************)
(* Fairness: the browser runs the main thread and completes what it was    *)
(* asked for; a worker inside RunJob() goes on.  The main thread takes     *)
(* lock_ again and again, so a waiting worker needs strong fairness of the *)
(* mutex.  No worker has to make a request.                                *)
(***************************************************************************)
Fairness ==
    /\ WF_vars(MainStep)
    /\ \A w \in Workers : /\ SF_vars(RunJobLock(w))
                          /\ WF_vars(RunJobPush(w))
                          /\ WF_vars(RunJobReturn(w))

FairSpec == Spec /\ Fairness

-------------------------------------------------------------------------------
\* The values the fields of the runner and of the jobs take; in particular
\* dst_ never gets more chunks than the longest reply has.
TypeOK ==
    /\ lock \in Workers \cup {"free", "main", "garbage"}
    /\ job_queue \in Seq(Workers)
    /\ wpc \in [Workers -> {"idle", "lock", "push", "wait"}]
    /\ request \in [Workers -> Ops \cup {"none"}]
    /\ reply \in [Workers -> [ok : BOOLEAN, len : 0 .. MaxChunks]]
    /\ sem \in [Workers -> {0, 1}]
    /\ result \in [Workers -> {0, 1}]
    /\ did_open \in [Workers -> BOOLEAN]
    /\ got \in [Workers -> 0 .. MaxChunks]
    /\ ret \in [Workers -> {0, -1}]
    /\ mpc \in {"ctor", "loop", "lock", "locked", "run", "readmore",
                "unlock", "post"}
    /\ cur \in Workers \cup {"none"}
    /\ stuffing \in Seq(Workers)
    /\ timer \in Nat
    /\ io \subseteq Workers \X {"open", "read"}
    /\ lost \subseteq Workers

\* The main thread is in code that has still to arrange the next DoWork().
Driving == mpc \in {"lock", "locked", "run", "readmore"}

(***************************************************************************)
(* Exactly one thing will call DoWork() next: the code that runs, the      *)
(* timer, a pending loader callback - or nothing ever again, when an open  *)
(* failed.  Two drivers would run jobs nested in each other's callbacks,   *)
(* none would leave every later RunJob() waiting.                          *)
(***************************************************************************)
OneDriver ==
    mpc # "ctor" =>
        \/ Driving /\ timer = 0 /\ io = {} /\ lost = {}
        \/ ~ Driving /\ timer = 1 /\ io = {} /\ lost = {}
        \/ ~ Driving /\ timer = 0 /\ (\E c \in io : io = {c}) /\ lost = {}
        \/ ~ Driving /\ timer = 0 /\ io = {} /\ \E w \in lost : lost = {w}

\* The places from which the main thread reaches the entry of worker w.
InQueue(w) == {i \in 1 .. Len(job_queue) : job_queue[i] = w}
InStuffing(w) == {i \in 1 .. Len(stuffing) : stuffing[i] = w}
Places(w) ==
    ({"queue"} \X InQueue(w))
      \cup ({"stuffing"} \X InStuffing(w))
      \cup ({"io"} \X {c \in io : c[1] = w})
      \cup (IF mpc \in {"run", "readmore"} /\ cur = w THEN {"running"} ELSE {})
      \cup (IF sem[w] = 1 THEN {"posted"} ELSE {})
      \cup ({"lost"} \X (lost \cap {w}))

(***************************************************************************)
(* The entry of a worker that waits in RunJob() is in exactly one place,   *)
(* so its job is neither dropped nor run twice; the entry of any other     *)
(* worker is in none, so the main thread never follows a pointer into the  *)
(* stack frame of a RunJob() that has returned.                            *)
(***************************************************************************)
EntryInOnePlace ==
    \A w \in Workers :
        IF wpc[w] = "wait"
        THEN \E p \in Places(w) : Places(w) = {p}
        ELSE Places(w) = {}

(***************************************************************************)
(* DoWork() never waits for lock_ while a DoWork() below it on the same    *)
(* stack holds it.  Holds as long as a job cannot finish inside its own    *)
(* Run(), that is unless both Open and ReadResponseBody return at once.    *)
(***************************************************************************)
NoSelfDeadlock == mpc = "lock" => lock # "main"

\* What a call returns when its whole reply arrived.
AnswerOf(w) == IF request[w] = "list" \/ reply[w].ok THEN 0 ELSE -1

(***************************************************************************)
(* What Read(), Write(), List() and Remove() return is the answer of the   *)
(* server to this very request: 0 only after all of its reply arrived and  *)
(* said '1', -1 only when it did not.                                      *)
(***************************************************************************)
AnswerIsServers ==
    [][\A w \in Workers :
          RunJobReturn(w) => /\ got[w] = reply[w].len
                             /\ ret'[w] = AnswerOf(w)]_vars

(***************************************************************************)
(* Every RunJob() returns: an entry on job_queue_ is taken, its job        *)
(* completes and its semaphore is posted, whatever the other workers do.   *)
(***************************************************************************)
RunJobReturns == \A w \in Workers : wpc[w] # "idle" ~> wpc[w] = "idle"
===============================================================================
