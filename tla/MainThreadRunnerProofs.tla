------------------------ MODULE MainThreadRunnerProofs ------------------------
(***************************************************************************)
(* Proofs about base/MainThreadRunner.cc for every set of worker threads,  *)
(* every response size and every behaviour of the browser the model allows.*)
(***************************************************************************)
EXTENDS MainThreadRunner, TLAPS

\* Before the constructor returns nothing has been scheduled.
NothingScheduled == mpc = "ctor" => timer = 0 /\ io = {} /\ lost = {}

DriverInv == NothingScheduled /\ OneDriver

\* Where a callback returns to, no more code of it runs.
LEMMA CallerNotDriving == CallerPc \in {"unlock", "loop"}
  BY DEF CallerPc

(***************************************************************************)
(* The steps that hand the role of the driver on: every step of the main   *)
(* thread.                                                                 *)
(***************************************************************************)
LEMMA DriverMain == DriverInv /\ MainStep => DriverInv'
<1> SUFFICES ASSUME DriverInv, MainStep PROVE DriverInv'
  OBVIOUS
<1> USE DEF DriverInv, NothingScheduled, OneDriver, Driving
<1>1. CASE Construct
  BY <1>1 DEF Construct
<1>2. CASE TimerFires
  BY <1>2 DEF TimerFires
<1>3. CASE DoWorkLock
  BY <1>3 DEF DoWorkLock
<1>4. CASE DoWorkTake
  BY <1>4 DEF DoWorkTake
<1>5. CASE DoWorkEmpty
  BY <1>5 DEF DoWorkEmpty
<1>6. CASE DoWorkUnlock
  BY <1>6 DEF DoWorkUnlock
<1>7. CASE Post
  BY <1>7, CallerNotDriving DEF Post
<1>8. CASE RunPending
  <2>1. io' = {<<cur, "open">>}
    BY <1>8 DEF RunPending
  <2> QED
    BY <1>8, <2>1, CallerNotDriving DEF RunPending
<1>9. CASE RunSync
  <2>1. PICK ok \in OpenResults : OnOpen(cur, ok)
    BY <1>9 DEF RunSync
  <2>2. CASE ok
    BY <1>9, <2>1, <2>2 DEF RunSync, OnOpen
  <2>3. CASE ~ ok
    <3>1. lost' = {cur}
      BY <1>9, <2>1, <2>3 DEF RunSync, OnOpen
    <3> QED
      BY <1>9, <2>1, <2>3, <3>1, CallerNotDriving DEF RunSync, OnOpen
  <2> QED
    BY <2>2, <2>3
<1>10. CASE ReadMorePending
  <2>1. io' = {<<cur, "read">>}
    BY <1>10 DEF ReadMorePending
  <2> QED
    BY <1>10, <2>1, CallerNotDriving DEF ReadMorePending
<1>11. CASE ReadMoreSync
  <2>1. PICK n \in ReadResults(cur) : OnRead(cur, n)
    BY <1>11 DEF ReadMoreSync
  <2> QED
    BY <1>11, <2>1 DEF ReadMoreSync, OnRead, StuffResult
<1>12. ASSUME NEW w \in Workers, OpenDone(w) PROVE DriverInv'
  <2>1. PICK ok \in OpenResults : OnOpen(w, ok)
    BY <1>12 DEF OpenDone
  <2>2. timer = 0 /\ lost = {} /\ io' = {}
    BY <1>12 DEF OpenDone
  <2>3. timer' = 0
    BY <2>1, <2>2 DEF OnOpen
  <2>4. CASE ok
    BY <2>1, <2>2, <2>3, <2>4 DEF OnOpen
  <2>5. CASE ~ ok
    <3>1. lost' = {w}
      BY <2>1, <2>2, <2>5 DEF OnOpen
    <3> QED
      BY <2>1, <2>2, <2>3, <2>5, <3>1, CallerNotDriving DEF OnOpen
  <2> QED
    BY <2>4, <2>5
<1>13. ASSUME NEW w \in Workers, ReadDone(w) PROVE DriverInv'
  <2>1. PICK n \in ReadResults(w) : OnRead(w, n)
    BY <1>13 DEF ReadDone
  <2>2. timer = 0 /\ lost = {} /\ io' = {}
    BY <1>13 DEF ReadDone
  <2> QED
    BY <2>1, <2>2 DEF OnRead, StuffResult
<1> QED
  BY <1>1, <1>2, <1>3, <1>4, <1>5, <1>6, <1>7, <1>8, <1>9, <1>10, <1>11,
     <1>12, <1>13 DEF MainStep

LEMMA DriverInvariance == Spec => []DriverInv
<1>1. Init => DriverInv
  BY DEF Init, DriverInv, NothingScheduled, OneDriver
<1>2. DriverInv /\ [Next]_vars => DriverInv'
  <2> SUFFICES ASSUME DriverInv, [Next]_vars PROVE DriverInv'
    OBVIOUS
  <2>1. CASE MainStep
    BY <2>1, DriverMain
  <2>2. ASSUME NEW w \in Workers, WorkerStep(w) PROVE DriverInv'
    <3>1. UNCHANGED <<mpc, timer, io, lost>>
      BY <2>2 DEF WorkerStep, Request, RunJobLock, RunJobPush, RunJobReturn
    <3> QED
      BY <3>1 DEF DriverInv, NothingScheduled, OneDriver, Driving
  <2>3. CASE UNCHANGED vars
    BY <2>3 DEF vars, DriverInv, NothingScheduled, OneDriver, Driving
  <2> QED
    BY <2>1, <2>2, <2>3 DEF Next
<1> QED
  BY <1>1, <1>2, PTL DEF Spec

(***************************************************************************)
(* Whatever workers and browser do, exactly one timer, callback or piece   *)
(* of running code leads to the next DoWork() - or an open has failed and  *)
(* none does.                                                              *)
(***************************************************************************)
THEOREM DriverTheorem == Spec => []OneDriver
<1>1. DriverInv => OneDriver
  BY DEF DriverInv
<1> QED
  BY <1>1, DriverInvariance, PTL

-------------------------------------------------------------------------------
(* The types.                                                              *)

\* StuffResult() has an entry to post when its nested DoWork() returns, and
\* Run() and ReadMore() have a job.
Pointers ==
    /\ mpc = "post" => stuffing # <<>>
    /\ mpc \in {"run", "readmore"} => cur \in Workers

\* No job has more of its reply than there is.
GotBound == \A w \in Workers : got[w] <= reply[w].len

TypeInv == TypeOK /\ Pointers /\ GotBound

\* What the server may answer.
LEMMA RepliesType ==
    ASSUME NEW op \in Ops, NEW r \in Replies(op)
    PROVE  r \in [ok : BOOLEAN, len : 0 .. MaxChunks]
<1>1. op \in {"read", "write", "list", "remove"} /\ MaxChunks \in Nat \ {0}
  BY RunnerAssumption
<1>2. 1 \in 0 .. MaxChunks /\ 1 .. MaxChunks \subseteq 0 .. MaxChunks
  BY <1>1
<1>3. CASE op = "read"
  BY <1>2, <1>3 DEF Replies
<1>4. CASE op = "write"
  BY <1>2, <1>4 DEF Replies
<1>5. CASE op = "list"
  BY <1>2, <1>5 DEF Replies
<1>6. CASE op = "remove"
  BY <1>2, <1>6 DEF Replies
<1> QED
  BY <1>1, <1>3, <1>4, <1>5, <1>6

LEMMA OutcomeType ==
    ASSUME NEW op, NEW raw, NEW n, NEW r
    PROVE  Outcome(op, raw, n, r) \in {0, -1}
<1> DEFINE ans == CASE op = "read" -> IF n >= 1 /\ r.ok THEN 0 ELSE -1
                    [] op = "list" -> 0
                    [] OTHER       -> IF n = 1 /\ r.ok THEN 0 ELSE -1
<1>1. CASE op = "read"
  <2>1. ans = IF n >= 1 /\ r.ok THEN 0 ELSE -1
    BY <1>1
  <2> QED
    BY <2>1 DEF Outcome
<1>2. CASE op = "list"
  <2>1. ans = 0
    BY <1>2
  <2> QED
    BY <2>1 DEF Outcome
<1>3. CASE op # "read" /\ op # "list"
  <2>1. ans = IF n = 1 /\ r.ok THEN 0 ELSE -1
    BY <1>3
  <2> QED
    BY <2>1 DEF Outcome
<1> QED
  BY <1>1, <1>2, <1>3

\* A worker changes only its own call, the lock and the end of the queue.
LEMMA TypeWorker ==
    ASSUME TypeInv, NEW w \in Workers, WorkerStep(w)
    PROVE  TypeInv'
<1> USE DEF TypeInv, Pointers, GotBound
<1>1. ASSUME NEW op \in Ops, NEW r \in Replies(op), Request(w, op, r)
      PROVE  TypeInv'
  <2>1. r \in [ok : BOOLEAN, len : 0 .. MaxChunks] /\ 0 \in 0 .. MaxChunks
    BY RepliesType, RunnerAssumption
  <2>2. TypeOK'
    BY <1>1, <2>1 DEF Request, TypeOK
  <2>3. GotBound'
    <3> SUFFICES ASSUME NEW v \in Workers PROVE got'[v] <= reply'[v].len
      BY DEF GotBound
    <3>1. CASE v = w
      BY <1>1, <2>1, <3>1 DEF Request, TypeOK
    <3>2. CASE v # w
      BY <1>1, <3>2 DEF Request, TypeOK
    <3> QED
      BY <3>1, <3>2
  <2> QED
    BY <1>1, <2>2, <2>3 DEF Request
<1>2. CASE RunJobLock(w)
  BY <1>2 DEF RunJobLock, TypeOK, jobVars
<1>3. CASE RunJobPush(w)
  BY <1>3 DEF RunJobPush, TypeOK, jobVars
<1>4. CASE RunJobReturn(w)
  <2>1. ret' \in [Workers -> {0, -1}]
    BY <1>4, OutcomeType DEF RunJobReturn, TypeOK
  <2> QED
    BY <1>4, <2>1 DEF RunJobReturn, TypeOK, jobVars
<1> QED
  BY <1>1, <1>2, <1>3, <1>4 DEF WorkerStep

LEMMA TypeOnOpen ==
    ASSUME TypeInv, NEW w \in Workers, NEW ok, OnOpen(w, ok),
           io' \subseteq io
    PROVE  TypeInv'
<1>1. CASE ok
  BY <1>1 DEF OnOpen, TypeInv, Pointers, GotBound, TypeOK, workerVars, jobVars
<1>2. CASE ~ ok
  BY <1>2, CallerNotDriving
     DEF OnOpen, TypeInv, Pointers, GotBound, TypeOK, workerVars, jobVars
<1> QED
  BY <1>1, <1>2

LEMMA TypeOnRead ==
    ASSUME TypeInv, NEW w \in Workers, NEW n \in ReadResults(w), OnRead(w, n),
           io' \subseteq io
    PROVE  TypeInv'
<1> USE DEF TypeInv
<1>1. got[w] \in Nat /\ reply[w].len \in 0 .. MaxChunks /\ MaxChunks \in Nat
  BY RunnerAssumption DEF TypeOK
<1>2. n \in {-1, 0, 1} /\ (n = 1 => got[w] < reply[w].len)
  BY DEF ReadResults
<1>3. /\ got' = [got EXCEPT ![w] = @ + (IF n > 0 THEN 1 ELSE 0)]
      /\ did_open' = [did_open EXCEPT ![w] = @ \/ n = 0]
      /\ cur' = w
      /\ UNCHANGED <<lock, job_queue, wpc, request, reply, ret, timer, lost>>
  BY DEF OnRead, workerVars
<1>4. got'[w] <= reply[w].len /\ got' \in [Workers -> 0 .. MaxChunks]
  BY <1>1, <1>2, <1>3 DEF TypeOK, GotBound
<1>5. GotBound'
  BY <1>3, <1>4 DEF TypeOK, GotBound
<1>6. did_open' \in [Workers -> BOOLEAN]
  <2>1. (did_open[w] \/ n = 0) \in BOOLEAN
    OBVIOUS
  <2> QED
    BY <1>3, <2>1 DEF TypeOK
<1>7. CASE n > 0 \/ (n = 0 /\ ~ did_open[w])
  <2>1. mpc' = "readmore" /\ UNCHANGED <<result, sem, stuffing>>
    BY <1>7 DEF OnRead
  <2> QED
    BY <1>3, <1>4, <1>5, <1>6, <2>1 DEF TypeOK, Pointers
<1>8. CASE ~ (n > 0 \/ (n = 0 /\ ~ did_open[w]))
  <2>1. StuffResult(w, 1)
    BY <1>8 DEF OnRead
  <2>2. stuffing' \in Seq(Workers) /\ result' \in [Workers -> {0, 1}]
    BY <2>1 DEF StuffResult, TypeOK
  <2> QED
    BY <1>3, <1>4, <1>5, <1>6, <2>1, <2>2 DEF StuffResult, TypeOK, Pointers
<1> QED
  BY <1>7, <1>8

LEMMA TypeMain == TypeInv /\ MainStep => TypeInv'
<1> SUFFICES ASSUME TypeInv, MainStep PROVE TypeInv'
  OBVIOUS
<1>1. CASE Construct
  BY <1>1 DEF Construct, TypeInv, Pointers, GotBound, TypeOK, workerVars, jobVars
<1>2. CASE TimerFires
  BY <1>2 DEF TimerFires, TypeInv, Pointers, GotBound, TypeOK, workerVars, jobVars
<1>3. CASE DoWorkLock
  BY <1>3 DEF DoWorkLock, TypeInv, Pointers, GotBound, TypeOK, workerVars, jobVars
<1>4. CASE DoWorkTake
  <2>1. Head(job_queue) \in Workers /\ Tail(job_queue) \in Seq(Workers)
    BY <1>4 DEF DoWorkTake, TypeInv, TypeOK
  <2> QED
    BY <1>4, <2>1
       DEF DoWorkTake, TypeInv, Pointers, GotBound, TypeOK, workerVars, jobVars
<1>5. CASE DoWorkEmpty
  BY <1>5 DEF DoWorkEmpty, TypeInv, Pointers, GotBound, TypeOK, workerVars, jobVars
<1>6. CASE DoWorkUnlock
  BY <1>6 DEF DoWorkUnlock, TypeInv, Pointers, GotBound, TypeOK, workerVars, jobVars
<1>7. CASE Post
  <2>1. Head(stuffing) \in Workers /\ Tail(stuffing) \in Seq(Workers)
    BY <1>7 DEF Post, TypeInv, Pointers, TypeOK
  <2> QED
    BY <1>7, <2>1, CallerNotDriving
       DEF Post, TypeInv, Pointers, GotBound, TypeOK, workerVars, jobVars
<1>8. CASE RunPending
  BY <1>8, CallerNotDriving
     DEF RunPending, TypeInv, Pointers, GotBound, TypeOK, workerVars, jobVars
<1>9. CASE RunSync
  BY <1>9, TypeOnOpen DEF RunSync, TypeInv, Pointers
<1>10. CASE ReadMorePending
  BY <1>10, CallerNotDriving
     DEF ReadMorePending, TypeInv, Pointers, GotBound, TypeOK, workerVars, jobVars
<1>11. CASE ReadMoreSync
  BY <1>11, TypeOnRead DEF ReadMoreSync, TypeInv, Pointers
<1>12. ASSUME NEW w \in Workers, OpenDone(w) \/ ReadDone(w) PROVE TypeInv'
  BY <1>12, TypeOnOpen, TypeOnRead DEF OpenDone, ReadDone
<1> QED
  BY <1>1, <1>2, <1>3, <1>4, <1>5, <1>6, <1>7, <1>8, <1>9, <1>10, <1>11,
     <1>12 DEF MainStep

LEMMA TypeInvariance == Spec => []TypeInv
<1>1. Init => TypeInv
  <2> SUFFICES ASSUME Init PROVE TypeInv
    OBVIOUS
  <2>1. 0 \in 0 .. MaxChunks
    BY RunnerAssumption
  <2> QED
    BY <2>1 DEF Init, TypeInv, Pointers, GotBound, TypeOK
<1>2. TypeInv /\ [Next]_vars => TypeInv'
  <2> SUFFICES ASSUME TypeInv, [Next]_vars PROVE TypeInv'
    OBVIOUS
  <2>1. CASE UNCHANGED vars
    BY <2>1 DEF vars, TypeInv, Pointers, GotBound, TypeOK
  <2> QED
    BY <2>1, TypeMain, TypeWorker DEF Next
<1> QED
  BY <1>1, <1>2, PTL DEF Spec

(***************************************************************************)
(* The fields of the runner and of the jobs keep their types, and dst_     *)
(* never gets more chunks than the server sent, for any number of workers. *)
(***************************************************************************)
THEOREM TypeTheorem == Spec => []TypeOK
<1>1. TypeInv => TypeOK
  BY DEF TypeInv
<1> QED
  BY <1>1, TypeInvariance, PTL

-------------------------------------------------------------------------------
(* The lock.                                                               *)

\* Who is outside DoWork() does not hold lock_; a job that was opened by a
\* callback runs outside DoWork().
LockInv ==
    /\ mpc \in {"ctor", "loop", "lock"} => lock # "main"
    /\ "sync_open" \notin Env /\ mpc = "readmore" => lock # "main"

LEMMA LockMain ==
    ASSUME ~ ({"sync_open", "sync_read"} \subseteq Env), LockInv, MainStep
    PROVE  LockInv'
<1> USE DEF LockInv
<1>1. CASE Construct \/ TimerFires \/ DoWorkLock \/ DoWorkTake \/ DoWorkEmpty
           \/ DoWorkUnlock
  BY <1>1 DEF Construct, TimerFires, DoWorkLock, DoWorkTake, DoWorkEmpty,
              DoWorkUnlock
<1>2. CASE Post \/ RunPending \/ ReadMorePending
  BY <1>2 DEF Post, RunPending, ReadMorePending, CallerPc
<1>3. CASE RunSync
  BY <1>3 DEF RunSync, OnOpen, CallerPc
<1>4. CASE ReadMoreSync
  BY <1>4 DEF ReadMoreSync, OnRead, StuffResult
<1>5. ASSUME NEW w \in Workers, OpenDone(w) PROVE LockInv'
  BY <1>5 DEF OpenDone, OnOpen, CallerPc
<1>6. ASSUME NEW w \in Workers, ReadDone(w) PROVE LockInv'
  BY <1>6 DEF ReadDone, OnRead, StuffResult
<1> QED
  BY <1>1, <1>2, <1>3, <1>4, <1>5, <1>6 DEF MainStep

(***************************************************************************)
(* Unless the browser may answer both Open and ReadResponseBody at once,   *)
(* DoWork() never waits for a lock_ that its own stack holds, however many *)
(* workers there are.                                                      *)
(***************************************************************************)
THEOREM LockTheorem ==
    ASSUME ~ ({"sync_open", "sync_read"} \subseteq Env)
    PROVE  Spec => []NoSelfDeadlock
<1>1. Init => LockInv
  BY DEF Init, LockInv
<1>2. LockInv /\ [Next]_vars => LockInv'
  <2> SUFFICES ASSUME LockInv, [Next]_vars PROVE LockInv'
    OBVIOUS
  <2>1. ASSUME NEW w \in Workers, WorkerStep(w) PROVE LockInv'
    <3>1. w # "main"
      BY RunnerAssumption
    <3> QED
      BY <2>1, <3>1 DEF WorkerStep, Request, RunJobLock, RunJobPush,
                        RunJobReturn, LockInv
  <2>2. CASE UNCHANGED vars
    BY <2>2 DEF vars, LockInv
  <2> QED
    BY <2>1, <2>2, LockMain DEF Next
<1>3. LockInv => NoSelfDeadlock
  BY DEF LockInv, NoSelfDeadlock
<1> QED
  BY <1>1, <1>2, <1>3, PTL DEF Spec

-------------------------------------------------------------------------------
(* The places of an entry.                                                 *)

In(s, x) == \E i \in 1 .. Len(s) : s[i] = x
Distinct(s) == \A i, j \in 1 .. Len(s) : s[i] = s[j] => i = j

LEMMA AppendPlaces ==
    ASSUME NEW s \in Seq(Workers), NEW x \in Workers
    PROVE  /\ \A y : In(Append(s, x), y) <=> In(s, y) \/ y = x
           /\ Distinct(s) /\ ~ In(s, x) => Distinct(Append(s, x))
<1> DEFINE t == Append(s, x)
<1>1. Len(s) \in Nat /\ Len(t) = Len(s) + 1 /\ t[Len(s) + 1] = x
  OBVIOUS
<1>2. \A i \in 1 .. Len(s) : t[i] = s[i]
  OBVIOUS
<1>3. 1 .. Len(t) = (1 .. Len(s)) \cup {Len(s) + 1}
  BY <1>1
<1> HIDE DEF t
<1>4. \A y : In(t, y) <=> In(s, y) \/ y = x
  BY <1>1, <1>2, <1>3 DEF In
<1>5. Distinct(s) /\ ~ In(s, x) => Distinct(t)
  BY <1>1, <1>2, <1>3 DEF In, Distinct
<1> QED
  BY <1>4, <1>5 DEF t

LEMMA TailPlaces ==
    ASSUME NEW s \in Seq(Workers), s # <<>>, Distinct(s)
    PROVE  /\ \A y : In(Tail(s), y) <=> In(s, y) /\ y # Head(s)
           /\ Distinct(Tail(s))
           /\ In(s, Head(s))
<1> DEFINE t == Tail(s)
<1>1. /\ Len(s) \in Nat \ {0} /\ Len(t) = Len(s) - 1 /\ Head(s) = s[1]
      /\ \A i \in 1 .. Len(t) : t[i] = s[i + 1]
  OBVIOUS
<1> HIDE DEF t
<1>2. ASSUME NEW i \in 1 .. Len(s), i # 1
      PROVE  i - 1 \in 1 .. Len(t) /\ t[i - 1] = s[i]
  <2>1. i - 1 \in 1 .. Len(t) /\ (i - 1) + 1 = i
    BY <1>1, <1>2
  <2> QED
    BY <1>1, <2>1
<1>3. \A i \in 1 .. Len(t) : i + 1 \in 1 .. Len(s) /\ i + 1 # 1
  BY <1>1
<1>4. 1 \in 1 .. Len(s)
  BY <1>1
<1>5. In(s, Head(s))
  BY <1>1, <1>4 DEF In
<1>6. ASSUME NEW y, In(t, y) PROVE In(s, y) /\ y # Head(s)
  BY <1>6, <1>1, <1>3, <1>4 DEF In, Distinct
<1>7. ASSUME NEW y, In(s, y), y # Head(s) PROVE In(t, y)
  <2>1. PICK i \in 1 .. Len(s) : s[i] = y
    BY <1>7 DEF In
  <2>2. i # 1
    BY <1>1, <1>7, <2>1
  <2> QED
    BY <1>2, <2>1, <2>2 DEF In
<1>8. Distinct(t)
  BY <1>1, <1>3 DEF Distinct
<1> QED
  BY <1>5, <1>6, <1>7, <1>8 DEF t

LEMMA PushPlaces ==
    ASSUME NEW s \in Seq(Workers), NEW x \in Workers
    PROVE  /\ \A y : In(<<x>> \o s, y) <=> In(s, y) \/ y = x
           /\ Distinct(s) /\ ~ In(s, x) => Distinct(<<x>> \o s)
<1> DEFINE t == <<x>> \o s
<1>1. /\ Len(s) \in Nat /\ Len(t) = Len(s) + 1 /\ t[1] = x
      /\ \A i \in 2 .. Len(t) : t[i] = s[i - 1]
  OBVIOUS
<1> HIDE DEF t
<1>2. \A i \in 1 .. Len(t) : i # 1 => i - 1 \in 1 .. Len(s) /\ t[i] = s[i - 1]
  BY <1>1
<1>3. \A i \in 1 .. Len(s) : i + 1 \in 1 .. Len(t) /\ i + 1 # 1 /\ t[i + 1] = s[i]
  BY <1>1
<1>4. 1 \in 1 .. Len(t)
  BY <1>1
<1>5. \A y : In(t, y) <=> In(s, y) \/ y = x
  <2>1. ASSUME NEW y, In(t, y) PROVE In(s, y) \/ y = x
    <3>1. PICK i \in 1 .. Len(t) : t[i] = y
      BY <2>1 DEF In
    <3>2. CASE i = 1
      BY <1>1, <3>1, <3>2
    <3>3. CASE i # 1
      BY <1>2, <3>1, <3>3 DEF In
    <3> QED
      BY <3>2, <3>3
  <2>2. ASSUME NEW y, In(s, y) PROVE In(t, y)
    <3>1. PICK i \in 1 .. Len(s) : s[i] = y
      BY <2>2 DEF In
    <3> QED
      BY <1>3, <3>1 DEF In
  <2>3. In(t, x)
    BY <1>1, <1>4 DEF In
  <2> QED
    BY <2>1, <2>2, <2>3
<1>6. ASSUME Distinct(s), ~ In(s, x), NEW i \in 1 .. Len(t), NEW j \in 1 .. Len(t),
             t[i] = t[j]
      PROVE  i = j
  <2>1. CASE i # 1 /\ j # 1
    <3>1. i - 1 = j - 1
      BY <1>2, <1>6, <2>1 DEF Distinct
    <3> QED
      BY <1>1, <3>1
  <2> QED
    BY <1>1, <1>2, <1>6, <2>1 DEF In
<1> QED
  BY <1>5, <1>6 DEF t, Distinct

\* Where the entry of w is.
Queued(w) == In(job_queue, w)
Stuffed(w) == In(stuffing, w)
InIo(w) == \E c \in io : c[1] = w
Running(w) == mpc \in {"run", "readmore"} /\ cur = w
Posted(w) == sem[w] = 1
Lost(w) == w \in lost

\* The entry of w is in just one kind of place, or in none.
None(w) == /\ ~ Queued(w) /\ ~ Stuffed(w) /\ ~ InIo(w)
           /\ ~ Running(w) /\ ~ Posted(w) /\ ~ Lost(w)
One(w) ==
    \/ Queued(w) /\ ~ Stuffed(w) /\ ~ InIo(w) /\ ~ Running(w) /\ ~ Posted(w) /\ ~ Lost(w)
    \/ ~ Queued(w) /\ Stuffed(w) /\ ~ InIo(w) /\ ~ Running(w) /\ ~ Posted(w) /\ ~ Lost(w)
    \/ ~ Queued(w) /\ ~ Stuffed(w) /\ InIo(w) /\ ~ Running(w) /\ ~ Posted(w) /\ ~ Lost(w)
    \/ ~ Queued(w) /\ ~ Stuffed(w) /\ ~ InIo(w) /\ Running(w) /\ ~ Posted(w) /\ ~ Lost(w)
    \/ ~ Queued(w) /\ ~ Stuffed(w) /\ ~ InIo(w) /\ ~ Running(w) /\ Posted(w) /\ ~ Lost(w)
    \/ ~ Queued(w) /\ ~ Stuffed(w) /\ ~ InIo(w) /\ ~ Running(w) /\ ~ Posted(w) /\ Lost(w)

PlaceInv ==
    /\ Distinct(job_queue) /\ Distinct(stuffing)
    /\ \A w \in Workers : IF wpc[w] = "wait" THEN One(w) ELSE None(w)

Inv == TypeInv /\ DriverInv /\ PlaceInv

LEMMA PlaceWorker ==
    ASSUME Inv, NEW w \in Workers, WorkerStep(w)
    PROVE  PlaceInv'
<1> USE DEF Inv
<1>1. UNCHANGED <<mpc, cur, stuffing, io, lost>>
  BY DEF WorkerStep, Request, RunJobLock, RunJobPush, RunJobReturn
<1>2. \A v : /\ Stuffed(v)' <=> Stuffed(v)
             /\ InIo(v)' <=> InIo(v)
             /\ Running(v)' <=> Running(v)
             /\ Lost(v)' <=> Lost(v)
  BY <1>1 DEF Stuffed, InIo, Running, Lost
<1>3. Distinct(stuffing)'
  BY <1>1 DEF PlaceInv
<1>4. CASE \E op \in Ops : \E r \in Replies(op) : Request(w, op, r)
  <2>1. wpc[w] = "idle" /\ wpc' = [wpc EXCEPT ![w] = "lock"]
        /\ sem' = [sem EXCEPT ![w] = 0] /\ job_queue' = job_queue
    BY <1>4 DEF Request
  <2>2. \A v \in Workers : Posted(v)' <=> Posted(v)
    BY <2>1 DEF PlaceInv, None, Posted, TypeInv, TypeOK
  <2>3. \A v : Queued(v)' <=> Queued(v)
    BY <2>1 DEF Queued
  <2> QED
    BY <1>2, <1>3, <2>1, <2>2, <2>3 DEF PlaceInv, One, None, TypeInv, TypeOK
<1>5. CASE RunJobLock(w)
  <2>1. wpc[w] = "lock" /\ wpc' = [wpc EXCEPT ![w] = "push"]
        /\ UNCHANGED <<sem, job_queue>>
    BY <1>5 DEF RunJobLock
  <2>2. \A v : (Posted(v)' <=> Posted(v)) /\ (Queued(v)' <=> Queued(v))
    BY <2>1 DEF Posted, Queued
  <2> QED
    BY <1>2, <1>3, <2>1, <2>2 DEF PlaceInv, One, None, TypeInv, TypeOK
<1>6. CASE RunJobPush(w)
  <2>1. wpc[w] = "push" /\ wpc' = [wpc EXCEPT ![w] = "wait"]
        /\ sem' = sem /\ job_queue' = Append(job_queue, w)
    BY <1>6 DEF RunJobPush
  <2>2. \A v : Posted(v)' <=> Posted(v)
    BY <2>1 DEF Posted
  <2>3. None(w)
    BY <2>1 DEF PlaceInv
  <2>4. /\ \A v : Queued(v)' <=> Queued(v) \/ v = w
        /\ Distinct(job_queue)'
    BY <2>1, <2>3, AppendPlaces DEF PlaceInv, Queued, None, TypeInv, TypeOK
  <2> QED
    BY <1>2, <1>3, <2>1, <2>2, <2>3, <2>4 DEF PlaceInv, One, None, TypeInv, TypeOK
<1>7. CASE RunJobReturn(w)
  <2>1. wpc[w] = "wait" /\ wpc' = [wpc EXCEPT ![w] = "idle"]
        /\ sem[w] = 1 /\ sem' = [sem EXCEPT ![w] = 0] /\ job_queue' = job_queue
    BY <1>7 DEF RunJobReturn
  <2>2. \A v \in Workers : Posted(v)' <=> Posted(v) /\ v # w
    BY <2>1 DEF Posted, TypeInv, TypeOK
  <2>3. \A v : Queued(v)' <=> Queued(v)
    BY <2>1 DEF Queued
  <2>4. One(w) /\ Posted(w)
    BY <2>1 DEF PlaceInv, Posted
  <2> QED
    BY <1>2, <1>3, <2>1, <2>2, <2>3, <2>4 DEF PlaceInv, One, None, TypeInv, TypeOK
<1> QED
  BY <1>4, <1>5, <1>6, <1>7 DEF WorkerStep

\* OnOpen(), called from Run() or by the event loop: the entry goes on to
\* ReadMore() or is lost.
LEMMA PlaceOnOpen ==
    ASSUME Inv, NEW w \in Workers, NEW ok, OnOpen(w, ok), io' = {},
           mpc \in {"run", "loop"},
           Running(w) \/ (InIo(w) /\ mpc = "loop"),
           \A v \in Workers \ {w} : ~ Running(v) /\ ~ InIo(v)
    PROVE  PlaceInv'
<1> USE DEF Inv
<1>1. UNCHANGED <<wpc, job_queue, stuffing, sem>> /\ cur' = w
  BY DEF OnOpen, workerVars
<1>2. \A v : /\ Stuffed(v)' <=> Stuffed(v)
             /\ Queued(v)' <=> Queued(v)
             /\ Posted(v)' <=> Posted(v)
             /\ ~ InIo(v)'
  BY <1>1 DEF Stuffed, Queued, Posted, InIo
<1>3. One(w) /\ ~ Queued(w) /\ ~ Stuffed(w) /\ ~ Posted(w) /\ ~ Lost(w)
      /\ wpc[w] = "wait"
  BY DEF PlaceInv, One, None
<1>4. CASE ok
  <2>1. \A v : (Running(v)' <=> v = w) /\ (Lost(v)' <=> Lost(v))
    BY <1>1, <1>4 DEF OnOpen, Running, Lost
  <2> QED
    BY <1>1, <1>2, <1>3, <2>1 DEF PlaceInv, One, None
<1>5. CASE ~ ok
  <2>1. \A v : ~ Running(v)' /\ (Lost(v)' <=> Lost(v) \/ v = w)
    BY <1>1, <1>5, CallerNotDriving DEF OnOpen, Running, Lost
  <2> QED
    BY <1>1, <1>2, <1>3, <2>1 DEF PlaceInv, One, None
<1> QED
  BY <1>4, <1>5

\* OnRead(), called from ReadMore() or by the event loop: the entry goes back
\* to ReadMore() or on to StuffResult().
LEMMA PlaceOnRead ==
    ASSUME Inv, NEW w \in Workers, NEW n, OnRead(w, n), io' = {},
           Running(w) \/ (InIo(w) /\ mpc = "loop"),
           \A v \in Workers \ {w} : ~ Running(v) /\ ~ InIo(v)
    PROVE  PlaceInv'
<1> USE DEF Inv
<1>1. UNCHANGED <<wpc, job_queue, lost>> /\ cur' = w
  BY DEF OnRead, workerVars
<1>2. \A v : /\ Queued(v)' <=> Queued(v)
             /\ Lost(v)' <=> Lost(v)
             /\ ~ InIo(v)'
  BY <1>1 DEF Queued, Lost, InIo
<1>3. One(w) /\ ~ Queued(w) /\ ~ Stuffed(w) /\ ~ Posted(w) /\ ~ Lost(w)
      /\ wpc[w] = "wait"
  BY DEF PlaceInv, One, None
<1>4. CASE mpc' = "readmore" /\ UNCHANGED <<result, sem, stuffing>>
  <2>1. \A v : /\ Running(v)' <=> v = w
               /\ Stuffed(v)' <=> Stuffed(v)
               /\ Posted(v)' <=> Posted(v)
    BY <1>1, <1>4 DEF Running, Stuffed, Posted
  <2> QED
    BY <1>1, <1>2, <1>3, <1>4, <2>1 DEF PlaceInv, One, None
<1>5. CASE StuffResult(w, 1)
  <2>1. /\ \A v : Stuffed(v)' <=> Stuffed(v) \/ v = w
        /\ Distinct(stuffing)'
    BY <1>3, <1>5, PushPlaces DEF StuffResult, Stuffed, PlaceInv, TypeInv, TypeOK
  <2>2. \A v : ~ Running(v)' /\ (Posted(v)' <=> Posted(v))
    BY <1>5 DEF StuffResult, Running, Posted
  <2> QED
    BY <1>1, <1>2, <1>3, <2>1, <2>2 DEF PlaceInv, One, None
<1> QED
  BY <1>4, <1>5 DEF OnRead

\* Run() or ReadMore() leaves a callback behind.
LEMMA PlacePending ==
    ASSUME Inv, NEW k, mpc \in {"run", "readmore"}, io' = io \cup {<<cur, k>>},
           mpc' = CallerPc,
           UNCHANGED <<job_queue, wpc, sem, stuffing, lost>>
    PROVE  PlaceInv'
<1> USE DEF Inv
<1>1. io = {} /\ cur \in Workers
  BY DEF DriverInv, OneDriver, Driving, TypeInv, Pointers
<1>2. io' = {<<cur, k>>} /\ <<cur, k>>[1] = cur
  BY <1>1
<1>3. \A v : /\ Stuffed(v)' <=> Stuffed(v)
             /\ Queued(v)' <=> Queued(v)
             /\ Posted(v)' <=> Posted(v)
             /\ Lost(v)' <=> Lost(v)
             /\ ~ Running(v)' /\ (Running(v) <=> v = cur)
             /\ ~ InIo(v) /\ (InIo(v)' <=> v = cur)
  BY <1>1, <1>2, CallerNotDriving DEF Stuffed, Queued, Posted, Lost, Running, InIo
<1> QED
  BY <1>1, <1>3 DEF PlaceInv, One, None

LEMMA PlaceMain == Inv /\ MainStep => PlaceInv'
<1> SUFFICES ASSUME Inv, MainStep PROVE PlaceInv'
  OBVIOUS
<1> USE DEF Inv
<1>1. CASE Construct \/ TimerFires \/ DoWorkLock \/ DoWorkEmpty \/ DoWorkUnlock
  <2>1. /\ UNCHANGED <<job_queue, wpc, sem, stuffing, io, lost>>
        /\ mpc \notin {"run", "readmore"} /\ mpc' \notin {"run", "readmore"}
    BY <1>1 DEF Construct, TimerFires, DoWorkLock, DoWorkEmpty, DoWorkUnlock,
                workerVars
  <2>2. \A v : /\ Stuffed(v)' <=> Stuffed(v)
               /\ Queued(v)' <=> Queued(v)
               /\ Posted(v)' <=> Posted(v)
               /\ Lost(v)' <=> Lost(v)
               /\ Running(v)' <=> Running(v)
               /\ InIo(v)' <=> InIo(v)
    BY <2>1 DEF Stuffed, Queued, Posted, Lost, Running, InIo
  <2> QED
    BY <2>1, <2>2 DEF PlaceInv, One, None
<1>2. CASE DoWorkTake
  <2>1. /\ mpc = "locked" /\ mpc' = "run"
        /\ job_queue # <<>> /\ job_queue' = Tail(job_queue)
        /\ cur' = Head(job_queue)
        /\ UNCHANGED <<wpc, sem, stuffing, io, lost>>
    BY <1>2 DEF DoWorkTake, workerVars
  <2>2. /\ \A v : Queued(v)' <=> Queued(v) /\ v # cur'
        /\ Distinct(job_queue)'
        /\ Queued(cur') /\ cur' \in Workers
    BY <2>1, TailPlaces DEF Queued, PlaceInv, TypeInv, TypeOK
  <2>3. \A v : /\ Stuffed(v)' <=> Stuffed(v)
               /\ Posted(v)' <=> Posted(v)
               /\ Lost(v)' <=> Lost(v)
               /\ InIo(v)' <=> InIo(v)
               /\ ~ Running(v) /\ (Running(v)' <=> v = cur')
    BY <2>1 DEF Stuffed, Posted, Lost, Running, InIo
  <2> QED
    BY <2>1, <2>2, <2>3 DEF PlaceInv, One, None
<1>3. CASE Post
  <2> DEFINE w == Head(stuffing)
  <2>1. /\ mpc = "post" /\ mpc' = CallerPc
        /\ stuffing # <<>> /\ stuffing' = Tail(stuffing)
        /\ sem' = [sem EXCEPT ![w] = 1]
        /\ UNCHANGED <<wpc, job_queue, io, lost>>
    BY <1>3 DEF Post, workerVars, TypeInv, Pointers
  <2>2. /\ \A v : Stuffed(v)' <=> Stuffed(v) /\ v # w
        /\ Distinct(stuffing)'
        /\ Stuffed(w) /\ w \in Workers
    BY <2>1, TailPlaces DEF Stuffed, PlaceInv, TypeInv, TypeOK
  <2> HIDE DEF w
  <2>3. \A v : /\ Queued(v)' <=> Queued(v)
               /\ Lost(v)' <=> Lost(v)
               /\ InIo(v)' <=> InIo(v)
               /\ ~ Running(v) /\ ~ Running(v)'
    BY <2>1, CallerNotDriving DEF Queued, Lost, Running, InIo
  <2>4. \A v \in Workers : Posted(v)' <=> Posted(v) \/ v = w
    BY <2>1, <2>2 DEF Posted, TypeInv, TypeOK
  <2> QED
    BY <2>1, <2>2, <2>3, <2>4 DEF PlaceInv, One, None
<1>4. CASE RunPending
  BY <1>4, PlacePending DEF RunPending, workerVars
<1>5. CASE ReadMorePending
  BY <1>5, PlacePending DEF ReadMorePending, workerVars
<1>6. CASE RunSync
  <2>1. io' = {} /\ \A v : ~ InIo(v)
    BY <1>6 DEF RunSync, DriverInv, OneDriver, Driving, InIo
  <2>2. cur \in Workers /\ Running(cur) /\ \A v \in Workers \ {cur} : ~ Running(v)
    BY <1>6 DEF RunSync, Running, TypeInv, Pointers
  <2> QED
    BY <1>6, <2>1, <2>2, PlaceOnOpen DEF RunSync
<1>7. CASE ReadMoreSync
  <2>1. io' = {} /\ \A v : ~ InIo(v)
    BY <1>7 DEF ReadMoreSync, DriverInv, OneDriver, Driving, InIo
  <2>2. cur \in Workers /\ Running(cur) /\ \A v \in Workers \ {cur} : ~ Running(v)
    BY <1>7 DEF ReadMoreSync, Running, TypeInv, Pointers
  <2> QED
    BY <1>7, <2>1, <2>2, PlaceOnRead DEF ReadMoreSync
<1>8. ASSUME NEW w \in Workers, NEW k, mpc = "loop", <<w, k>> \in io,
             io' = io \ {<<w, k>>}
      PROVE  /\ io' = {} /\ InIo(w)
             /\ \A v \in Workers \ {w} : ~ Running(v) /\ ~ InIo(v)
  <2>1. io = {<<w, k>>}
    BY <1>8 DEF DriverInv, OneDriver, Driving
  <2> QED
    BY <1>8, <2>1 DEF Running, InIo
<1>9. ASSUME NEW w \in Workers, OpenDone(w) PROVE PlaceInv'
  <2>1. mpc = "loop" /\ <<w, "open">> \in io /\ io' = io \ {<<w, "open">>}
    BY <1>9 DEF OpenDone
  <2> QED
    BY <1>8, <1>9, <2>1, PlaceOnOpen DEF OpenDone
<1>10. ASSUME NEW w \in Workers, ReadDone(w) PROVE PlaceInv'
  <2>1. mpc = "loop" /\ <<w, "read">> \in io /\ io' = io \ {<<w, "read">>}
    BY <1>10 DEF ReadDone
  <2> QED
    BY <1>8, <1>10, <2>1, PlaceOnRead DEF ReadDone
<1> QED
  BY <1>1, <1>2, <1>3, <1>4, <1>5, <1>6, <1>7, <1>9, <1>10 DEF MainStep

LEMMA PlaceInvariance == Spec => []PlaceInv
<1>1. Init => PlaceInv
  BY DEF Init, PlaceInv, Distinct, None, Queued, Stuffed, InIo, Running, Posted,
         Lost, In
<1>2. TypeInv /\ DriverInv /\ PlaceInv /\ [Next]_vars => PlaceInv'
  <2> SUFFICES ASSUME Inv, [Next]_vars PROVE PlaceInv'
    BY DEF Inv
  <2>1. CASE UNCHANGED vars
    BY <2>1 DEF vars, Inv, PlaceInv, Distinct, One, None, Queued, Stuffed, InIo,
                Running, Posted, Lost, In
  <2> QED
    BY <2>1, PlaceMain, PlaceWorker DEF Next
<1> QED
  BY <1>1, <1>2, TypeInvariance, DriverInvariance, PTL DEF Spec

(***************************************************************************)
(* For any number of workers and whatever the browser does, the entry of a *)
(* waiting RunJob() is in exactly one place and the entry of a RunJob()    *)
(* that is not waiting, which is not on any stack any more, in none.       *)
(***************************************************************************)
THEOREM EntryTheorem == Spec => []EntryInOnePlace
<1>1. TypeInv /\ DriverInv /\ PlaceInv => EntryInOnePlace
  <2> SUFFICES ASSUME Inv, NEW w \in Workers
               PROVE  IF wpc[w] = "wait"
                      THEN \E p \in Places(w) : Places(w) = {p}
                      ELSE Places(w) = {}
    BY DEF Inv, EntryInOnePlace
  <2> USE DEF Inv
  <2> DEFINE queue == {"queue"} \X InQueue(w)
             stuff == {"stuffing"} \X InStuffing(w)
             calls == {"io"} \X {c \in io : c[1] = w}
             run == IF mpc \in {"run", "readmore"} /\ cur = w THEN {"running"} ELSE {}
             post == IF sem[w] = 1 THEN {"posted"} ELSE {}
             gone == {"lost"} \X (lost \cap {w})
  <2>1. Places(w) = queue \cup stuff \cup calls \cup run \cup post \cup gone
    BY DEF Places
  <2>2. ~ Queued(w) => queue = {}
    BY DEF Queued, In, InQueue
  <2>3. ~ Stuffed(w) => stuff = {}
    BY DEF Stuffed, In, InStuffing
  <2>4. ~ InIo(w) => calls = {}
    BY DEF InIo
  <2>5. ~ Running(w) => run = {}
    BY DEF Running
  <2>6. ~ Posted(w) => post = {}
    BY DEF Posted
  <2>7. ~ Lost(w) => gone = {}
    BY DEF Lost
  <2>8. Queued(w) => \E p : queue = {p}
    <3> SUFFICES ASSUME Queued(w) PROVE \E p : queue = {p}
      OBVIOUS
    <3>1. PICK i \in 1 .. Len(job_queue) : job_queue[i] = w
      BY DEF Queued, In
    <3>2. InQueue(w) = {i}
      BY <3>1 DEF InQueue, PlaceInv, Distinct
    <3>3. queue = {<<"queue", i>>}
      BY <3>2
    <3> QED
      BY <3>3
  <2>9. Stuffed(w) => \E p : stuff = {p}
    <3> SUFFICES ASSUME Stuffed(w) PROVE \E p : stuff = {p}
      OBVIOUS
    <3>1. PICK i \in 1 .. Len(stuffing) : stuffing[i] = w
      BY DEF Stuffed, In
    <3>2. InStuffing(w) = {i}
      BY <3>1 DEF InStuffing, PlaceInv, Distinct
    <3>3. stuff = {<<"stuffing", i>>}
      BY <3>2
    <3> QED
      BY <3>3
  <2>10. InIo(w) => \E p : calls = {p}
    <3> SUFFICES ASSUME InIo(w) PROVE \E p : calls = {p}
      OBVIOUS
    <3>1. PICK c \in io : c[1] = w
      BY DEF InIo
    <3>2. io = {c}
      BY <3>1 DEF DriverInv, NothingScheduled, OneDriver
    <3>3. calls = {<<"io", c>>}
      BY <3>1, <3>2
    <3> QED
      BY <3>3
  <2>11. Running(w) => run = {"running"}
    BY DEF Running
  <2>12. Posted(w) => post = {"posted"}
    BY DEF Posted
  <2>13. Lost(w) => gone = {<<"lost", w>>}
    BY DEF Lost
  <2>14. None(w) => Places(w) = {}
    BY <2>1, <2>2, <2>3, <2>4, <2>5, <2>6, <2>7 DEF None
  <2>15. One(w) => \E p : Places(w) = {p}
    <3> HIDE DEF queue, stuff, calls, run, post, gone
    <3> QED
      BY <2>1, <2>2, <2>3, <2>4, <2>5, <2>6, <2>7, <2>8, <2>9, <2>10, <2>11,
         <2>12, <2>13, Zenon DEF One
  <2> QED
    BY <2>14, <2>15 DEF PlaceInv
<1> QED
  BY <1>1, TypeInvariance, DriverInvariance, PlaceInvariance, PTL

-------------------------------------------------------------------------------
(* The answers.                                                            *)

\* A call that is under way has a reply of its kind, and one whose job is done
\* has all of it.
AnswerInv ==
    \A w \in Workers :
        /\ wpc[w] # "idle" => request[w] \in Ops /\ reply[w] \in Replies(request[w])
        /\ Stuffed(w) \/ Posted(w) => result[w] = 1 /\ got[w] = reply[w].len

\* A whole reply is turned into the answer of the server.
LEMMA WholeReply ==
    ASSUME NEW op \in Ops, NEW r \in Replies(op)
    PROVE  Outcome(op, 1, r.len, r) = IF op = "list" \/ r.ok THEN 0 ELSE -1
<1>1. op \in {"read", "write", "list", "remove"} /\ MaxChunks \in Nat
  BY RunnerAssumption
<1>2. CASE op = "read"
  <2>1. r \in [ok : {TRUE}, len : 1 .. MaxChunks] \cup [ok : {FALSE}, len : {1}]
    BY <1>2 DEF Replies
  <2>2. r.len \in 1 .. MaxChunks \/ r.len = 1
    BY <2>1
  <2>3. r.len >= 1
    BY <1>1, <2>2
  <2> QED
    BY <1>2, <2>3 DEF Outcome
<1>3. CASE op = "write"
  <2>1. r.len = 1
    BY <1>3 DEF Replies
  <2> QED
    BY <1>3, <2>1 DEF Outcome
<1>4. CASE op = "list"
  BY <1>4 DEF Outcome
<1>5. CASE op = "remove"
  <2>1. r.len = 1
    BY <1>5 DEF Replies
  <2> QED
    BY <1>5, <2>1 DEF Outcome
<1> QED
  BY <1>1, <1>2, <1>3, <1>4, <1>5

LEMMA AnswerWorker ==
    ASSUME Inv, AnswerInv, NEW w \in Workers, WorkerStep(w)
    PROVE  AnswerInv'
<1> USE DEF Inv
<1>1. stuffing' = stuffing /\ result' = result
  BY DEF WorkerStep, Request, RunJobLock, RunJobPush, RunJobReturn, jobVars
<1>2. \A v : Stuffed(v)' <=> Stuffed(v)
  BY <1>1 DEF Stuffed
<1>3. ASSUME NEW op \in Ops, NEW r \in Replies(op), Request(w, op, r)
      PROVE  AnswerInv'
  <2>1. ~ Stuffed(w) /\ sem'[w] # 1
    BY <1>3 DEF Request, PlaceInv, None, TypeInv, TypeOK
  <2>2. ASSUME NEW v \in Workers, v # w
        PROVE  /\ wpc'[v] = wpc[v] /\ request'[v] = request[v]
               /\ reply'[v] = reply[v] /\ got'[v] = got[v] /\ sem'[v] = sem[v]
    BY <1>3, <2>2 DEF Request, TypeInv, TypeOK
  <2>3. request'[w] = op /\ reply'[w] = r
    BY <1>3 DEF Request, TypeInv, TypeOK
  <2> QED
    BY <1>1, <1>2, <2>1, <2>2, <2>3 DEF AnswerInv, Posted
<1>4. CASE RunJobLock(w) \/ RunJobPush(w)
  <2>1. UNCHANGED <<request, reply, got, sem>>
    BY <1>4 DEF RunJobLock, RunJobPush, jobVars
  <2>2. wpc[w] # "idle" /\ \A v \in Workers \ {w} : wpc'[v] = wpc[v]
    BY <1>4 DEF RunJobLock, RunJobPush, TypeInv, TypeOK
  <2> QED
    BY <1>1, <1>2, <2>1, <2>2 DEF AnswerInv, Posted
<1>5. CASE RunJobReturn(w)
  <2>1. UNCHANGED <<request, reply, got>>
    BY <1>5 DEF RunJobReturn, jobVars
  <2>2. wpc[w] # "idle" /\ \A v \in Workers \ {w} : wpc'[v] = wpc[v]
    BY <1>5 DEF RunJobReturn, TypeInv, TypeOK
  <2>3. \A v \in Workers : Posted(v)' => Posted(v)
    BY <1>5 DEF RunJobReturn, Posted, TypeInv, TypeOK
  <2> QED
    BY <1>1, <1>2, <2>1, <2>2, <2>3 DEF AnswerInv
<1> QED
  BY <1>3, <1>4, <1>5 DEF WorkerStep

\* Without errors a read ends only behind the whole reply.
LEMMA AnswerOnRead ==
    ASSUME "read_error" \notin Env, Inv, AnswerInv, NEW w \in Workers,
           NEW n \in ReadResults(w), OnRead(w, n),
           Running(w) \/ InIo(w)
    PROVE  AnswerInv'
<1> USE DEF Inv
<1>1. ~ Stuffed(w) /\ ~ Posted(w)
  BY DEF PlaceInv, One, None
<1>2. UNCHANGED <<wpc, request, reply>>
  BY DEF OnRead, workerVars
<1>3. n = (IF got[w] < reply[w].len THEN 1 ELSE 0)
  BY DEF ReadResults
<1>4. /\ got' = [got EXCEPT ![w] = @ + (IF n > 0 THEN 1 ELSE 0)]
      /\ \A v \in Workers \ {w} : got'[v] = got[v]
  BY DEF OnRead, TypeInv, TypeOK
<1>5. CASE mpc' = "readmore" /\ UNCHANGED <<result, sem, stuffing>>
  <2>1. \A v : (Stuffed(v)' <=> Stuffed(v)) /\ (Posted(v)' <=> Posted(v))
    BY <1>5 DEF Stuffed, Posted
  <2> QED
    BY <1>1, <1>2, <1>4, <1>5, <2>1 DEF AnswerInv
<1>6. CASE ~ (n > 0 \/ (n = 0 /\ ~ did_open[w]))
  <2>1. StuffResult(w, 1)
    BY <1>6 DEF OnRead
  <2>2. \A v : /\ Stuffed(v)' <=> Stuffed(v) \/ v = w
               /\ Posted(v)' <=> Posted(v)
    BY <2>1, PushPlaces DEF StuffResult, Stuffed, Posted, TypeInv, TypeOK
  <2>3. /\ result'[w] = 1
        /\ \A v \in Workers \ {w} : result'[v] = result[v]
    BY <2>1 DEF StuffResult, TypeInv, TypeOK
  <2>4. got'[w] = reply[w].len
    <3>1. got[w] \in Nat /\ reply[w].len \in Nat /\ got[w] <= reply[w].len
      BY RunnerAssumption DEF TypeInv, TypeOK, GotBound
    <3> QED
      BY <1>3, <1>4, <1>6, <3>1 DEF TypeInv, TypeOK
  <2> QED
    BY <1>1, <1>2, <1>4, <2>2, <2>3, <2>4 DEF AnswerInv
<1> QED
  BY <1>5, <1>6 DEF OnRead

LEMMA AnswerMain ==
    ASSUME "read_error" \notin Env, Inv, AnswerInv, MainStep
    PROVE  AnswerInv'
<1> USE DEF Inv
<1>1. CASE UNCHANGED <<wpc, request, reply, got, sem, result, stuffing>>
  BY <1>1 DEF AnswerInv, Stuffed, Posted
<1>2. CASE Construct \/ TimerFires \/ DoWorkLock \/ DoWorkTake \/ DoWorkEmpty
           \/ DoWorkUnlock \/ RunPending \/ ReadMorePending
  BY <1>1, <1>2 DEF Construct, TimerFires, DoWorkLock, DoWorkTake, DoWorkEmpty,
                    DoWorkUnlock, RunPending, ReadMorePending, workerVars, jobVars
<1>3. CASE RunSync \/ \E w \in Workers : OpenDone(w)
  BY <1>1, <1>3 DEF RunSync, OpenDone, OnOpen, workerVars, jobVars
<1>4. CASE Post
  <2> DEFINE w == Head(stuffing)
  <2>1. /\ stuffing # <<>> /\ stuffing' = Tail(stuffing)
        /\ sem' = [sem EXCEPT ![w] = 1]
        /\ UNCHANGED <<wpc, request, reply, got, result>>
    BY <1>4 DEF Post, workerVars, jobVars, TypeInv, Pointers
  <2>2. (\A v : Stuffed(v)' => Stuffed(v)) /\ Stuffed(w)
    BY <2>1, TailPlaces DEF Stuffed, PlaceInv, TypeInv, TypeOK
  <2> HIDE DEF w
  <2>3. \A v \in Workers : Posted(v)' => Posted(v) \/ v = w
    BY <2>1 DEF Posted, TypeInv, TypeOK
  <2> QED
    BY <2>1, <2>2, <2>3 DEF AnswerInv
<1>5. CASE ReadMoreSync
  <2>1. cur \in Workers /\ Running(cur)
    BY <1>5 DEF ReadMoreSync, Running, TypeInv, Pointers
  <2> QED
    BY <1>5, <2>1, AnswerOnRead DEF ReadMoreSync
<1>6. ASSUME NEW w \in Workers, ReadDone(w) PROVE AnswerInv'
  <2>1. InIo(w)
    BY <1>6 DEF ReadDone, InIo
  <2> QED
    BY <1>6, <2>1, AnswerOnRead DEF ReadDone
<1> QED
  BY <1>2, <1>3, <1>4, <1>5, <1>6 DEF MainStep

(***************************************************************************)
(* As long as no read of a response body fails, what a call of             *)
(* AppEngineUrlRequest returns is the server's answer to it, after all of  *)
(* the answer arrived, however many workers ask at the same time.          *)
(***************************************************************************)
THEOREM AnswerTheorem ==
    ASSUME "read_error" \notin Env
    PROVE  Spec => AnswerIsServers
<1>1. Init => AnswerInv
  <2> SUFFICES ASSUME Init, NEW w \in Workers
               PROVE  wpc[w] = "idle" /\ ~ Stuffed(w) /\ ~ Posted(w)
    BY DEF AnswerInv
  <2>1. ~ Stuffed(w)
    BY DEF Init, Stuffed, In
  <2> QED
    BY <2>1 DEF Init, Posted
<1>2. TypeInv /\ DriverInv /\ PlaceInv /\ AnswerInv /\ [Next]_vars => AnswerInv'
  <2> SUFFICES ASSUME Inv, AnswerInv, [Next]_vars PROVE AnswerInv'
    BY DEF Inv
  <2>1. CASE UNCHANGED vars
    BY <2>1 DEF vars, AnswerInv, Stuffed, Posted, In
  <2> QED
    BY <2>1, AnswerMain, AnswerWorker DEF Next
<1>3. TypeInv /\ AnswerInv /\ [Next]_vars =>
        [\A w \in Workers : RunJobReturn(w) => /\ got[w] = reply[w].len
                                               /\ ret'[w] = AnswerOf(w)]_vars
  <2> SUFFICES ASSUME TypeInv, AnswerInv, NEW w \in Workers, RunJobReturn(w)
               PROVE  got[w] = reply[w].len /\ ret'[w] = AnswerOf(w)
    OBVIOUS
  <2>1. wpc[w] = "wait" /\ Posted(w)
    BY DEF RunJobReturn, Posted
  <2>2. /\ request[w] \in Ops /\ reply[w] \in Replies(request[w])
        /\ result[w] = 1 /\ got[w] = reply[w].len
    BY <2>1 DEF AnswerInv
  <2>3. ret'[w] = Outcome(request[w], 1, reply[w].len, reply[w])
    BY <2>2 DEF RunJobReturn, TypeInv, TypeOK
  <2> QED
    BY <2>2, <2>3, WholeReply DEF AnswerOf
<1> QED
  BY <1>1, <1>2, <1>3, TypeInvariance, DriverInvariance, PlaceInvariance, PTL
     DEF Spec, AnswerIsServers
===============================================================================
