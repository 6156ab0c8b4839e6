----------------------------- MODULE MemFileProofs -----------------------------
(***************************************************************************)
(* Proofs about MemMount::Read, MemMount::Write and KernelProxy::lseek,    *)
(* for every number of handles, every byte value and all sizes.            *)
(***************************************************************************)
EXTENDS MemFile, SequenceTheorems, TLAPS

\* What every program keeps: the types of the numbers, and room for the file.
SizeInv ==
    /\ len \in Nat
    /\ capacity \in Nat
    /\ len <= capacity
    /\ data \in [0 .. capacity - 1 -> Byte \cup {GARBAGE}]
    /\ offset \in [Handle -> Nat]

\* What programs keep that never seek past the end.
WithinFile ==
    /\ \A h \in Handle : offset[h] <= len
    /\ NoGarbageInFile
    /\ NoOverrun

\* An index below the length is a natural number.
LEMMA BelowLength ==
    \A n \in Nat : \A i \in 0 .. n - 1 : i \in Nat /\ i < n
  OBVIOUS

\* A buffer of write() is a sequence of bytes.
LEMMA BufLen ==
    ASSUME NEW buf \in Bufs
    PROVE  Len(buf) \in Nat /\ buf \in [1 .. Len(buf) -> Byte]
<1>1. PICK n \in 0 .. MaxCount : buf \in [1 .. n -> Byte]
  BY DEF Bufs
<1>2. n \in Nat /\ buf \in Seq(Byte) /\ Len(buf) = n
  BY <1>1, MemFileAssumption
<1> QED
  BY <1>1, <1>2

(***************************************************************************)
(* ReallocData() leaves room for the whole write.                          *)
(***************************************************************************)
LEMMA GrownRoom ==
    ASSUME capacity \in Nat, NEW end \in Nat
    PROVE  /\ Grown(end) \in Nat
           /\ Grown(end) >= end
           /\ Grown(end) >= capacity
  BY DEF Grown

\* The limit of MemMount::Read() keeps a read that starts inside the file there.
LEMMA ReadCountBound ==
    ASSUME len \in Nat, NEW off \in Nat, NEW count \in Nat
    PROVE  /\ ReadCount(off, count) \in Nat
           /\ off <= len => off + ReadCount(off, count) <= len
<1> DEFINE left == (len - off) % SizeMod
<1>1. SizeMod \in Nat \ {0}
  BY MemFileAssumption
<1>2. left \in Nat
  BY <1>1
<1>3. ASSUME off <= len PROVE left <= len - off
  BY <1>1, <1>3
<1> QED
  BY <1>2, <1>3 DEF ReadCount

-------------------------------------------------------------------------------
\* write() keeps data_, capacity_, len_ and the offsets consistent.
LEMMA WriteSizes ==
    ASSUME SizeInv, NEW h \in Handle, NEW buf \in Bufs, Write(h, buf)
    PROVE  SizeInv'
<1> DEFINE end == offset[h] + Len(buf)
<1>1. Len(buf) \in Nat /\ buf \in [1 .. Len(buf) -> Byte]
  BY BufLen
<1>2. offset[h] \in Nat /\ end \in Nat /\ offset[h] <= end
  BY <1>1 DEF SizeInv
<1>3. /\ Grown(end) \in Nat /\ Grown(end) >= end /\ Grown(end) >= capacity
  BY <1>2, GrownRoom DEF SizeInv
<1>4. /\ capacity' = Grown(end)
      /\ len' = NewLen(end)
      /\ offset' = [offset EXCEPT ![h] = end]
      /\ data' = [i \in 0 .. Grown(end) - 1 |->
                     IF offset[h] <= i /\ i < end THEN buf[i - offset[h] + 1]
                     ELSE IF i < capacity THEN data[i]
                     ELSE GARBAGE]
  BY DEF Write, Pads
<1>5. len' \in Nat /\ len' <= capacity'
  BY <1>2, <1>3, <1>4 DEF NewLen, SizeInv
<1>6. offset' \in [Handle -> Nat]
  BY <1>2, <1>4 DEF SizeInv
<1>7. ASSUME NEW i \in 0 .. Grown(end) - 1
      PROVE  (IF offset[h] <= i /\ i < end THEN buf[i - offset[h] + 1]
              ELSE IF i < capacity THEN data[i]
              ELSE GARBAGE) \in Byte \cup {GARBAGE}
  <2> i \in Nat
    BY <1>3
  <2>1. CASE offset[h] <= i /\ i < end
    <3>1. i - offset[h] + 1 \in 1 .. Len(buf)
      BY <1>1, <1>2, <2>1
    <3>2. buf[i - offset[h] + 1] \in Byte
      BY <1>1, <3>1
    <3> QED
      BY <2>1, <3>2
  <2>2. CASE ~ (offset[h] <= i /\ i < end) /\ i < capacity
    <3>1. i \in 0 .. capacity - 1
      BY <2>2 DEF SizeInv
    <3> QED
      BY <2>2, <3>1 DEF SizeInv
  <2>3. CASE ~ (offset[h] <= i /\ i < end) /\ ~ (i < capacity)
    BY <2>3
  <2> QED
    BY <2>1, <2>2, <2>3
<1>8. data' \in [0 .. capacity' - 1 -> Byte \cup {GARBAGE}]
  BY <1>4, <1>7
<1> QED
  BY <1>3, <1>4, <1>5, <1>6, <1>8 DEF SizeInv

\* So does every other call.
LEMMA SizeStep == SizeInv /\ [Next]_vars => SizeInv'
<1> SUFFICES ASSUME SizeInv, [Next]_vars PROVE SizeInv'
  OBVIOUS
<1>1. ASSUME NEW h \in Handle, Open(h) \/ Close(h) PROVE SizeInv'
  BY <1>1 DEF Open, Close, SizeInv
<1>2. ASSUME NEW h \in Handle, NEW count \in 0 .. MaxCount, Read(h, count)
      PROVE  SizeInv'
  <2>1. offset[h] \in Nat /\ count \in Nat
    BY MemFileAssumption DEF SizeInv
  <2>2. ReadCount(offset[h], count) \in Nat
    BY <2>1, ReadCountBound DEF SizeInv
  <2> QED
    BY <1>2, <2>1, <2>2 DEF Read, SizeInv
<1>3. ASSUME NEW h \in Handle, NEW buf \in Bufs, Write(h, buf) PROVE SizeInv'
  BY <1>3, WriteSizes
<1>4. ASSUME NEW h \in Handle, NEW off \in -1 .. MaxOffset,
             NEW whence \in Whence, Lseek(h, off, whence)
      PROVE  SizeInv'
  <2> DEFINE next == SeekTarget(h, off, whence)
  <2>1. SeekTo(h, next)
    BY <1>4 DEF Lseek
  <2>2. next \in Nat
    <3>1. off \in Int /\ offset[h] \in Int /\ len \in Int
      BY MemFileAssumption DEF SizeInv
    <3>2. next \in Int
      BY <3>1 DEF SeekTarget, Whence
    <3>3. next >= 0
      BY <2>1 DEF SeekTo
    <3> QED
      BY <3>2, <3>3
  <2> HIDE DEF next
  <2> QED
    BY <2>1, <2>2 DEF SeekTo, SizeInv
<1>5. CASE UNCHANGED vars
  BY <1>5 DEF vars, SizeInv
<1> QED
  BY <1>1, <1>2, <1>3, <1>4, <1>5 DEF Next

\* A new MemNode has no data.
LEMMA SizeInit == Init => SizeInv
  BY DEF Init, SizeInv

(***************************************************************************)
(* Whatever programs seek, read and write, len_ never exceeds capacity_.   *)
(***************************************************************************)
THEOREM LengthTheorem == Spec => []LenWithinCapacity
<1>1. SizeInv => LenWithinCapacity
  BY DEF SizeInv, LenWithinCapacity
<1> QED
  BY <1>1, SizeInit, SizeStep, PTL DEF Spec

-------------------------------------------------------------------------------
(***************************************************************************)
(* A program that does not seek past the end stays within the file: its    *)
(* offsets never pass len_, so Write() leaves no gap, every byte below     *)
(* len_ has been written, and no memset or memcpy leaves data_.            *)
(***************************************************************************)
LEMMA WithinStep ==
    ASSUME ~ PastEnd, SizeInv, WithinFile, [Next]_vars
    PROVE  WithinFile'
<1> USE DEF WithinFile, NoGarbageInFile, NoOverrun
<1>1. ASSUME NEW h \in Handle, Open(h) \/ Close(h) PROVE WithinFile'
  BY <1>1 DEF Open, Close, SizeInv
<1>2. ASSUME NEW h \in Handle, NEW count \in 0 .. MaxCount, Read(h, count)
      PROVE  WithinFile'
  <2>1. offset[h] \in Nat /\ count \in Nat /\ offset[h] <= len
    BY MemFileAssumption DEF SizeInv
  <2>2. offset[h] + ReadCount(offset[h], count) <= len
    BY <2>1, ReadCountBound DEF SizeInv
  <2>3. UNCHANGED <<data, len, overrun>>
    BY <1>2 DEF Read
  <2>4. offset' = [offset EXCEPT ![h] = @ + ReadCount(offset[h], count)]
    BY <1>2 DEF Read
  <2>5. \A g \in Handle : offset'[g] <= len
    BY <2>2, <2>4 DEF SizeInv
  <2> QED
    BY <2>3, <2>5
<1>3. ASSUME NEW h \in Handle, NEW buf \in Bufs, Write(h, buf) PROVE WithinFile'
  <2> DEFINE end == offset[h] + Len(buf)
  <2>1. Len(buf) \in Nat /\ buf \in [1 .. Len(buf) -> Byte]
    BY BufLen
  <2>2. offset[h] \in Nat /\ offset[h] <= len /\ end \in Nat
    BY <2>1 DEF SizeInv
  <2>3. Grown(end) \in Nat /\ Grown(end) >= end /\ Grown(end) >= capacity
    BY <2>2, GrownRoom DEF SizeInv
  <2>4. /\ len' = NewLen(end)
        /\ offset' = [offset EXCEPT ![h] = end]
        /\ overrun' = (overrun \/ offset[h] > len \/ end > Grown(end))
        /\ data' = [i \in 0 .. Grown(end) - 1 |->
                       IF offset[h] <= i /\ i < end THEN buf[i - offset[h] + 1]
                       ELSE IF i < capacity THEN data[i]
                       ELSE GARBAGE]
    BY <1>3 DEF Write, Pads
  <2>5. len' \in Nat /\ len' >= end /\ len' >= len
        /\ (len' = end \/ len' = len)
    BY <2>2, <2>4 DEF NewLen, SizeInv
  <2>6. \A g \in Handle : offset'[g] <= len'
    BY <2>2, <2>4, <2>5 DEF SizeInv
  <2>7. ~ overrun'
    <3>1. ~ (offset[h] > len) /\ ~ (end > Grown(end))
      BY <2>2, <2>3 DEF SizeInv
    <3> QED
      BY <2>4, <3>1, Zenon
  <2>8. ASSUME NEW i \in 0 .. len' - 1 PROVE data'[i] # GARBAGE
    <3>a. len' <= Grown(end)
      BY <2>2, <2>3, <2>5 DEF SizeInv
    <3>b. i \in 0 .. len' - 1
      BY <2>8
    <3>c. i \in Nat /\ i < len'
      BY <2>5, <3>b, BelowLength
    <3>1. i \in Nat /\ i < len' /\ i \in 0 .. Grown(end) - 1
      BY <2>3, <2>5, <3>a, <3>c
    <3>2. CASE offset[h] <= i /\ i < end
      <4>1. i - offset[h] + 1 \in 1 .. Len(buf)
        BY <2>1, <2>2, <3>1, <3>2
      <4>2. buf[i - offset[h] + 1] \in Byte
        BY <2>1, <4>1
      <4>3. data'[i] = buf[i - offset[h] + 1]
        BY <2>4, <3>1, <3>2
      <4> QED
        BY <4>2, <4>3, MemFileAssumption DEF GARBAGE
    <3>3. CASE ~ (offset[h] <= i /\ i < end)
      <4>1. i \in 0 .. len - 1 /\ i < capacity
        BY <2>2, <2>5, <3>1, <3>3 DEF SizeInv
      <4>2. data'[i] = data[i]
        BY <2>4, <3>1, <3>3, <4>1
      <4> QED
        BY <4>1, <4>2
    <3> QED
      BY <3>2, <3>3
  <2> QED
    BY <2>6, <2>7, <2>8
<1>4. ASSUME NEW h \in Handle, NEW next, SeekTo(h, next) PROVE WithinFile'
  BY <1>4 DEF SeekTo, SizeInv
<1>5. CASE UNCHANGED vars
  BY <1>5 DEF vars
<1>6. ASSUME NEW h \in Handle, NEW off \in -1 .. MaxOffset,
             NEW whence \in Whence, Lseek(h, off, whence)
      PROVE  WithinFile'
  BY <1>4, <1>6 DEF Lseek
<1> QED
  BY <1>1, <1>2, <1>3, <1>5, <1>6 DEF Next

\* A new file is empty and its handle stands at its end.
LEMMA WithinInit == Init => WithinFile
<1> SUFFICES ASSUME Init PROVE WithinFile
  OBVIOUS
<1>1. len = 0 /\ offset = [h \in Handle |-> 0]
  BY DEF Init
<1>2. (\A h \in Handle : offset[h] <= len) /\ 0 .. len - 1 = {}
  BY <1>1
<1>3. ~ overrun
  BY Zenon DEF Init
<1> QED
  BY <1>2, <1>3, Zenon DEF WithinFile, NoGarbageInFile, NoOverrun

\* The invariant of programs that do not seek past the end.
LEMMA WithinInvariance == ASSUME ~ PastEnd PROVE Spec => [](SizeInv /\ WithinFile)
<1>1. Init => SizeInv /\ WithinFile
  BY SizeInit, WithinInit
<1>2. (SizeInv /\ WithinFile) /\ [Next]_vars => (SizeInv /\ WithinFile)'
  BY SizeStep, WithinStep
<1> QED
  BY <1>1, <1>2, PTL DEF Spec

(***************************************************************************)
(* Programs that do not seek past the end make no call that writes outside *)
(* data_.                                                                  *)
(***************************************************************************)
THEOREM OverrunTheorem == ASSUME ~ PastEnd PROVE Spec => []NoOverrun
<1>1. SizeInv /\ WithinFile => NoOverrun
  BY DEF WithinFile
<1> QED
  BY <1>1, WithinInvariance, PTL

(***************************************************************************)
(* Nor do they ever see uninitialised memory as part of the file.          *)
(***************************************************************************)
THEOREM GarbageTheorem == ASSUME ~ PastEnd PROVE Spec => []NoGarbageInFile
<1>1. SizeInv /\ WithinFile => NoGarbageInFile
  BY DEF WithinFile
<1> QED
  BY <1>1, WithinInvariance, PTL

\* A part of a sequence, as a function.
LEMMA SubSeqIsFcn ==
    ASSUME NEW S, NEW s \in Seq(S), NEW a \in Nat, NEW n \in Nat, a + n <= Len(s)
    PROVE  SubSeq(s, a + 1, a + n) = [i \in 1 .. n |-> s[a + i]]
<1> DEFINE t == SubSeq(s, a + 1, a + n)
<1>1. a + 1 \in 1 .. Len(s) + 1 /\ a + n \in (a + 1) - 1 .. Len(s)
  OBVIOUS
<1>2. /\ t \in Seq(S) /\ Len(t) = (a + n) - (a + 1) + 1
      /\ \A i \in 1 .. (a + n) - (a + 1) + 1 : t[i] = s[(a + 1) + i - 1]
  <2>1. PICK m, k : m = a + 1 /\ k = a + n
    OBVIOUS
  <2>2. m \in Int /\ k \in Int /\ \A i \in m .. k : s[i] \in S
    BY <2>1
  <2>3. /\ SubSeq(s, m, k) \in Seq(S)
        /\ Len(SubSeq(s, m, k)) = IF m <= k THEN k - m + 1 ELSE 0
        /\ \A i \in 1 .. k - m + 1 : SubSeq(s, m, k)[i] = s[m + i - 1]
    BY <2>2, SubSeqProperties
  <2>4. (IF m <= k THEN k - m + 1 ELSE 0) = k - m + 1
    BY <2>1
  <2> QED
    BY <2>1, <2>3, <2>4
<1>3. (a + n) - (a + 1) + 1 = n /\ \A i \in 1 .. n : (a + 1) + i - 1 = a + i
  OBVIOUS
<1> HIDE DEF t
<1>4. t = [i \in 1 .. n |-> t[i]]
  BY <1>2, <1>3
<1> QED
  BY <1>2, <1>3, <1>4 DEF t

-------------------------------------------------------------------------------
\* What read() stores in the buffer are bytes, of the file or not.
LEMMA AnswerType ==
    ASSUME TypeOK, NEW off \in Nat, NEW n \in Nat
    PROVE  [i \in 1 .. n |-> IF off + i - 1 < capacity
                             THEN data[off + i - 1] ELSE GARBAGE]
               \in Seq(Byte \cup {GARBAGE})
<1>1. ASSUME NEW i \in 1 .. n
      PROVE  (IF off + i - 1 < capacity THEN data[off + i - 1] ELSE GARBAGE)
                 \in Byte \cup {GARBAGE}
  <2>1. CASE off + i - 1 < capacity
    <3>1. off + i - 1 \in 0 .. capacity - 1
      BY <2>1 DEF TypeOK
    <3> QED
      BY <2>1, <3>1 DEF TypeOK
  <2>2. CASE ~ (off + i - 1 < capacity)
    BY <2>2
  <2> QED
    BY <2>1, <2>2
<1> QED
  BY <1>1

(***************************************************************************)
(* data_ is exactly capacity_ bytes and no offset is ever negative,        *)
(* whatever programs seek, read and write.                                 *)
(***************************************************************************)
THEOREM TypeTheorem == Spec => []TypeOK
<1> USE MemFileAssumption
<1>1. Init => TypeOK /\ SizeInv
  <2> SUFFICES ASSUME Init PROVE TypeOK
    BY SizeInit
  <2>1. mode \in [Handle -> {"closed", "rdonly", "wronly", "rdwr"}]
    BY DEF Init
  <2>2. overrun \in BOOLEAN
    BY Zenon DEF Init
  <2> QED
    BY <2>1, <2>2 DEF Init, TypeOK
<1>2. TypeOK /\ SizeInv /\ [Next]_vars => (TypeOK /\ SizeInv)'
  <2> SUFFICES ASSUME TypeOK, SizeInv, [Next]_vars PROVE TypeOK'
    BY SizeStep
  <2>1. ASSUME NEW h \in Handle, Open(h) \/ Close(h) PROVE TypeOK'
    <3>1. mode' \in [Handle -> {"closed", "rdonly", "wronly", "rdwr"}]
      BY <2>1 DEF Open, Close, TypeOK
    <3>2. 0 \in 0 .. MaxOffset
      OBVIOUS
    <3>3. offset' \in [Handle -> 0 .. MaxOffset]
      BY <2>1, <3>2 DEF Open, Close, TypeOK
    <3>4. UNCHANGED <<data, capacity, len, answer, overrun>>
      BY <2>1 DEF Open, Close
    <3> QED
      BY <3>1, <3>3, <3>4 DEF TypeOK
  <2>2. ASSUME NEW h \in Handle, NEW count \in 0 .. MaxCount, Read(h, count)
        PROVE  TypeOK'
    <3> DEFINE n == ReadCount(offset[h], count)
    <3>1. offset[h] \in Nat /\ count \in Nat /\ len \in Nat
      BY DEF TypeOK
    <3>2. n \in Nat
      BY <3>1, ReadCountBound
    <3>3. /\ offset[h] + n <= MaxOffset
          /\ offset' = [offset EXCEPT ![h] = @ + n]
          /\ answer' = [i \in 1 .. n |-> IF offset[h] + i - 1 < capacity
                                         THEN data[offset[h] + i - 1] ELSE GARBAGE]
          /\ UNCHANGED <<data, capacity, len, mode, overrun>>
      BY <2>2 DEF Read
    <3> HIDE DEF n
    <3>4. answer' \in Seq(Byte \cup {GARBAGE})
      BY <3>1, <3>2, <3>3, AnswerType
    <3>5. offset' \in [Handle -> 0 .. MaxOffset]
      BY <3>1, <3>2, <3>3 DEF TypeOK
    <3> QED
      BY <3>3, <3>4, <3>5 DEF TypeOK
  <2>3. ASSUME NEW h \in Handle, NEW buf \in Bufs, Write(h, buf) PROVE TypeOK'
    <3>1. SizeInv'
      BY SizeStep
    <3>2. Len(buf) \in Nat /\ offset[h] \in Nat
      BY BufLen DEF TypeOK
    <3>3. len' \in 0 .. MaxOffset /\ offset' \in [Handle -> 0 .. MaxOffset]
      BY <2>3, <3>2 DEF Write, NewLen, TypeOK
    <3>4. overrun' \in BOOLEAN
      BY <2>3, Zenon DEF Write
    <3> QED
      BY <2>3, <3>1, <3>3, <3>4 DEF Write, SizeInv, TypeOK
  <2>4. ASSUME NEW h \in Handle, NEW off \in -1 .. MaxOffset,
               NEW whence \in Whence, Lseek(h, off, whence)
        PROVE  TypeOK'
    <3> DEFINE next == SeekTarget(h, off, whence)
    <3>1. SeekTo(h, next)
      BY <2>4 DEF Lseek
    <3>2. next \in Int
      BY DEF SeekTarget, Whence, TypeOK
    <3> HIDE DEF next
    <3>3. next \in 0 .. MaxOffset
      BY <3>1, <3>2 DEF SeekTo, TypeOK
    <3> QED
      BY <3>1, <3>3 DEF SeekTo, TypeOK
  <2>5. CASE UNCHANGED vars
    BY <2>5 DEF vars, TypeOK
  <2> QED
    BY <2>1, <2>2, <2>3, <2>4, <2>5 DEF Next
<1> QED
  BY <1>1, <1>2, PTL DEF Spec

-------------------------------------------------------------------------------
(***************************************************************************)
(* "Limit to the end of the file.": of programs that do not seek past the  *)
(* end, no read() goes beyond it.                                          *)
(***************************************************************************)
THEOREM ReadTheorem == ASSUME ~ PastEnd PROVE Spec => ReadWithinFile
<1>1. SizeInv /\ WithinFile =>
        [\A h \in Handle, count \in 1 .. MaxCount :
            Read(h, count) => offset'[h] <= len \/ offset'[h] = offset[h]]_vars
  <2> SUFFICES ASSUME SizeInv, WithinFile, NEW h \in Handle,
                      NEW count \in 1 .. MaxCount, Read(h, count)
               PROVE  offset'[h] <= len
    OBVIOUS
  <2>1. offset[h] \in Nat /\ count \in Nat /\ offset[h] <= len
    BY MemFileAssumption DEF SizeInv, WithinFile
  <2>2. offset[h] + ReadCount(offset[h], count) <= len
    BY <2>1, ReadCountBound DEF SizeInv
  <2> QED
    BY <2>2 DEF Read, SizeInv
<1> QED
  BY <1>1, WithinInvariance, PTL DEF ReadWithinFile

\* Inside the file the unsigned subtraction of MemMount::Read() does not wrap.
LEMMA ReadCountExact ==
    ASSUME TypeOK, NEW off \in Nat, off <= len, NEW count \in Nat
    PROVE  ReadCount(off, count) = IF count <= len - off THEN count ELSE len - off
<1>1. len - off \in Nat /\ len - off < SizeMod /\ SizeMod \in Nat
  BY MemFileAssumption DEF TypeOK
<1>2. (len - off) % SizeMod = len - off
  BY <1>1
<1> QED
  BY <1>1, <1>2 DEF ReadCount

(***************************************************************************)
(* For programs that do not seek past the end, read(), write() and lseek() *)
(* implement ByteFile: the reallocations, capacity_ and the stale bytes    *)
(* behind len_ do not show.                                                *)
(***************************************************************************)
THEOREM FileTheorem == ASSUME ~ PastEnd PROVE Spec => ImplementsFile
<1> DEFINE content == [i \in 1 .. len |-> data[i - 1]]
<1> USE DEF File!vars
<1>1. Init => File!Init
  <2> SUFFICES ASSUME Init PROVE File!Init
    OBVIOUS
  <2>1. content = <<>>
    BY DEF Init
  <2>2. mode \in [Handle -> {"closed", "rdonly", "wronly", "rdwr"}]
    BY DEF Init
  <2> QED
    BY <2>1, <2>2 DEF Init, File!Init
<1>2. TypeOK /\ SizeInv /\ WithinFile /\ [Next]_vars => [File!Next]_(File!vars)
  <2> SUFFICES ASSUME TypeOK, SizeInv, WithinFile, [Next]_vars
               PROVE  [File!Next]_(File!vars)
    OBVIOUS
  <2>0. len \in Nat /\ Len(content) = len /\ DOMAIN content = 1 .. len
    BY DEF SizeInv
  <2>1. ASSUME NEW h \in Handle, Open(h) PROVE File!Next
    <3>1. content' = content
      BY <2>1 DEF Open
    <3>2. File!Open(h)
      BY <2>1, <3>1 DEF Open, File!Open
    <3> QED
      BY <3>2 DEF File!Next
  <2>2. ASSUME NEW h \in Handle, Close(h) PROVE File!Next
    <3>1. content' = content
      BY <2>2 DEF Close
    <3>2. File!Close(h)
      BY <2>2, <3>1 DEF Close, File!Close
    <3> QED
      BY <3>2 DEF File!Next
  <2>3. ASSUME NEW h \in Handle, NEW count \in 0 .. MaxCount, Read(h, count)
        PROVE  File!Next
    <3> DEFINE n == ReadCount(offset[h], count)
               m == File!MinOf(count, File!MaxOf(0, Len(content) - offset[h]))
    <3>1. offset[h] \in Nat /\ count \in Nat /\ offset[h] <= len
      BY MemFileAssumption DEF SizeInv, WithinFile
    <3>2. n = m /\ n \in Nat /\ offset[h] + n <= len
      BY <2>0, <3>1, ReadCountExact DEF File!MinOf, File!MaxOf
    <3>3. /\ mode[h] \in {"rdonly", "rdwr"}
          /\ answer' = [i \in 1 .. n |-> IF offset[h] + i - 1 < capacity
                                         THEN data[offset[h] + i - 1] ELSE GARBAGE]
          /\ offset' = [offset EXCEPT ![h] = @ + n]
          /\ UNCHANGED <<data, capacity, len, mode, overrun>>
      BY <2>3 DEF Read
    <3>4. content' = content
      BY <3>3
    <3> HIDE DEF n
    <3>5. SubSeq(content, offset[h] + 1, offset[h] + n)
            = [i \in 1 .. n |-> content[offset[h] + i]]
      <4>1. content \in Seq(Byte \cup {GARBAGE})
        BY <2>0 DEF SizeInv
      <4> HIDE DEF content
      <4>2. PICK a : a = offset[h]
        OBVIOUS
      <4>3. a \in Nat /\ n \in Nat /\ a + n <= Len(content)
        BY <2>0, <3>1, <3>2, <4>2
      <4>4. SubSeq(content, a + 1, a + n) = [i \in 1 .. n |-> content[a + i]]
        BY <4>1, <4>3, SubSeqIsFcn
      <4> QED
        BY <4>2, <4>4
    <3>6. ASSUME NEW i \in 1 .. n
          PROVE  /\ offset[h] + i - 1 < capacity
                 /\ content[offset[h] + i] = data[offset[h] + i - 1]
      <4>1. offset[h] + i \in 1 .. len /\ offset[h] + i - 1 < capacity
        BY <3>1, <3>2 DEF SizeInv
      <4>2. (offset[h] + i) - 1 = offset[h] + i - 1
        BY <3>1
      <4> QED
        BY <4>1, <4>2
    <3>7. answer' = SubSeq(content, offset[h] + 1, offset[h] + n)
      BY <3>3, <3>5, <3>6
    <3>8. File!Read(h, count)
      BY <3>2, <3>3, <3>4, <3>7 DEF File!Read
    <3> QED
      BY <2>3, <3>8 DEF File!Next
  <2>4. ASSUME NEW h \in Handle, NEW buf \in Bufs, Write(h, buf) PROVE File!Next
    <3> DEFINE off == offset[h]
               end == off + Len(buf)
               byte(i) == IF i \in off + 1 .. end THEN buf[i - off]
                          ELSE IF i <= len THEN content[i] ELSE 0
    <3>1. Len(buf) \in Nat /\ off \in Nat /\ end \in Nat /\ off <= len
      BY BufLen DEF SizeInv, WithinFile
    <3>2. Grown(end) \in Nat /\ Grown(end) >= end /\ Grown(end) >= capacity
      BY <3>1, GrownRoom DEF SizeInv
    <3>3. /\ mode[h] \in {"wronly", "rdwr"}
          /\ len' = NewLen(end)
          /\ offset' = [offset EXCEPT ![h] = end]
          /\ data' = [i \in 0 .. Grown(end) - 1 |->
                         IF off <= i /\ i < end THEN buf[i - off + 1]
                         ELSE IF i < capacity THEN data[i]
                         ELSE GARBAGE]
          /\ UNCHANGED <<mode, answer>>
      BY <2>4 DEF Write
    <3>4. /\ len' = File!MaxOf(len, end)
          /\ len' \in Nat /\ len' <= Grown(end)
          /\ (len' = end \/ len' = len)
      BY <3>1, <3>2, <3>3 DEF NewLen, File!MaxOf, SizeInv
    <3>5. ASSUME NEW i \in 1 .. len' PROVE data'[i - 1] = byte(i)
      <4>1. i \in Nat /\ i - 1 \in 0 .. Grown(end) - 1
        BY <3>2, <3>4
      <4>2. CASE i \in off + 1 .. end
        <5>1. off <= i - 1 /\ i - 1 < end /\ i - 1 - off + 1 = i - off
          BY <3>1, <4>1, <4>2
        <5> QED
          BY <3>3, <4>1, <4>2, <5>1
      <4>3. CASE i \notin off + 1 .. end
        <5>1. ~ (off <= i - 1 /\ i - 1 < end) /\ i \in 1 .. len /\ i - 1 < capacity
          BY <3>1, <3>4, <4>1, <4>3 DEF SizeInv
        <5>2. data'[i - 1] = data[i - 1]
          BY <3>3, <4>1, <5>1
        <5>3. byte(i) = content[i] /\ content[i] = data[i - 1]
          BY <4>3, <5>1, <2>0
        <5> QED
          BY <5>2, <5>3
      <4> QED
        BY <4>2, <4>3
    <3>6. content' = [i \in 1 .. File!MaxOf(Len(content), end) |->
                         IF i \in off + 1 .. end THEN buf[i - off]
                         ELSE IF i <= Len(content) THEN content[i] ELSE 0]
      BY <2>0, <3>4, <3>5
    <3>7. File!Write(h, buf)
      BY <3>3, <3>6 DEF File!Write
    <3>8. buf \in File!Bufs
      BY DEF Bufs, File!Bufs
    <3> QED
      BY <3>7, <3>8 DEF File!Next
  <2>5. ASSUME NEW h \in Handle, NEW off \in -1 .. MaxOffset,
               NEW whence \in Whence, Lseek(h, off, whence)
        PROVE  File!Next
    <3> DEFINE next == SeekTarget(h, off, whence)
    <3>1. SeekTo(h, next)
      BY <2>5 DEF Lseek
    <3>2. next \in Int
      BY MemFileAssumption DEF SeekTarget, Whence, TypeOK
    <3> HIDE DEF next
    <3>3. next \in 0 .. Len(content) /\ content' = content
      BY <2>0, <3>1, <3>2 DEF SeekTo
    <3>4. File!Lseek(h, next)
      BY <3>1, <3>3 DEF SeekTo, File!Lseek
    <3> QED
      BY <3>3, <3>4 DEF File!Next
  <2>6. CASE UNCHANGED vars
    BY <2>6 DEF vars
  <2> QED
    BY <2>1, <2>2, <2>3, <2>4, <2>5, <2>6 DEF Next
<1> QED
  BY <1>1, <1>2, TypeTheorem, WithinInvariance, PTL
     DEF Spec, ImplementsFile, File!Spec
===============================================================================
