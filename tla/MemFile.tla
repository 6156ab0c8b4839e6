-------------------------------- MODULE MemFile --------------------------------
(***************************************************************************)
(* The contents of one regular file of the memory mount: MemMount::Read    *)
(* and Write and MemNode::ReallocData behind KernelProxy::read, write and  *)
(* lseek, from the open() that created the file on.  Any flags but 0 make  *)
(* open() create, so every later open of the file is O_RDONLY.             *)
(***************************************************************************)
EXTENDS Integers, Sequences

CONSTANTS Handle,      \* the file handles
          Byte,        \* byte values; 0 is one
          MaxCount,    \* bound on the bytes of one call
          MaxOffset,   \* bound on offsets and on the file length
          SizeMod,     \* 2^w for the width w of size_t and off_t
          PastEnd      \* whether programs seek past the end of the file

ASSUME MemFileAssumption ==
    /\ Byte \subseteq Nat /\ 0 \in Byte
    /\ MaxCount \in Nat /\ MaxOffset \in Nat
    /\ SizeMod \in Nat /\ 2 * (MaxOffset + MaxCount) < SizeMod
    /\ PastEnd \in BOOLEAN

\* What memory that was never written holds.
GARBAGE == -1

VARIABLES data,       \* data_[0 .. capacity_ - 1]
          capacity,   \* capacity_
          len,        \* len_
          mode,       \* the access mode of each handle, or "closed"
          offset,     \* FileHandle::offset
          answer,     \* the bytes the last read() stored in its buffer
          overrun     \* some call wrote outside data_

vars == <<data, capacity, len, mode, offset, answer, overrun>>

Bufs == UNION {[1 .. n -> Byte] : n \in 0 .. MaxCount}

\* MemNode(), and the handle of the open() that created the file.
Init ==
    /\ data = [i \in {} |-> GARBAGE]
    /\ capacity = 0
    /\ len = 0
    /\ \E h \in Handle, m \in {"rdonly", "wronly", "rdwr"} :
           mode = [g \in Handle |-> IF g = h THEN m ELSE "closed"]
    /\ offset = [h \in Handle |-> 0]
    /\ answer = <<>>
    /\ overrun = FALSE

\* open(path, O_RDONLY, ..) of the existing file
Open(h) ==
    /\ mode[h] = "closed"
    /\ mode' = [mode EXCEPT ![h] = "rdonly"]
    /\ offset' = [offset EXCEPT ![h] = 0]
    /\ UNCHANGED <<data, capacity, len, answer, overrun>>

Close(h) ==
    /\ mode[h] # "closed"
    /\ mode' = [mode EXCEPT ![h] = "closed"]
    /\ UNCHANGED <<data, capacity, len, offset, answer, overrun>>

-------------------------------------------------------------------------------
\* Mutant: the length of the file does not limit the read.
ReadCount_NoLimit(off, count) == count

\* How much MemMount::Read() copies.  len() - offset is unsigned.
ReadCount(off, count) ==
    LET left == (len - off) % SizeMod
    IN  IF count > left THEN left ELSE count

\* Mutant: the offset stays where it is.
Read_KeepOffset(h, count) ==
    LET n == ReadCount(offset[h], count)
    IN  /\ mode[h] \in {"rdonly", "rdwr"}
        /\ answer' = [i \in 1 .. n |-> IF offset[h] + i - 1 < capacity
                                       THEN data[offset[h] + i - 1] ELSE GARBAGE]
        /\ UNCHANGED <<data, capacity, len, mode, offset, overrun>>

\* read(fd, buf, count)
Read(h, count) ==
    LET n == ReadCount(offset[h], count)
    IN  /\ mode[h] \in {"rdonly", "rdwr"}
        /\ offset[h] + n <= MaxOffset
        /\ answer' = [i \in 1 .. n |-> IF offset[h] + i - 1 < capacity
                                       THEN data[offset[h] + i - 1] ELSE GARBAGE]
        /\ offset' = [offset EXCEPT ![h] = @ + n]
        /\ UNCHANGED <<data, capacity, len, mode, overrun>>

\* Mutant: the buffer grows by doubling only.
Grown_Double(end) == IF end > capacity THEN (capacity + 1) * 2 ELSE capacity

\* The capacity a write that ends at `end' needs: ReallocData() at least
\* doubles it.
Grown(end) ==
    LET next == (capacity + 1) * 2
    IN  IF end <= capacity THEN capacity
        ELSE IF next > end THEN next ELSE end

\* Mutant: the length is rounded up to the capacity.
NewLen_Capacity(end) == IF end > len THEN Grown(end) ELSE len

\* set_len() when the write ends past the old end.
NewLen(end) == IF end > len THEN end ELSE len

\* Mutant: appending counts as leaving a gap.
Pads_AtEnd(off) == off >= len /\ off > 0

\* Whether Write() finds a gap to pad.  Its memset starts at data() + Grown(..)
\* and so writes behind the buffer.
Pads(off) == off > len

\* write(fd, buf, count)
Write(h, buf) ==
    LET off == offset[h]
        end == off + Len(buf)
    IN  /\ mode[h] \in {"wronly", "rdwr"}
        /\ end <= MaxOffset
        /\ capacity' = Grown(end)
        /\ data' = [i \in 0 .. Grown(end) - 1 |->
                       IF off <= i /\ i < end THEN buf[i - off + 1]
                       ELSE IF i < capacity THEN data[i]
                       ELSE GARBAGE]
        /\ overrun' = (overrun \/ Pads(off) \/ end > Grown(end))
        /\ len' = NewLen(end)
        /\ offset' = [offset EXCEPT ![h] = end]
        /\ UNCHANGED <<mode, answer>>

\* Mutant: seeking before the front of the file is not refused.
SeekTo_NoCheck(h, next) ==
    /\ mode[h] # "closed"
    /\ next >= -1
    /\ next <= (IF PastEnd THEN MaxOffset ELSE len)
    /\ offset' = [offset EXCEPT ![h] = next]
    /\ UNCHANGED <<data, capacity, len, mode, answer, overrun>>

\* The end of lseek(): a negative offset is EINVAL and changes nothing.
SeekTo(h, next) ==
    /\ mode[h] # "closed"
    /\ next >= 0
    /\ next <= (IF PastEnd THEN MaxOffset ELSE len)
    /\ offset' = [offset EXCEPT ![h] = next]
    /\ UNCHANGED <<data, capacity, len, mode, answer, overrun>>

\* Where lseek() is to go.  SEEK_END counts backwards: len - off.
Whence == {"SEEK_SET", "SEEK_CUR", "SEEK_END"}
SeekTarget(h, off, whence) == CASE whence = "SEEK_SET" -> off
                                [] whence = "SEEK_CUR" -> offset[h] + off
                                [] whence = "SEEK_END" -> len - off

\* lseek(fd, off, whence)
Lseek(h, off, whence) == SeekTo(h, SeekTarget(h, off, whence))

Next ==
    \E h \in Handle :
        \/ Open(h) \/ Close(h)
        \/ \E count \in 0 .. MaxCount : Read(h, count)
        \/ \E buf \in Bufs : Write(h, buf)
        \/ \E off \in -1 .. MaxOffset, whence \in Whence : Lseek(h, off, whence)

Spec == Init /\ [][Next]_vars

-------------------------------------------------------------------------------
\* data_ is exactly capacity_ bytes, and no offset lseek() or write() leaves
\* behind is negative.
TypeOK ==
    /\ capacity \in Nat
    /\ data \in [0 .. capacity - 1 -> Byte \cup {GARBAGE}]
    /\ len \in 0 .. MaxOffset
    /\ mode \in [Handle -> {"closed", "rdonly", "wronly", "rdwr"}]
    /\ offset \in [Handle -> 0 .. MaxOffset]
    /\ answer \in Seq(Byte \cup {GARBAGE})
    /\ overrun \in BOOLEAN

(***************************************************************************)
(* The file never claims more bytes than data_ has room for, whatever      *)
(* program seeks and writes: the growth rule of Write() is enough.         *)
(***************************************************************************)
LenWithinCapacity == len <= capacity

(***************************************************************************)
(* No call writes outside data_.                                           *)
(***************************************************************************)
NoOverrun == ~ overrun

(***************************************************************************)
(* "Pad any gap with zeros.": every byte of the file was written or is     *)
(* zero; none is left over from the allocator.                             *)
(***************************************************************************)
NoGarbageInFile == \A i \in 0 .. len - 1 : data[i] # GARBAGE

(***************************************************************************)
(* "Limit to the end of the file.": a read() that returns bytes returns    *)
(* only bytes of the file.                                                 *)
(***************************************************************************)
ReadWithinFile ==
    [][\A h \in Handle, count \in 1 .. MaxCount :
          Read(h, count) => offset'[h] <= len \/ offset'[h] = offset[h]]_vars

File == INSTANCE ByteFile
            WITH content <- [i \in 1 .. len |-> data[i - 1]],
                 pos <- offset

(***************************************************************************)
(* As long as programs do not seek past the end, read(), write() and       *)
(* lseek() implement ByteFile: what was written is read back, through any  *)
(* handle, across every reallocation.                                      *)
(***************************************************************************)
ImplementsFile == File!Spec
===============================================================================
