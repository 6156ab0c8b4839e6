------------------------------- MODULE ByteFile -------------------------------
(***************************************************************************)
(* What read(), write() and lseek() promise about one regular file: its    *)
(* content is a sequence of bytes, every descriptor has a position of its  *)
(* own, a read returns the bytes at the position up to the end of the file *)
(* and a write replaces bytes there and extends the file, with zeros       *)
(* between the old end and the position.                                   *)
(***************************************************************************)
EXTENDS Integers, Sequences

CONSTANTS Handle, Byte, MaxCount

VARIABLES content, mode, pos, answer

vars == <<content, mode, pos, answer>>

Bufs == UNION {[1 .. n -> Byte] : n \in 0 .. MaxCount}

MinOf(a, b) == IF a <= b THEN a ELSE b
MaxOf(a, b) == IF a >= b THEN a ELSE b

Init == /\ content = <<>>
        /\ mode \in [Handle -> {"closed", "rdonly", "wronly", "rdwr"}]
        /\ pos = [h \in Handle |-> 0]
        /\ answer = <<>>

Open(h) ==
    /\ mode[h] = "closed"
    /\ mode' = [mode EXCEPT ![h] = "rdonly"]
    /\ pos' = [pos EXCEPT ![h] = 0]
    /\ UNCHANGED <<content, answer>>

Close(h) ==
    /\ mode' = [mode EXCEPT ![h] = "closed"]
    /\ UNCHANGED <<content, pos, answer>>

\* The bytes from the position on, at most count of them.
Read(h, count) ==
    LET n == MinOf(count, MaxOf(0, Len(content) - pos[h]))
    IN  /\ mode[h] \in {"rdonly", "rdwr"}
        /\ answer' = SubSeq(content, pos[h] + 1, pos[h] + n)
        /\ pos' = [pos EXCEPT ![h] = @ + n]
        /\ UNCHANGED <<content, mode>>

Write(h, buf) ==
    LET first == pos[h] + 1
        last == pos[h] + Len(buf)
    IN  /\ mode[h] \in {"wronly", "rdwr"}
        /\ content' = [i \in 1 .. MaxOf(Len(content), last) |->
                          IF i \in first .. last THEN buf[i - pos[h]]
                          ELSE IF i <= Len(content) THEN content[i]
                          ELSE 0]
        /\ pos' = [pos EXCEPT ![h] = last]
        /\ UNCHANGED <<mode, answer>>

Lseek(h, next) ==
    /\ next >= 0
    /\ pos' = [pos EXCEPT ![h] = next]
    /\ UNCHANGED <<content, mode, answer>>

Next ==
    \E h \in Handle :
        \/ Open(h) \/ Close(h)
        \/ \E count \in 0 .. MaxCount : Read(h, count)
        \/ \E buf \in Bufs : Write(h, buf)
        \/ \E next \in 0 .. Len(content) : Lseek(h, next)

Spec == Init /\ [][Next]_vars
===============================================================================
