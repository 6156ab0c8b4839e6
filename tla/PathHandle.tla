------------------------------ MODULE PathHandle ------------------------------
(***************************************************************************)
(* base/PathHandle.cc.  How mounts are found depends on the characters of  *)
(* a path (a prefix of a name, a doubled slash), so a string here is a     *)
(* sequence of characters, "/" and "." among them, and a component a       *)
(* sequence without "/".  A PathHandle is the record of its two fields.    *)
(***************************************************************************)
EXTENDS Integers, SequencesExt

Slash == <<"/">>
SlashDotDot == <<"/", ".", ".">>

IsDot(c) == c = <<".">>
IsDotDot(c) == c = <<".", ".">>
IsAbsolute(s) == s # <<>> /\ s[1] = "/"

\* Mutant: two slashes in a row, or one at the front, make an empty component.
Split_KeepEmpty(s) ==
    LET From[ind \in 1 .. Len(s) + 1] ==
            LET next == {j \in ind .. Len(s) : s[j] = "/"}
            IN  IF ind > Len(s) THEN <<>>
                ELSE IF next = {} THEN <<SubSeq(s, ind, Len(s))>>
                ELSE <<SubSeq(s, ind, Min(next) - 1)>> \o From[Min(next) + 1]
    IN  From[1]

\* Split(path, '/'): From[ind] is the loop started at ind.
Split(s) ==
    LET From[ind \in 1 .. Len(s) + 1] ==
            LET next == {j \in ind .. Len(s) : s[j] = "/"}
            IN  IF ind > Len(s) THEN <<>>
                ELSE IF next = {} THEN <<SubSeq(s, ind, Len(s))>>
                ELSE IF Min(next) = ind THEN From[ind + 1]
                ELSE <<SubSeq(s, ind, Min(next) - 1)>> \o From[Min(next) + 1]
    IN  From[1]

\* Mutant: ".." is dropped without the component before it.
PathCollapse_KeepPrevious(path) ==
    SelectSeq(path, LAMBDA c : ~ IsDot(c) /\ ~ IsDotDot(c))

\* One round of PathCollapse().  Split() never makes the component "/".
Push(new_path, curr) ==
    IF IsDot(curr) THEN new_path
    ELSE IF ~ IsDotDot(curr) THEN Append(new_path, curr)
    ELSE IF new_path = <<>> THEN new_path
    ELSE Front(new_path)

\* PathCollapse(): New[i] is new_path_ after i rounds.
PathCollapse(path) ==
    LET New[i \in 0 .. Len(path)] ==
            IF i = 0 THEN <<>> ELSE Push(New[i - 1], path[i])
    IN  New[Len(path)]

\* PathHandle(path), SetPath(path) and AppendPath(path): only the constructor
\* collapses.
NewPathHandle(s) == [path |-> PathCollapse(Split(s)), is_absolute |-> IsAbsolute(s)]
SetPath(s) == [path |-> Split(s), is_absolute |-> IsAbsolute(s)]
AppendPath(ph, s) == [ph EXCEPT !.path = @ \o Split(s)]

\* FormulateRawPath(): every component with a slash behind it, the last slash
\* cut off.
FormulateRawPath(ph) ==
    LET Spell[i \in 0 .. Len(ph.path)] ==
            IF i = 0 THEN IF ph.is_absolute THEN Slash ELSE <<>>
            ELSE Spell[i - 1] \o ph.path[i] \o Slash
        s == Spell[Len(ph.path)]
    IN  IF Len(s) <= 1 THEN s ELSE Front(s)

\* FormulatePath() collapses the handle in place and returns the string.
Collapsed(ph) == [ph EXCEPT !.path = PathCollapse(@)]
FormulatePath(ph) == FormulateRawPath(Collapsed(ph))

-------------------------------------------------------------------------------
(* What the functions above are to compute, stated without their loops.    *)

\* The members of a finite set of positions in order: the k-th has k - 1 before
\* it.
InOrder(S) ==
    [k \in 1 .. Cardinality(S) |->
        CHOOSE i \in S : Cardinality({j \in S : j < i}) = k - 1]

\* The maximal runs without a slash.
Runs(s) ==
    LET starts == {i \in 1 .. Len(s) : s[i] # "/" /\ (i > 1 => s[i - 1] = "/")}
        last(i) == CHOOSE j \in i .. Len(s) :
                       /\ \A k \in i .. j : s[k] # "/"
                       /\ j < Len(s) => s[j + 1] = "/"
        order == InOrder(starts)
    IN  [k \in 1 .. Len(order) |-> SubSeq(s, order[k], last(order[k]))]

\* The names that survive lexical resolution: a name is lost when, at some
\* point behind it, more ".." than names have followed.
Lexical(path) ==
    LET names == {i \in DOMAIN path : ~ IsDot(path[i]) /\ ~ IsDotDot(path[i])}
        ups == {i \in DOMAIN path : IsDotDot(path[i])}
        lost(i) == \E j \in i .. Len(path) :
                       Cardinality(ups \cap (i + 1 .. j)) >
                           Cardinality(names \cap (i + 1 .. j))
        order == InOrder({i \in names : ~ lost(i)})
    IN  [k \in 1 .. Len(order) |-> path[order[k]]]

\* Whether a path climbs above the place it starts from.
Climbs(path) ==
    LET names == {i \in DOMAIN path : ~ IsDot(path[i]) /\ ~ IsDotDot(path[i])}
        ups == {i \in DOMAIN path : IsDotDot(path[i])}
    IN  \E j \in DOMAIN path : Cardinality(ups \cap (1 .. j)) >
                                   Cardinality(names \cap (1 .. j))
===============================================================================
