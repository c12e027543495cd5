--------------------------------- MODULE Paths ---------------------------------
(***************************************************************************)
(* Paths as include/aven/str.h and include/aven/path.h take them apart and *)
(* put them together, on POSIX.  A string is a sequence of characters.     *)
(***************************************************************************)
EXTENDS Integers, Sequences, SequencesExt

Sep == "/"
Dot == <<".">>
DotDot == <<".", ".">>

\* The end of the string ends its last word.
aven_str_split(str, sep) ==
    LET Char(a, c) ==
            IF c # sep THEN [a EXCEPT !.word = Append(@, c)]
            ELSE [word |-> <<>>,
                  words |-> IF a.word = <<>> THEN a.words ELSE Append(a.words, a.word)]
    IN  FoldLeft(Char, [word |-> <<>>, words |-> <<>>], Append(str, sep)).words

\* Mutant of aven_str_join: an empty string ends what is joined.
JoinToEmpty(strs, sep) ==
    LET Joined == {i \in DOMAIN strs : \A j \in 1..i : strs[j] # <<>>}
    IN  FlattenSeq([i \in 1..Cardinality(Joined) |->
            strs[i] \o IF i < Len(strs) THEN <<sep>> ELSE <<>>])
aven_str_join(strs, sep) ==
    FlattenSeq([i \in DOMAIN strs |->
        IF strs[i] = <<>> THEN <<>>
        ELSE strs[i] \o IF i < Len(strs) THEN <<sep>> ELSE <<>>])

\* Mutant of Slots: a separator is counted between two strings that are there.
SlotsBetween(strs, i) ==
    IF strs[i] = <<>> THEN 0
    ELSE Len(strs[i]) + IF i < Len(strs) /\ strs[i + 1] # <<>> THEN 1 ELSE 0
Slots(strs, i) ==
    IF strs[i] = <<>> THEN 0 ELSE Len(strs[i]) + IF i < Len(strs) THEN 1 ELSE 0
\* The length aven_str_join allocates, counted before anything is joined.
JoinLen(strs) ==
    LET len[i \in 0..Len(strs)] == IF i = 0 THEN 0 ELSE len[i - 1] + Slots(strs, i)
    IN  len[Len(strs)]

aven_path(strs) == aven_str_join(strs, Sep)
Parts(path) == aven_str_split(path, Sep)

aven_path_is_abs(path) == path[1] = Sep

\* The characters up to the last separator.
Upto(path) ==
    LET seps == {i \in DOMAIN path : path[i] = Sep}
    IN  IF seps = {} THEN 0 ELSE CHOOSE i \in seps : \A j \in seps : j <= i

\* Mutant of aven_path_fname: the cut is one character too far.
FnameShort(path) ==
    LET i == Upto(path)
    IN  IF i \in {0, Len(path)} THEN IF i = 0 THEN path ELSE <<>>
        ELSE Append(SubSeq(path, i + 2, Len(path) - 1), "NUL")
\* The terminating zero overwrites the last character of a name that is cut.
aven_path_fname(path) ==
    LET i == Upto(path)
    IN  IF i \in {0, Len(path)} THEN IF i = 0 THEN path ELSE <<>>
        ELSE Append(SubSeq(path, i + 1, Len(path) - 1), "NUL")

\* Mutant of aven_path_rel_dir: it keeps the separator, and loses it again.
DirTooShort(path) ==
    LET i == Upto(path)
    IN  CASE i = 0 -> Dot [] i = Len(path) -> path
          [] OTHER -> SubSeq(path, 1, i - 2)
aven_path_rel_dir(path) ==
    LET i == Upto(path)
    IN  CASE i = 0 -> Dot [] i = Len(path) -> path
          [] OTHER -> SubSeq(path, 1, i - 1)

\* How many parts two paths have in common before they part.
Same(parts1, parts2) ==
    CHOOSE n \in 0..Len(parts1) :
        /\ n <= Len(parts2) /\ \A i \in 1..n : parts1[i] = parts2[i]
        /\ n = Len(parts1) \/ n = Len(parts2) \/ parts1[n + 1] # parts2[n + 1]

\* Mutant of aven_path_rel_intersect: the last part in common is left out.
IntersectOneLess(path1, path2) ==
    IF path1 = <<>> \/ path2 = <<>> \/ path1[1] # path2[1] THEN <<>>
    ELSE aven_path(SubSeq(Parts(path1), 1, Same(Parts(path1), Parts(path2)) - 1))
aven_path_rel_intersect(path1, path2) ==
    IF path1 = <<>> \/ path2 = <<>> \/ path1[1] # path2[1] THEN <<>>
    ELSE aven_path(SubSeq(Parts(path1), 1, Same(Parts(path1), Parts(path2))))

WithoutDot(parts) == IF parts # <<>> /\ Head(parts) = Dot THEN Tail(parts) ELSE parts

\* Mutant of Climb: one level more.
ClimbOneMore(parts2, n) == [i \in 1..(Len(parts2) - n + 1) |-> DotDot]
\* One level up for every part of the second path that is left.
Climb(parts2, n) == [i \in 1..(Len(parts2) - n) |-> DotDot]

\* The array of the parts of a difference: its length, and what fills it.
DiffLen(parts1, parts2, n) == 1 + Len(parts1) + Len(parts2) - 2 * n
DiffParts(parts1, parts2, n) ==
    <<Dot>> \o Climb(parts2, n) \o SubSeq(parts1, n + 1, Len(parts1))

\* Asserts that both paths are relative, and not empty.
aven_path_rel_diff(path1, path2) ==
    LET parts1 == WithoutDot(Parts(path1))
        parts2 == WithoutDot(Parts(path2))
    IN  aven_path(DiffParts(parts1, parts2, Same(parts1, parts2)))
=============================================================================
