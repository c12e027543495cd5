-------------------------------- MODULE MCPaths --------------------------------
(***************************************************************************)
(* All pairs of paths up to a length, each made one character at a time,   *)
(* and what the functions of path.h say of them against what a path means. *)
(* The name of a library is a path and an extension.                       *)
(***************************************************************************)
EXTENDS Paths, Dl

CONSTANTS Letter, MaxLen, MaxTotal

VARIABLES path1, path2

Init == path1 = <<>> /\ path2 = <<>>
Next == Len(path1) + Len(path2) < MaxTotal /\ \E c \in Letter :
    \/ path1' = Append(path1, c) /\ Len(path1) < MaxLen /\ UNCHANGED path2
    \/ path2' = Append(path2, c) /\ Len(path2) < MaxLen /\ UNCHANGED path1
Spec == Init /\ [][Next]_<<path1, path2>>

\* The directory the parts of a relative path lead to: the names that are left
\* when those that are gone up from are taken away.
Resolve(parts) ==
    LET Go(at, part) ==
            CASE part = Dot -> at
              [] part = DotDot /\ at # <<>> /\ at[Len(at)] # DotDot -> Front(at)
              [] OTHER -> Append(at, part)
    IN  FoldLeft(Go, <<>>, parts)

Relative(path) == path # <<>> /\ ~ aven_path_is_abs(path)

\* The parts of a joined path are those of its arguments: none is lost, and no
\* two run together, whether an argument is empty or ends in a separator.
PathConcatenates ==
    Parts(aven_path(<<path1, path2, path1>>)) =
        Parts(path1) \o Parts(path2) \o Parts(path1)

\* The name of a file before its extension survives aven_path_fname, although
\* the last character does not: aven_build_common_step_cc_ex relies on it.
StemKept == Relative(path1) /\ path1[Len(path1)] # Sep =>
    LET name == aven_str_split(Parts(path1)[Len(Parts(path1))], ".")
        cut  == aven_str_split(aven_path_fname(path1), ".")
    IN  Len(name) > 1 => Head(cut) = Head(name)

\* A relative path is its directory followed by its last part.
DirThenName == Relative(path1) /\ path1[Len(path1)] # Sep =>
    Resolve(Parts(aven_path_rel_dir(path1)) \o <<Last(Parts(path1))>>)
        = Resolve(Parts(path1))

\* Where the second path goes on after what the two have in common.
Beyond == LET parts1 == WithoutDot(Parts(path1))
              parts2 == WithoutDot(Parts(path2))
          IN  SubSeq(parts2, Same(parts1, parts2) + 1, Len(parts2))
Comparable == Relative(path1) /\ Relative(path2) /\ Range(Beyond) \cap {Dot, DotDot} = {}

\* Followed from the second path, the difference leads to the first, if no part
\* has to be gone up from that is not a name.
DiffLeads == Comparable =>
    Resolve(Parts(path2) \o Parts(aven_path_rel_diff(path1, path2)))
        = Resolve(Parts(path1))

\* The difference goes up from the second path to the intersection, which is
\* computed apart from it.
DiffMeetsIntersect ==
    Comparable /\ Dot \notin {Head(Parts(path1)), Head(Parts(path2))} =>
        Resolve(Parts(path2) \o Climb(Parts(path2), Same(Parts(path1), Parts(path2))))
            = Resolve(Parts(aven_path_rel_intersect(path1, path2)))

\* Memory for what is joined, and the array of the parts of a difference, are
\* allocated with lengths counted apart from the loops that fill them (lines
\* 135-146 of str.h and 234 of path.h): each is filled exactly.
JoinFits(strs) == JoinLen(strs) = Len(aven_path(strs))
CountedAsFilled ==
    /\ JoinFits(<<path1, path2, path1>>)
    /\ Relative(path1) /\ Relative(path2) =>
        LET parts1 == WithoutDot(Parts(path1))
            parts2 == WithoutDot(Parts(path2))
            n == Same(parts1, parts2)
        IN  /\ DiffLen(parts1, parts2, n) = Len(DiffParts(parts1, parts2, n))
            /\ JoinFits(DiffParts(parts1, parts2, n))

\* The table of options on Windows; the compiler does not matter here.
Table == INSTANCE Options WITH Win <- TRUE, Cc <- "msvc", Custom <- {}

\* The characters of the last extension the table has for shared libraries.
Characters(ext) == CASE ext = "_aven_dl_loaded.dll" -> <<"_aven_dl_loaded", ".", "d", "l", "l">>
LoadedExt == Characters(Table!SoExts[Len(Table!SoExts)])

\* What aven_dl_open leaves beside a library is what the table of options
\* names for it, so that the linking step of the library cleans it: the name
\* of the library and the last extension of -soext.
LoadedIsCleaned == path1 # <<>> =>
    aven_dl_open(path1 \o <<".", "d", "l", "l">>) = path1 \o LoadedExt
=============================================================================
