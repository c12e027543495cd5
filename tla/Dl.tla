----------------------------------- MODULE Dl -----------------------------------
(***************************************************************************)
(* aven_dl_open of include/aven/dl.h on Windows, where a library that is   *)
(* loaded cannot be written: a copy of it is made and loaded, so that the  *)
(* library can be built again meanwhile.                                   *)
(***************************************************************************)
EXTENDS Integers, Sequences, FiniteSetsExt

Loaded == <<"_aven_dl_loaded", ".", "d", "l", "l">>

\* The dots that may begin the extension.  One that is the first character
\* does not.
Dots(fname) == {i \in 2..Len(fname) : fname[i] = "."}

\* Mutant of Stem: what comes after the first dot is cut off.
StemToFirst(fname) == SubSeq(fname, 1, Min(Dots(fname)) - 1)
Stem(fname) == SubSeq(fname, 1, Max(Dots(fname)) - 1)

\* The name of the copy that is loaded, or none: no library is then opened.
aven_dl_open(fname) ==
    IF Len(fname) < 5 \/ Dots(fname) = {} THEN <<>> ELSE Stem(fname) \o Loaded
=============================================================================
