------------------------------- MODULE MCFsCopy -------------------------------
(***************************************************************************)
(* Copies among a file, a directory and a file in it, any of which may be  *)
(* missing or be of the other kind.                                        *)
(***************************************************************************)
EXTENDS FsCopy

CONSTANTS a, d, inD
MCIn == [p \in Path |-> IF p = inD THEN d ELSE NoPath]
MCContents == {<<1, 2, 3>>}
=============================================================================
