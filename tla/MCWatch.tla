------------------------------- MODULE MCWatch -------------------------------
(***************************************************************************)
(* Three directories.  On Linux d1 is in every check.                      *)
(***************************************************************************)
EXTENDS WatchUse

CONSTANTS d1, d2, d3
WithD1 == {<<d1>>, <<d2, d1>>, <<d1, d3>>, <<d2, d1, d3>>}
AtOnce == {<<d2, d1, d3>>}
MCLists == WithD1 \cup OneByOne

TogetherSpec == UseInit /\ os = "together" /\ [][UseNext]_<<vars, os>> /\ Fairness
=============================================================================
