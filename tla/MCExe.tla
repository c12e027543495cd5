-------------------------------- MODULE MCExe --------------------------------
(***************************************************************************)
(* The engine on the graphs of MCExeGraph.  The graphs have a module of    *)
(* their own so that TLC computes them once, before the sets of the engine *)
(* that are built from them.                                               *)
(***************************************************************************)
EXTENDS MCExeGraph, BuildFaultless

\* What the theorems about a build without faults ask of a graph holds of these.
ASSUME GraphIsWellMade == WellMade
=============================================================================
