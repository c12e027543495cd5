------------------------------ MODULE MCExeGraph ------------------------------
(***************************************************************************)
(* The graphs main of build.c makes, written out, and that they are what   *)
(* BuildMain makes.  On POSIX, both that of the library and that of the    *)
(* tests, and a root a client adds; on Windows, with a toolchain whose     *)
(* linker leaves a side file, that of the tests, with its resource file.   *)
(***************************************************************************)
EXTENDS Integers, Sequences

CONSTANTS OnWindows, Nowhere

Row(type, dep, out, arg, reads, writes) ==
    [type |-> type, dep |-> dep, out |-> out, arg |-> arg,
     reads |-> reads, writes |-> writes]
File(dir, base, ext) == [in |-> dir, base |-> base, ext |-> ext]

Lib == File(Nowhere, "build_out", "")
LibObj == File(Lib, "aven", ".o")
Test == File(Nowhere, "build_test", "")
TestObj == File(Test, "test", ".o")
TestExe == File(Test, "test", IF OnWindows THEN ".exe" ELSE "")
TestPdb == File(Test, "test", ".pdb")
Manifest == File(Test, "manifest", ".o")
Dist == File(Nowhere, "build_dist", "")
Tmp == File(Dist, "tmp", "")
Stamp == File(Dist, "stamp", "")
DistExe == File(Dist, "test", "")

WindowsGraph ==
    <<Row("MKDIR", <<>>,        Test,     Nowhere, {},                  {}),
      Row("CMD",   <<1>>,       Manifest, Nowhere, {},                  {Manifest}),
      Row("CMD",   <<1>>,       TestObj,  Nowhere, {},                  {TestObj}),
      Row("PATH",  <<1>>,       TestPdb,  Nowhere, {},                  {}),
      Row("CMD",   <<4, 1, 2, 3>>, Nowhere, Nowhere, {TestObj, Manifest}, {TestExe, TestPdb}),
      Row("RM",    <<5>>,       TestExe,  TestObj, {},                  {}),
      Row("CMD",   <<6>>,       Nowhere,  Nowhere, {TestExe},           {}),
      Row("ROOT",  <<7>>,       Nowhere,  Nowhere, {},                  {})>>

\* The last six are the client's: a copy of the program of the tests, an empty
\* file, and a directory that is made and removed.
PosixGraph ==
    <<Row("MKDIR", <<>>,           Lib,     Nowhere, {},        {}),
      Row("CMD",   <<1>>,          LibObj,  Nowhere, {},        {LibObj}),
      Row("ROOT",  <<2>>,          Nowhere, Nowhere, {},        {}),
      Row("MKDIR", <<>>,           Test,    Nowhere, {},        {}),
      Row("CMD",   <<4>>,          TestObj, Nowhere, {},        {TestObj}),
      Row("CMD",   <<4, 5>>,       Nowhere, Nowhere, {TestObj}, {TestExe}),
      Row("RM",    <<6>>,          TestExe, TestObj, {},        {}),
      Row("CMD",   <<7>>,          Nowhere, Nowhere, {TestExe}, {}),
      Row("ROOT",  <<8>>,          Nowhere, Nowhere, {},        {}),
      Row("MKDIR", <<>>,           Dist,    Nowhere, {},        {}),
      Row("MKDIR", <<10>>,         Tmp,     Nowhere, {},        {}),
      Row("RMDIR", <<11>>,         Nowhere, Tmp,     {},        {}),
      Row("TRUNC", <<10>>,         Stamp,   Nowhere, {},        {}),
      Row("COPY",  <<7, 10>>,      DistExe, TestExe, {TestExe}, {}),
      Row("ROOT",  <<14, 13, 12>>, Nowhere, Nowhere, {},        {})>>

Graph == IF OnWindows THEN WindowsGraph ELSE PosixGraph

MCStep == 1..Len(Graph)
MCType == [s \in MCStep |-> Graph[s].type]
MCDep == [s \in MCStep |-> Graph[s].dep]
MCOut == [s \in MCStep |-> Graph[s].out]
MCArg == [s \in MCStep |-> Graph[s].arg]
MCReads == [s \in MCStep |-> Graph[s].reads]
MCWrites == [s \in MCStep |-> Graph[s].writes]
MCPath == UNION {{MCOut[s], MCArg[s]} : s \in MCStep} \ {Nowhere}
MCIn == [p \in MCPath |-> p.in]
MCRoots == {s \in MCStep : MCType[s] = "ROOT"}
-----------------------------------------------------------------------------
MCOpts == [ccflags |-> 0, ccsep |-> 1, ldflags |-> 0, ldsep |-> 1, winflag |-> FALSE,
           arflags |-> 1, arsep |-> 1, aroutflag |-> FALSE, wrflags |-> 0,
           obexts |-> <<".o">>,
           exexts |-> IF OnWindows THEN <<".exe", ".pdb">> ELSE <<>>,
           soexts |-> <<".dll">>, arexts |-> <<".a">>, wrexts |-> <<".o">>]

M == INSTANCE BuildMain WITH Windows <- OnWindows, NoPath <- Nowhere, Opts <- MCOpts, Chop <- <<>>

Written(g) == [s \in 1..Len(g) |->
    Row(g[s].type, g[s].dep, g[s].out, g[s].arg, M!Inputs(g, s),
        IF g[s].type = "CMD" THEN M!Products(g, s) ELSE {})]

ASSUME GraphIsMade ==
    IF OnWindows THEN WindowsGraph = Written(M!TestGraph(<<>>))
               ELSE SubSeq(PosixGraph, 1, M!test_root_step) = Written(M!MainGraph)
=============================================================================
