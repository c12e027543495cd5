------------------------------- MODULE MCProgram -------------------------------
(***************************************************************************)
(* Build programs on every toolchain, on command lines that name every     *)
(* kind of option, that give options as values, and that end too early.    *)
(***************************************************************************)
EXTENDS BuildProgram

MCTables == {TableOf(t) : t \in Toolchain}
MCGiven == {<<"clean">>, <<"--help">>, <<"-cc">>, <<"-ld">>, <<"-windres">>,
            <<"-aroutflag">>, <<"-ccflagsep">>, <<"0">>, <<"x">>}
MCAtoi == [w \in MCGiven |-> 0]

\* One call more on the toolchain whose linker and archiver leave side files.
MCMaxCalls(o) == IF o.linker = <<"link.exe">> THEN 4 ELSE 3
MCManies == {[incs |-> 1, macros |-> 2, libs |-> 3, args |-> 4],
             [incs |-> 0, macros |-> 0, libs |-> 0, args |-> 0]}
MCSrcs == {File(NoPath, "main", ".c"), File(File(NoPath, "src", ""), "lib", ".c")}
MCChop == [b \in {"main", "lib"} |-> b]
=============================================================================
