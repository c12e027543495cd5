------------------------------ MODULE OptionReader ------------------------------
(***************************************************************************)
(* aven_build_common_opts of include/aven/build/common.h: what it reads    *)
(* from a table of options, and what it makes of it.                       *)
(***************************************************************************)
EXTENDS ArgTable

Flags == {"-ccincflag", "-ccdefflag", "-ccobjflag", "-ccoutflag", "-ccflags", "-ldoutflag",
          "-ldlibflag", "-ldwinflag", "-ldshrflag", "-ldflags", "-arflags",
          "-obext", "-exext", "-soext", "-arext", "-wrext"}

\* Mutant of OptionalReads: the archiver's flag is read without a test.
OptionalReadsUntested(t) ==
    {"-aroutflag"} \cup (IF aven_arg_has_arg(t, "-ld") THEN {"-ld"} ELSE {}) \cup
    IF aven_arg_has_arg(t, "-windres")
    THEN {"-windres", "-windresflags", "-windresoutflag"} ELSE {}
OptionalReads(t) ==
    {o \in {"-ld", "-aroutflag"} : aven_arg_has_arg(t, o)} \cup
    IF aven_arg_has_arg(t, "-windres")
    THEN {"-windres", "-windresflags", "-windresoutflag"} ELSE {}

\* The options it reads, each with an accessor that asserts its type.
OptionsRead(t) ==
    [BOOL   |-> {"test", "clean"},
     INT    |-> {"-ccflagsep", "-ldflagsep", "-arflagsep"},
     STRING |-> {"-cc", "-ar"} \cup Flags \cup OptionalReads(t)]

\* What the constructors of common.h need of the result.
aven_build_common_opts(t) ==
    [compiler |-> Data(t, "-cc"),
     linker |-> IF aven_arg_has_arg(t, "-ld") THEN Data(t, "-ld") ELSE Data(t, "-cc"),
     ccflags |-> Len(Data(t, "-ccflags")), ccsep |-> Data(t, "-ccflagsep"),
     ldflags |-> Len(Data(t, "-ldflags")), ldsep |-> Data(t, "-ldflagsep"),
     winflag |-> Data(t, "-ldwinflag") # <<>>,
     arflags |-> Len(Data(t, "-arflags")), arsep |-> Data(t, "-arflagsep"),
     aroutflag |-> aven_arg_has_arg(t, "-aroutflag") /\ Data(t, "-aroutflag") # <<>>,
     windres |-> aven_arg_has_arg(t, "-windres"),
     wrflags |-> Len(Data(t, "-windresflags")),
     obexts |-> Data(t, "-obext"), exexts |-> Data(t, "-exext"),
     soexts |-> Data(t, "-soext"), arexts |-> Data(t, "-arext"),
     wrexts |-> Data(t, "-wrext")]

\* A table for this reader: what it reads without a test is demanded, and
\* every option has the type that its accessor asserts.
HasType(t, name, type) == Places(t, name) # {} => aven_arg_get(t, name).type = type
Demands(t, name, type) ==
    Places(t, name) # {} /\ HasType(t, name, type) /\ ~ aven_arg_get(t, name).optional
Serves(t) ==
    /\ \A name \in {"test", "clean"} : Demands(t, name, "BOOL")
    /\ \A name \in {"-ccflagsep", "-ldflagsep", "-arflagsep"} : Demands(t, name, "INT")
    /\ \A name \in Flags \cup {"-cc", "-ar", "-windresflags", "-windresoutflag"} :
          Demands(t, name, "STRING")
    /\ \A name \in {"-ld", "-aroutflag", "-windres"} : HasType(t, name, "STRING")
=============================================================================
