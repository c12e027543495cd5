-------------------------------- MODULE Options --------------------------------
(***************************************************************************)
(* The options of the build program: the table aven_build_common_args of   *)
(* include/aven/build/common.h and its defaults on a toolchain.  A string  *)
(* is the sequence of its words.                                           *)
(***************************************************************************)
EXTENDS ArgTable

CONSTANTS
    Win,        \* _WIN32 is defined
    Cc,         \* the compiler that built the program
    Custom      \* the macros config.h defines, each as the option it is named for

Msc == Win /\ Cc \in {"clangcl", "msvc"}     \* _MSC_VER
Msvc == Win /\ Cc = "msvc"                   \* and not __clang__

\* The default of an option is tested by one macro and taken from another: for
\* -wrext both are those of -arext, and those of four flags are taken from
\* macros that nothing declares unless config.h does.
Tested(name) == IF name = "-wrext" THEN "-arext" ELSE name
Used(name) ==
    CASE name = "-wrext" -> "-arext"
      [] name = "-ccincflag" -> "-ccincflagext"
      [] name = "-ccdefflag" -> "-ccdefflagext"
      [] name = "-ccobjflag" -> "-cobjflagext"
      [] name = "-ccoutflag" -> "-coutflagext"
      [] OTHER -> name

\* What config.h gives the macro.  A program whose table uses a macro that is
\* not declared does not compile.
Own(macro) == IF macro \in Custom THEN <<"custom", macro>> ELSE <<"undeclared", macro>>

Bool(name) == [name |-> name, optional |-> FALSE, type |-> "BOOL",
               value |-> Value("BOOL", FALSE)]
Typed(type, name, data) ==
    [name |-> name, optional |-> FALSE, type |-> type,
     value |-> Value(type, data)]
Str(name, data) ==
    Typed("STRING", name, IF Tested(name) \in Custom THEN Own(Used(name)) ELSE data)
\* Required on some toolchains only.  Elsewhere its value has type 0, BOOL.
StrOrNone(name, there, data) ==
    IF there \/ name \in Custom THEN Str(name, data)
    ELSE [name |-> name, optional |-> TRUE, type |-> "STRING",
          value |-> Value("BOOL", FALSE)]

Exe(name) == IF Win THEN <<name \o ".exe">> ELSE <<name>>
Pick(gnu, clang, msvc, tcc) ==
    CASE Cc = "gnu" -> gnu [] Cc \in {"clang", "clangcl"} -> clang
      [] Cc = "msvc" -> msvc [] Cc = "tcc" -> tcc

ToolArgs ==
    <<Bool("test"), Bool("clean"),
      Str("-cc", Exe(Pick("gcc", "clang", "cl", "tcc"))),
      StrOrNone("-ld", Msvc, <<"link.exe">>),
      Str("-ar", Exe(Pick("ar", "llvm-ar", "lib", "tcc"))),
      StrOrNone("-windres", Win,
          IF Cc = "tcc" THEN <<>> ELSE Exe(Pick("windres", "llvm-windres", "rc", "")))>>

FlagArgs ==
    <<Str("-ccflags", CASE Msvc -> <<"/std:c11">> [] Msc /\ ~ Msvc -> <<"-std=c11">>
                        [] Cc = "tcc" -> <<"-D__BIGGEST_ALIGNMENT__=16">>
                        [] OTHER -> <<>>),
      Str("-ldflags", <<>>),
      Str("-arflags", CASE Msvc -> <<>> [] Cc = "tcc" -> <<"-ar", "-rcs">>
                        [] OTHER -> <<"-rcs">>),
      Str("-windresflags", <<>>)>>

SoExts == IF Win THEN <<".dll", ".lib", ".pdb", ".exp", "_aven_dl_loaded.dll">> ELSE <<".so">>

ExtArgs ==
    <<Str("-obext", IF Msc THEN <<".obj", ".exp", ".pdb">> ELSE <<".o">>),
      Str("-exext", IF Win THEN <<".exe", ".pdb", ".lib", ".exp">> ELSE <<>>),
      Str("-soext", SoExts),
      Str("-arext", IF Msc THEN <<".lib", ".exp", ".pdb">> ELSE <<".a">>),
      Str("-wrext", IF Msc THEN <<".res">> ELSE <<".o">>)>>

CcFlagArgs ==
    <<Str("-ccincflag", IF Msvc THEN <<"/I">> ELSE <<"-I">>),
      Str("-ccdefflag", IF Msvc THEN <<"/D">> ELSE <<"-D">>),
      Str("-ccobjflag", IF Msvc THEN <<"/c">> ELSE <<"-c">>),
      Str("-ccoutflag", IF Msvc THEN <<"/Fo:">> ELSE <<"-o">>)>>

LdFlagArgs ==
    <<Str("-ldlibflag", IF Msvc THEN <<>> ELSE <<"-l">>),
      Str("-ldshrflag", IF Msvc THEN <<"/DLL">> ELSE <<"-shared">>),
      Str("-ldwinflag", CASE Msvc -> <<"/SUBSYSTEM:WINDOWS">>
                          [] Win /\ Cc = "gnu" -> <<"-mwindows">>
                          [] Win /\ Cc = "clang" -> <<"-Wl,--subsystem,windows">>
                          [] OTHER -> <<>>),
      Str("-ldoutflag", IF Msvc THEN <<"/OUT:">> ELSE <<"-o">>)>>

OutFlagArgs ==
    <<StrOrNone("-aroutflag", Msvc, <<"/OUT:">>),
      Str("-windresoutflag", IF Msvc THEN <<"/fo">> ELSE <<"-o">>)>>

SepArgs == [k \in 1..3 |->
    Typed("INT", <<"-ccflagsep", "-ldflagsep", "-arflagsep">>[k], IF Msvc THEN 0 ELSE 1)]

aven_build_common_args ==
    ToolArgs \o FlagArgs \o ExtArgs \o CcFlagArgs \o LdFlagArgs \o OutFlagArgs \o SepArgs
=============================================================================
