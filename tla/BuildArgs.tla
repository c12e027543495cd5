------------------------------- MODULE BuildArgs -------------------------------
(***************************************************************************)
(* The command line of the build program: the parser on the table of each  *)
(* toolchain, and the reader of the options.                               *)
(***************************************************************************)
EXTENDS ArgParse, OptionReader

CONSTANT Custom     \* the macros config.h defines, each as the option it is named for

\* The table of aven_build_common_args is one, see MCProgram.
ASSUME TablesAssumption == \A t \in Tables : IsTable(t) /\ Serves(t)

\* Whether _WIN32 is defined, and the compiler that builds the program.
Toolchain ==
    {t \in BOOLEAN \X {"gnu", "clang", "clangcl", "msvc", "tcc"} :
        t[2] \in {"clangcl", "msvc"} => t[1]}
On(win, cc) == INSTANCE Options WITH Win <- win, Cc <- cc
TableOf(t) == On(t[1], t[2])!aven_build_common_args

\* When the parser accepts a command line, no assert of an accessor can fail
\* in aven_build_common_opts (arg.h lines 224-246): an option that is read
\* without a test has a default or was demanded, on every toolchain.
AccessorsSafe == result = "OK" =>
    \A type \in ArgType : \A name \in OptionsRead(args)[type] : Readable(args, name, type)

\* Started without options, the program uses the default that config.h defines
\* for an option for that option, and for no other.
CustomDefaultsAreOwn == argv = <<>> => \A j \in 1..Len(args) : \A name \in Custom :
    args[j].value = Value("STRING", <<"custom", name>>) <=> args[j].name = name
=============================================================================
