------------------------------- MODULE ArgParse -------------------------------
(***************************************************************************)
(* aven_arg_parse of include/aven/arg.h on any command line.               *)
(***************************************************************************)
EXTENDS ArgTable

CONSTANTS
    Tables,     \* the tables of options, with their default values
    Given,      \* the strings a command line is made of
    MaxArgv,    \* a bound on their number
    Atoi        \* Atoi[w] is the number atoi reads from w

ASSUME GivenAssumption == MaxArgv \in Nat /\ \A w \in Given : w \in Seq(STRING)

Help == {<<"help">>, <<"-h">>, <<"-help">>, <<"--help">>}

VARIABLES
    argv,       \* the strings after the name of the program
    i,          \* the next one
    args,       \* the table, as far as it has been filled in
    result,     \* BUSY until the parser returns
    defaults    \* a history variable: the table as it was at first

argVars == <<argv, i, args, result, defaults>>

ParseInit ==
    /\ argv \in UNION {[1..n -> Given] : n \in 0..MaxArgv}
    /\ defaults \in Tables
    /\ i = 1 /\ args = defaults /\ result = "BUSY"

\* The options a string names.  The first one counts.
Matches(w) == {j \in 1..Len(args) : w = <<args[j].name>>}

Parsing == result = "BUSY" /\ i <= Len(argv)
Known == argv[i] \notin Help /\ Matches(argv[i]) # {}
Option == First(Matches(argv[i]))
Return(e) == result' = e /\ UNCHANGED <<argv, i, args, defaults>>

AskHelp == Parsing /\ argv[i] \in Help /\ Return("HELP")

Unknown == Parsing /\ argv[i] \notin Help /\ Matches(argv[i]) = {} /\ Return("UNKNOWN")

SetBool ==
    /\ Parsing /\ Known /\ args[Option].type = "BOOL"
    /\ args' = [args EXCEPT ![Option].value.data = TRUE]
    /\ i' = i + 1
    /\ UNCHANGED <<argv, result, defaults>>

HasValue == i + 1 <= Len(argv)

NoValue ==
    /\ Parsing /\ Known /\ args[Option].type # "BOOL" /\ ~ HasValue
    /\ Return("VALUE")

\* Mutant of Consumed: the value is looked at again as an option.
ConsumedName == 1
Consumed == 2

\* The next string is the value, whatever it looks like.
SetValue ==
    /\ Parsing /\ Known /\ args[Option].type # "BOOL" /\ HasValue
    /\ args' = [args EXCEPT ![Option].value =
                    Value(args[Option].type,
                          IF args[Option].type = "INT" THEN Atoi[argv[i + 1]]
                                                       ELSE argv[i + 1])]
    /\ i' = i + Consumed
    /\ UNCHANGED <<argv, result, defaults>>

Missing == {j \in 1..Len(args) : ~ args[j].optional /\ ~ HasData(args[j])}

Finish ==
    /\ result = "BUSY" /\ i > Len(argv)
    /\ Return(IF Missing = {} THEN "OK" ELSE "MISSING")

Parse == AskHelp \/ Unknown \/ SetBool \/ NoValue \/ SetValue \/ Finish
-----------------------------------------------------------------------------
(* What a command line means, read from its end result.                     *)

TakesValue(w) == w \notin Help /\ Matches(w) # {} /\ defaults[First(Matches(w))].type # "BOOL"

\* The positions up to n where an option stands, not a value, if a value
\* follows an option that stands at a position in V.
Standing(n, V) ==
    LET at[k \in 1..n] == k = 1 \/ ~ (at[k - 1] /\ k - 1 \in V)
    IN  {k \in 1..n : at[k]}
AtOption == Standing(Len(argv), {k \in 1..Len(argv) : TakesValue(argv[k])})

Wrong(k) == CASE argv[k] \in Help -> "HELP"
              [] argv[k] \notin Help /\ Matches(argv[k]) = {} -> "UNKNOWN"
              [] TakesValue(argv[k]) /\ k = Len(argv) -> "VALUE"
              [] OTHER -> "OK"

\* Where the parser stops, and the last place option j is given before that.
Stop == LET bad == {k \in AtOption : Wrong(k) # "OK"}
        IN  IF bad = {} THEN Len(argv) + 1 ELSE First(bad)
Uses(j) == {k \in AtOption : k < Stop /\ First(Matches(argv[k])) = j}
LastUse(j) == CHOOSE k \in Uses(j) : \A l \in Uses(j) : l <= k

Meant(j) ==
    IF Uses(j) = {} THEN defaults[j].value
    ELSE CASE defaults[j].type = "BOOL" -> Value("BOOL", TRUE)
           [] defaults[j].type = "INT" -> Value("INT", Atoi[argv[LastUse(j) + 1]])
           [] defaults[j].type = "STRING" -> Value("STRING", argv[LastUse(j) + 1])

Demanded == {j \in 1..Len(defaults) : ~ defaults[j].optional /\ ~ HasData(defaults[j])}
MeantResult ==
    IF Stop <= Len(argv) THEN Wrong(Stop)
    ELSE IF \E j \in Demanded : Uses(j) = {} THEN "MISSING" ELSE "OK"

\* The parser reports the first thing that is wrong on the command line and
\* otherwise nothing, and every option has the value it was last given before
\* that, or its default, whether a value looks like an option or not.
ParsesAsMeant == result \notin {"BUSY", "READ"} =>
    /\ result = MeantResult
    /\ \A j \in 1..Len(defaults) : args[j].value = Meant(j)
=============================================================================
