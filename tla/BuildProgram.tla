------------------------------ MODULE BuildProgram ------------------------------
(***************************************************************************)
(* A build program from its command line to its graph, as main of build.c  *)
(* goes about it: it parses its options, reads them, and gives them to the *)
(* constructors of its steps.                                              *)
(***************************************************************************)
EXTENDS BuildArgs, BuildClient

CONSTANTS
    Manies,     \* what the client may give to the constructors, see `many'
    MaxCalls(_) \* a bound on the calls of a client that has read these
                \* options, if it is started without any

\* The numbers of include paths, macros, libraries and arguments.
ASSUME ManiesAssumption ==
    Manies \subseteq [incs : Nat, macros : Nat, libs : Nat, args : Nat]

vars == <<argVars, clientVars>>

Init ==
    /\ ParseInit
    /\ opts = <<>> /\ many = <<>> /\ calls = 0 /\ graph = <<>> /\ mine = {}

\* The table and the command line are not looked at again.  Each option that
\* was given costs a call, which bounds the model.
ReadOpts ==
    /\ result = "OK"
    /\ opts' = aven_build_common_opts(args)
    /\ many' \in Manies
    /\ calls' = MaxCalls(opts') - (Len(argv) + 1) \div 2
    /\ result' = "READ" /\ argv' = <<>> /\ i' = 1 /\ args' = <<>> /\ defaults' = <<>>
    /\ UNCHANGED <<graph, mine>>

Next ==
    \/ Parse /\ UNCHANGED clientVars
    \/ ReadOpts
    \/ result = "READ" /\ Build /\ UNCHANGED argVars

Spec == Init /\ [][Next]_vars
=============================================================================
