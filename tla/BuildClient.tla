------------------------------ MODULE BuildClient ------------------------------
(***************************************************************************)
(* A client that makes steps with the constructors of common.h, in any     *)
(* order and combination.  Like build.c and the functions of build.h, it   *)
(* makes a step after the steps it depends on, has a directory of its own  *)
(* made before anything is put there, and never makes one file twice.      *)
(***************************************************************************)
EXTENDS Integers, Sequences, SequencesExt

CONSTANTS
    Dirs,       \* names of directories
    Srcs,       \* paths of source files
    Names,      \* names of binaries and archives made of given objects
    MaxObjs,    \* a bound on the objects given to a constructor
    NoPath, Chop

VARIABLES
    opts,       \* the options the client has read
    many,       \* how many include paths, macros, libraries and arguments it gives
    calls,      \* a bound on its calls of constructors
    graph,
    mine        \* the steps the client holds: the others are inside a call's result

clientVars == <<opts, many, calls, graph, mine>>

INSTANCE Common WITH Opts <- opts

\* No two steps have the same output.
Distinct(g) == \A s, t \in StepsOf(g) :
    s # t => Outputs(g, s) \cap Outputs(g, t) = {}

\* The call is made if its client is careful.  Its result comes last.
Make(g) ==
    /\ Cardinality(mine) < calls /\ Distinct(g)
    /\ graph' = g
    /\ mine' = mine \cup {Len(g)}
    /\ UNCHANGED <<opts, many, calls>>

DirSteps == {s \in mine : graph[s].type = "MKDIR"}
\* The steps whose output can be linked or run.
ObjSteps == {s \in mine : graph[s].type \in {"CMD", "RM"} /\ graph[s].out # NoPath}
Objs == UNION {{objs \in [1..n -> ObjSteps] : IsInjective(objs)} : n \in 0..MaxObjs}

Mkdir(name) == Make(Append(graph, aven_build_step_mkdir(File(NoPath, name, ""))))
Subdir(dir, name) == Make(aven_build_common_step_subdir(graph, dir, name))

Cc(src, dir) ==
    Make(aven_build_common_step_cc_ex(graph, many.incs, many.macros, src, dir))
Windres(src, dir) ==
    opts.windres /\ Make(aven_build_common_step_windres(graph, src, dir))
Ld(objs, dir, name, kind) ==
    Make(aven_build_common_step_ld(graph, many.libs, objs, dir, name, kind))
Ar(objs, dir, name) == Make(aven_build_common_step_ar(graph, objs, dir, name))

CcLd(objs, src, dir, kind) ==
    Make(aven_build_common_step_cc_ld(
            graph, many.incs, many.macros, many.libs, objs, src, dir, kind))
CcLdRunExe(objs, src, dir, graphical) ==
    Make(aven_build_common_step_cc_ld_run_exe_ex(
            graph, many.incs, many.macros, many.libs, objs, src, dir, graphical, many.args))
RunExe(exe) == Make(aven_build_common_step_run_exe(graph, exe, many.args))

Trunc(dir, name) ==
    Make(Append(graph, aven_build_step_add_dep(
        aven_build_step_trunc(File(graph[dir].out, name, ".in")), dir)))
Copy(s, dir) ==
    Make(Append(graph, add_deps(
        aven_build_step_copy(graph[s].out,
            File(graph[dir].out, graph[s].out.base, graph[s].out.ext)), <<s, dir>>)))

\* One root is enough for a client.
Root == /\ \A s \in mine : graph[s].type # "ROOT"
        /\ Make(Append(graph, aven_build_step_root))
AddDep(root, s) ==
    /\ graph[root].type = "ROOT" /\ s < root /\ s \notin DepsOf(graph, root)
    /\ graph' = [graph EXCEPT ![root] = aven_build_step_add_dep(@, s)]
    /\ UNCHANGED <<opts, many, calls, mine>>

Build ==
    \/ \E name \in Dirs : Mkdir(name) \/ \E dir \in DirSteps : Subdir(dir, name)
    \/ \E dir \in DirSteps, src \in Srcs :
        \/ Cc(src, dir) \/ Windres(src, dir)
        \/ \E objs \in Objs :
            \/ \E kind \in BinType : CcLd(objs, src, dir, kind)
            \/ \E graphical \in BOOLEAN : CcLdRunExe(objs, src, dir, graphical)
    \/ \E dir \in DirSteps, objs \in Objs, name \in Names :
        \/ Ar(objs, dir, name) \/ Trunc(dir, name)
        \/ \E kind \in BinType : Ld(objs, dir, name, kind)
    \/ \E exe \in ObjSteps : RunExe(exe)
    \/ \E s \in ObjSteps, dir \in DirSteps : Copy(s, dir)
    \/ Root
    \/ \E root, s \in mine : AddDep(root, s)
-----------------------------------------------------------------------------
\* The array of every command has exactly the room its words need: the length
\* is computed apart from the loops that fill it.
SlotsFilled == \A s \in StepsOf(graph) : Len(graph[s].words) = graph[s].slots

\* What a command reads is made by a step it depends on, however many steps
\* lie between: the engine has waited for it before the command starts.
InputsAreMade == \A s \in StepsOf(graph) : \A p \in Inputs(graph, s) :
    \E t \in Below(graph)[s] : p \in Products(graph, t)

\* A file is removed after every step that makes or reads it, and no step that
\* needs the removal first makes or reads it again.
RemovedLast == \A r, s \in StepsOf(graph) :
    graph[r].type = "RM" /\ graph[r].arg \in Products(graph, s) \cup Inputs(graph, s)
        => s \in Below(graph)[r]

\* A file is made in a directory only after the step that makes the directory.
DirsFirst == \A s \in StepsOf(graph) : \A p \in Products(graph, s) :
    p.in = NoPath \/ \E t \in Below(graph)[s] :
        graph[t].type = "MKDIR" /\ graph[t].out = p.in

\* A clean of a step of the client knows every file that running it makes: the
\* file is the output of some step below, not always of the one that makes it.
CleanKnows == \A r \in mine :
    LET below == Below(graph)[r] \cup {r}
    IN  \A s \in below : \A p \in Products(graph, s) :
            \E t \in below : graph[t].out = p

\* A dependency is older than what depends on it, so that there is no cycle
\* and the recursion of the engine ends.
Ordered == \A s \in StepsOf(graph) : \A d \in DepsOf(graph, s) : d \in 1..(s - 1)
=============================================================================
