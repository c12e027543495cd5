------------------------------ MODULE StepGraph ------------------------------
(***************************************************************************)
(* The steps a client of include/aven/build.h makes before it runs them.   *)
(* A graph is the sequence of the steps made so far, in the order of their *)
(* creation, and a step is named by its place in it.  A constructor takes  *)
(* a graph to the graph with its steps appended, its result last.          *)
(*                                                                         *)
(* A path is a directory, a name up to its first dot, and the rest of the  *)
(* name.  A command is the words its step hands to the system: only those  *)
(* that name a file of the build are told apart.                           *)
(***************************************************************************)
EXTENDS Integers, Sequences, SequencesExt

CONSTANT NoPath

File(dir, base, ext) == [in |-> dir, base |-> base, ext |-> ext]

Word(kind, path) == [kind |-> kind, path |-> path]
Plain(n) == [i \in 1..n |-> Word("word", NoPath)]

aven_build_step_root ==
    [type |-> "ROOT", dep |-> <<>>, out |-> NoPath, arg |-> NoPath,
     words |-> <<>>, slots |-> 0]

New(type, out, arg) ==
    [aven_build_step_root EXCEPT !.type = type, !.out = out, !.arg = arg]

\* `slots' is the length of the array the words are stored in.
aven_build_step_cmd(out, words, slots) ==
    [New("CMD", out, NoPath) EXCEPT !.words = words, !.slots = slots]
aven_build_step_path(p) == New("PATH", p, NoPath)
aven_build_step_mkdir(p) == New("MKDIR", p, NoPath)
aven_build_step_rm(p) == New("RM", NoPath, p)
aven_build_step_trunc(p) == New("TRUNC", p, NoPath)
aven_build_step_copy(i, o) == New("COPY", o, i)

\* The list of dependencies grows at its head.
aven_build_step_add_dep(s, d) == [s EXCEPT !.dep = <<d>> \o @]
add_deps(s, ds) == [s EXCEPT !.dep = Reverse(ds) \o @]
-----------------------------------------------------------------------------
StepsOf(g) == 1..Len(g)
DepsOf(g, s) == {g[s].dep[i] : i \in 1..Len(g[s].dep)}

\* The steps below each step, given that dependencies are made first.
Below(g) ==
    LET below[s \in StepsOf(g)] ==
            DepsOf(g, s) \cup UNION {below[d] : d \in DepsOf(g, s)}
    IN  below

\* The files a command names.
Named(g, s, kinds) ==
    {g[s].words[i].path : i \in {j \in 1..Len(g[s].words) : g[s].words[j].kind \in kinds}}
Inputs(g, s) ==
    Named(g, s, {"obj", "exe"}) \cup IF g[s].type = "COPY" THEN {g[s].arg} ELSE {}

\* The file a step is there to make, and with it the side files its PATH
\* dependencies stand for.
Outputs(g, s) ==
    CASE g[s].type = "CMD" -> Named(g, s, {"out"})
      [] g[s].type \in {"TRUNC", "COPY", "MKDIR"} -> {g[s].out}
      [] OTHER -> {}
Products(g, s) == Outputs(g, s) \cup
    IF g[s].type = "CMD"
    THEN {g[d].out : d \in {e \in DepsOf(g, s) : g[e].type = "PATH"}} ELSE {}
=============================================================================
