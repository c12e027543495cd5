---------------------------- MODULE BuildFaultless ----------------------------
(***************************************************************************)
(* The build engine where nothing fails: what a graph must satisfy for     *)
(* every step to find what it needs, and the invariant behind              *)
(* NoSpuriousError and CleanRemovesAll.                                    *)
(***************************************************************************)
EXTENDS BuildProps

\* The files a step reads or removes, and the directories it removes or makes
\* something in.
NeedsFile(s) == {p \in Path :
    \/ Type[s] = "CMD" /\ p \in Reads[s]
    \/ Type[s] \in {"RM", "COPY"} /\ p = Arg[s]}
NeedsDir(s) == {p \in Path :
    \/ Type[s] = "RMDIR" /\ p = Arg[s]
    \/ \E q \in Products(s) : In[q] = p}
Needs(s) == NeedsFile(s) \cup NeedsDir(s)

Makers(p) == {t \in Step : p \in Products(t)}
IsDir(p) == \E t \in Step : Type[t] = "MKDIR" /\ Out[t] = p

\* What a step needs is a source file, which no step names as its own, or is
\* made below it, and is removed only by a step above it.
Supplied(s) == \A p \in Needs(s) :
    /\ p \in Source \/ Makers(p) # {}
    /\ \A t \in Makers(p) : t # s /\ t \in Reach[s]
    /\ p \in NeedsDir(s) => IsDir(p)
    /\ p \in NeedsFile(s) => ~ IsDir(p)
    /\ \A o \in Step : Out[o] = p => Type[o] # "PATH" /\ p \notin Source
    /\ \A m \in Step : Type[m] \in {"RM", "RMDIR"} /\ Arg[m] = p =>
            s \in Reach[m] /\ p \notin Source

\* A path is a file or a directory for good, and nothing is made in a directory
\* that a step removes.
KindsAgree == \A p \in Path :
    /\ IsDir(p) => p \notin Source /\ \A t \in Makers(p) : Type[t] = "MKDIR"
    /\ \A m \in Step : Type[m] = "RMDIR" /\ In[p] = Arg[m] =>
            p \notin Source /\ Makers(p) = {}

\* Commands none of which waits for another do not use up the process ids.
EnoughPids ==
    LET Cmds == {s \in Step : Type[s] = "CMD"}
    IN  \A f \in [Pid -> Cmds], s \in Cmds :
            \/ \E p \in Pid : f[p] \in Reach[s] \/ s \in Reach[f[p]]
            \/ \E p, q \in Pid : p # q /\ f[p] \in Reach[f[q]]

\* The step that makes a directory is below those that make what is in it, and
\* no directory is in itself, however deep.
DirsBelow ==
    /\ \A s, d \in Step :
        Out[s] # NoPath /\ In[Out[s]] # NoPath /\ Out[d] = In[Out[s]] => d \in Reach[s]
    /\ \A S \in SUBSET Path : S # {} => \E p \in S : \A q \in S : In[q] # p

WellMade ==
    /\ \A r \in Roots : Type[r] # "CMD"
    /\ \A s \in Step : Type[s] \in {"MKDIR", "TRUNC", "COPY"} => Out[s] # NoPath
    /\ \A s \in Step : Supplied(s)
    /\ KindsAgree
    /\ EnoughPids
    /\ DirsBelow
-----------------------------------------------------------------------------
(* The inductive invariant *)

\* What exists is in a directory, as Fs has it: a lemma of what follows.
FilesFormATree == F!IsTree(fs)

NoError == ret \notin RunError /\ failed = {}

KindsKept == \A p \in Path :
    /\ fs[p] = "dir" => IsDir(p)
    /\ fs[p] = "file" => p \in Source \/ \E t \in Makers(p) : Type[t] # "MKDIR"

\* Every process is the command of the step that waits for it.
OwnProcesses == \A p \in Pid : proc[p].st # "free" =>
    /\ proc[p].st \in {"live", "ok"}
    /\ proc[p].cmd \in Step
    /\ state[proc[p].cmd] = "RUNNING" /\ pid[proc[p].cmd] = p

\* No command outlives the call that started it.
RunningBelow == \A s \in Step :
    state[s] = "RUNNING" => frames # <<>> /\ s \in Reach[root]

\* What a step has yet to use is there from the time it is made.
Provided == \A t \in Step : Made(t) /\ ~ ToVisit(t) =>
    \A p \in Products(t), s \in Step :
        p \in Needs(s) /\ state[s] = "NONE" => fs[p] # "none"
SourcesThere == \A p \in Source, s \in Step : p \in Needs(s) => fs[p] # "none"

\* Nothing is removed from under a command.
InUse == \A s \in Step : state[s] = "RUNNING" /\ proc[pid[s]].st = "live" =>
    \A p \in Needs(s) : fs[p] # "none"

\* What the clean has visited is gone, or a directory that is not empty yet.
Cleaned == op = "clean" => \A s \in Reach[root] : Out[s] # NoPath =>
    ToVisit(s) \/ fs[Out[s]] = "none" \/ ~ F!IsEmpty(fs, Out[s])

Calm ==
    /\ NoError /\ KindsKept /\ OwnProcesses /\ RunningBelow
    /\ Provided /\ SourcesThere /\ InUse /\ Cleaned
CalmInv == BuiltInv /\ FilesFormATree /\ Calm
=============================================================================
