------------------------------ MODULE BuildProps ------------------------------
(***************************************************************************)
(* The properties of the build engine.                                     *)
(***************************************************************************)
EXTENDS BuildStep

\* Every variable holds what the C types and the call discipline allow, and a
\* call is active only in the operation that made it.
TypeOK ==
    /\ state \in [Step -> StepState]
    /\ pid \in [Step -> Pid \cup {NoPid}]
    /\ proc \in P!ProcType
    /\ fs \in F!FsType
    /\ op \in {"none", "run", "clean", "reset"}
    /\ root \in Roots \cup {NoStep}
    /\ frames \in Seq(Frame)
    /\ ret \in {"OK", "BUSY"} \cup RunError
    /\ todo \in Seq(Step)
    /\ failed \subseteq Step
    /\ op = "none" <=> root = NoStep
    /\ frames # <<>> => op = "run"
    /\ todo # <<>> => op = "clean"
    /\ ret = "BUSY" => frames # <<>>

\* The states of the abstract build.
AbstractState == [s \in Step |->
    IF s \in failed THEN "failed"
    ELSE IF state[s] = "NONE" THEN "idle"
    ELSE IF state[s] = "RUNNING" THEN "running" ELSE "ok"]
Abstract == INSTANCE DagBuild WITH
    Job <- Step, Needs <- [s \in Step |-> Deps(s)], st <- AbstractState

\* aven_build_step_run executes a step only after everything it depends on has
\* succeeded, and no more than once until the step is reset or cleaned,
\* however many steps share it (the two loops of lines 174-186 and the test of
\* line 170).
ImplementsDagBuild == Abstract!Spec

\* The calls that have returned and not been followed by another.
Returned(e) == op = "run" /\ frames = <<>> /\ ret = e

\* A run that returns 0 leaves nothing below its root undone, running or
\* failed.  Only the root itself may still be running: nobody waits for it.
SuccessMeansDone == Returned("OK") =>
    /\ state[root] # "NONE" /\ root \notin failed
    /\ \A s \in Reach[root] \ {root} : state[s] = "DONE" /\ s \notin failed

RemovedArgs == {Arg[s] : s \in {t \in Step : Type[t] \in {"RM", "RMDIR"}}}

\* A run that returns 0 leaves the output of every step it reached on disk,
\* except for what the steps of the graph remove.  A PATH step makes nothing.
SuccessMeansBuilt == Returned("OK") =>
    \A s \in Reach[root] \ {root} :
        Type[s] # "PATH" /\ Out[s] \notin RemovedArgs \cup {NoPath}
            => fs[Out[s]] # "none"

\* With no fault anywhere no run fails: the order the loops impose is enough
\* for every command to find its inputs and every operation its directory,
\* after any sequence of runs, resets and cleans.
NoSpuriousError == ret \notin RunError

\* A step is waited for through the process of its own command, which has not
\* been reaped: never through pid 0, a reused pid or another step's child.
WaitsOwnChild ==
    InLoop("wait") /\ state[Current] = "RUNNING" =>
        /\ pid[Current] \in Pid
        /\ P!IsChild(proc, pid[Current])
        /\ proc[pid[Current]].cmd = Current

\* The path p and all that is in it, however deep.
Within == [p \in Path |-> {q \in Path : \A S \in SUBSET Path :
    p \in S /\ (\A x \in Path : In[x] \in S => x \in S) => q \in S}]

\* A clean that has ended leaves no output of a step below its root, unless a
\* command is still about to make it.  With no fault: the commands a failed
\* build leaves running may end after the clean.  A directory may stay for the sake of a
\* file in it that no step below that root makes.
CleanRemovesAll ==
    op = "clean" /\ todo = <<>> /\ (\A p \in Pid : proc[p] = P!Free) =>
        LET outs == {Out[s] : s \in Reach[root]} \ {NoPath}
        IN  \A p \in outs : fs[p] = "none" \/ \E q \in Within[p] \ outs : fs[q] # "none"

\* A command is launched only for a step in state NONE: never for one that
\* another path through the graph has already launched.
NoRelaunch == [][\A s \in Step :
    pid'[s] \in Pid /\ pid'[s] # pid[s] => state[s] = "NONE"]_vars

\* Every call returns, when commands do.
CallReturns == ~ Idle ~> Idle
-----------------------------------------------------------------------------
(* The inductive invariant behind SuccessMeansDone and WaitsOwnChild.       *)

\* The stack is a path of the graph from the step r of the call, and meets no
\* step twice.  All its frames but the last are waiting in the first loop.
IsPath(r, stack) ==
    /\ stack # <<>> => stack[1].step = r
    /\ \A i \in 1..Len(stack) :
        /\ stack[i].step \in Reach[r]
        /\ stack[i].at <= Len(Dep[stack[i].step]) + 1
        /\ i < Len(stack) =>
            /\ stack[i].loop = "run"
            /\ stack[i].at <= Len(Dep[stack[i].step])
            /\ stack[i + 1].step = Dep[stack[i].step][stack[i].at]
    /\ \A i, j \in 1..Len(stack) : i # j => stack[i].step # stack[j].step

\* What an active call has established about its step and the dependencies it
\* has passed, in the states st.
Passed(f) == {Dep[f.step][i] : i \in 1..(f.at - 1)}
Established(f, st) ==
    /\ f.loop # "entry" => st[f.step] = "NONE"
    /\ f.loop = "run" => \A d \in Passed(f) : st[d] # "NONE"
    /\ f.loop = "wait" => /\ \A d \in Deps(f.step) : st[d] # "NONE"
                          /\ \A d \in Passed(f) : st[d] = "DONE"

\* The step whose call has just returned to this stack has been executed.
Dealt(r, stack, st) ==
    IF stack = <<>> THEN st[r] # "NONE"
    ELSE LET top == stack[Len(stack)]
         IN  /\ top.loop = "run"
             /\ top.at <= Len(Dep[top.step])
             /\ st[Dep[top.step][top.at]] # "NONE"

Sound(r, stack, st) ==
    /\ IsPath(r, stack)
    /\ \A i \in 1..Len(stack) : Established(stack[i], st)

StackOK ==
    /\ Sound(root, frames, state)
    /\ op = "run" /\ ret = "OK" => Dealt(root, frames, state)

\* While no error has been returned, no step that can be reached has failed,
\* and what has been executed rests on steps that are done.
SoFarSoGood == op = "run" /\ ret \in {"BUSY", "OK"} => \A s \in Reach[root] :
    /\ s \notin failed
    /\ state[s] # "NONE" => \A d \in Deps(s) : state[d] = "DONE"

\* A running step that has not failed has a child of its own.
OwnChild == \A s \in Step : state[s] = "RUNNING" /\ s \notin failed =>
    /\ pid[s] \in Pid
    /\ P!IsChild(proc, pid[s])
    /\ proc[pid[s]].cmd = s

\* CallInv is inductive whatever the client runs, IInv if it runs what is ready.
CallInv == TypeOK /\ StackOK
IInv ==
    /\ CallInv
    /\ SoFarSoGood
    /\ OwnChild
-----------------------------------------------------------------------------
(* The invariant behind SuccessMeansBuilt.                                  *)

\* What a step makes when it succeeds.
Products(s) == {p \in Path :
    \/ Type[s] = "CMD" /\ p \in Writes[s]
    \/ Type[s] \in {"MKDIR", "TRUNC", "COPY"} /\ p = Out[s]}

\* The out_path of a step is made by the step or by one below it, and only
\* there; what a copy makes nothing else makes.  A PATH step, which cleans a
\* side file of a command above it, has an out_path of its own.
ASSUME OutputAssumption ==
    \A o \in {s \in Step : Type[s] # "PATH" /\ Out[s] # NoPath} :
        /\ \E t \in Reach[o] : Out[o] \in Products(t)
        /\ \A t \in Step : Out[o] \in Products(t) =>
            t \in Reach[o] /\ (Type[o] = "COPY" => t = o)
        /\ \A t \in Step : Out[t] = Out[o] => Type[t] # "PATH"

\* The outputs that only a clean takes away, or a copy that fails.
Lasting == {Out[s] : s \in {t \in Step : Type[t] # "PATH"}} \ (RemovedArgs \cup {NoPath})

\* A step that has made its files: a command may have to be waited for yet.
Made(s) ==
    /\ s \notin failed
    /\ \/ state[s] = "DONE"
       \/ state[s] = "RUNNING" /\ proc[pid[s]].st = "ok"

\* The clean that is under way will visit s.
ToVisit(s) == \E i \in 1..Len(todo) : s \in Reach[todo[i]]

\* What was made is there, or about to be forgotten.
MadeIsThere == \A s \in Step : Made(s) /\ ~ ToVisit(s) =>
    \A p \in Products(s) \cap Lasting : fs[p] # "none"

\* Whatever else is executed is over at once.
OnlyCommandsRun == \A s \in Step :
    state[s] = "RUNNING" /\ s \notin failed => Type[s] = "CMD"

BuiltInv == IInv /\ OnlyCommandsRun /\ MadeIsThere
=============================================================================
