------------------------------ MODULE BuildStep ------------------------------
(***************************************************************************)
(* The build engine of include/aven/build.h: a graph of steps that         *)
(* aven_build_step_run executes depth first, that aven_build_step_clean    *)
(* undoes and aven_build_step_reset forgets.                               *)
(*                                                                         *)
(* aven_build_step_run is a recursive C function that may block in         *)
(* waitpid, so its call stack is a variable: a frame holds the step, the   *)
(* loop the call is in and its position in the list of dependencies.       *)
(* Between two actions of the program the commands it has started run on,  *)
(* end, and change the file system.                                        *)
(*                                                                         *)
(* `failed' is a history variable: the steps whose own operation or command *)
(* was seen to fail since the step was last in state NONE.                 *)
(***************************************************************************)
EXTENDS Integers, Sequences, SequencesExt

CONSTANTS
    Step, NoStep,   \* the AvenBuildStep objects; no step
    Roots,          \* the steps the client calls the library on
    Type,           \* Type[s], one of StepType
    Dep,            \* Dep[s], the dependencies in list order
    Out,            \* Out[s], out_path, NoPath when it is not valid
    Arg,            \* Arg[s], the path in data.rm, data.rmdir or data.copy
    Reads, Writes,  \* the files the command of s needs, and those it makes
    Source,         \* the files there before the first build
    Path, NoPath, In, Pid, NoPid, Fault,
    Windows         \* the system the files are on; processes are those of POSIX

StepType ==
    {"ROOT", "PATH", "CMD", "RM", "RMDIR", "MKDIR", "TRUNC", "COPY"}

Deps(s) == {Dep[s][i] : i \in 1..Len(Dep[s])}
Closed == {S \in SUBSET Step : \A s \in S : Deps(s) \subseteq S}
\* The steps a call on r can reach, r included.
Reach == [r \in Step |-> {s \in Step : \A S \in Closed : r \in S => s \in S}]

ASSUME GraphAssumption ==
    /\ NoStep \notin Step
    /\ Roots \subseteq Step
    /\ Type \in [Step -> StepType]
    /\ Dep \in [Step -> Seq(Step)]

\* The recursion terminates: in any set of steps one depends on none of them.
ASSUME AcyclicAssumption ==
    \A S \in SUBSET Step : S # {} => \E s \in S : Deps(s) \cap S = {}

ASSUME PathAssumption ==
    /\ NoPath \notin Path
    /\ In \in [Path -> Path \cup {NoPath}]
    /\ Out \in [Step -> Path \cup {NoPath}]
    /\ Arg \in [Step -> Path \cup {NoPath}]
    /\ \A s \in Step : Type[s] \in {"RM", "RMDIR", "COPY"} => Arg[s] \in Path
    /\ Reads \in [Step -> SUBSET Path]
    /\ Writes \in [Step -> SUBSET Path]
    /\ Source \subseteq {p \in Path : In[p] = NoPath}

ASSUME PidAssumption == NoPid \notin Pid

VARIABLES
    state,      \* step->state
    pid,        \* step->pid
    proc,       \* the process table
    fs,         \* the file system
    op, root,   \* the library call made last, and the step it was made on
    frames,     \* the stack of active aven_build_step_run calls
    ret,        \* what the run call that ended last returned, BUSY in a call
    todo,       \* the steps aven_build_step_clean has yet to visit
    failed

prog == <<state, pid, op, root, frames, ret, todo, failed>>
vars == <<prog, proc, fs>>

P == INSTANCE Proc WITH Cmd <- Step, NoCmd <- NoStep
F == INSTANCE Fs

StepState == {"NONE", "RUNNING", "DONE"}
RunError == {"DEPRUN", "DEPWAIT", "CMD", "RM", "RMDIR", "MKDIR", "TRUNC",
             "COPY", "OUTPATH"}
Frame == [step : Step, loop : {"entry", "run", "wait"}, at : Nat \ {0}]

Init ==
    /\ state = [s \in Step |-> "NONE"]
    /\ pid = [s \in Step |-> NoPid]
    /\ proc = [p \in Pid |-> P!Free]
    /\ fs = [p \in Path |-> IF p \in Source THEN "file" ELSE "none"]
    /\ op = "none" /\ root = NoStep
    /\ frames = <<>> /\ ret = "OK" /\ todo = <<>>
    /\ failed = {}
-----------------------------------------------------------------------------
(* aven_build_step_run *)

Top == frames[Len(frames)]
Executing == frames # <<>> /\ ret = "BUSY"
Begin(s, l) == [step |-> s, loop |-> l, at |-> 1]

\* Mutant of Advance: the loop does not move on.
AdvanceForgotten == frames
Advance == [frames EXCEPT ![Len(frames)].at = @ + 1]

\* The active call is in this loop with dependencies left, or at its end.
InLoopAt(l) == Top.loop = l /\ Top.at <= Len(Dep[Top.step])
InLoop(l) == Executing /\ InLoopAt(l)
LoopEnded(l) == Executing /\ Top.loop = l /\ Top.at > Len(Dep[Top.step])
Current == Dep[Top.step][Top.at]

Return(e) == frames' = Front(frames) /\ ret' = e

\* Mutant of ToRun: only a step that is DONE is not executed again.
ToRunUnlessDone(s) == state[s] # "DONE"
ToRun(s) == state[s] = "NONE"

EarlyReturn ==
    /\ Executing /\ Top.loop = "entry"
    /\ ~ ToRun(Top.step)
    /\ Return("OK")
    /\ UNCHANGED <<state, pid, op, root, todo, failed, proc, fs>>

Enter ==
    /\ Executing /\ Top.loop = "entry"
    /\ ToRun(Top.step)
    /\ frames' = [frames EXCEPT ![Len(frames)] = Begin(Top.step, "run")]
    /\ UNCHANGED <<state, pid, op, root, ret, todo, failed, proc, fs>>

RunDep ==
    /\ InLoop("run")
    /\ frames' = Append(frames, Begin(Current, "entry"))
    /\ UNCHANGED <<state, pid, op, root, ret, todo, failed, proc, fs>>

\* The call on a dependency has returned 0.
Resume ==
    /\ frames # <<>> /\ ret = "OK"
    /\ frames' = Advance /\ ret' = "BUSY"
    /\ UNCHANGED <<state, pid, op, root, todo, failed, proc, fs>>

\* Mutant of PropagateError: the result of the recursive call is not tested.
IgnoreDepError ==
    /\ frames # <<>> /\ ret \in RunError
    /\ frames' = Advance /\ ret' = "BUSY"
    /\ UNCHANGED <<state, pid, op, root, todo, failed, proc, fs>>

\* It has returned an error: give up, whatever is still running.
PropagateError ==
    /\ frames # <<>> /\ ret \in RunError
    /\ Return("DEPRUN")
    /\ UNCHANGED <<state, pid, op, root, todo, failed, proc, fs>>

BeginWait ==
    /\ LoopEnded("run")
    /\ frames' = [frames EXCEPT ![Len(frames)] = Begin(Top.step, "wait")]
    /\ UNCHANGED <<state, pid, op, root, ret, todo, failed, proc, fs>>

(* aven_build_step_wait on the current dependency *)

\* Mutant of MustWait: no dependency is waited for.
NeverWait(d) == state[d] = "NONE"
MustWait(d) == state[d] = "RUNNING"

SkipWait ==
    /\ InLoop("wait")
    /\ ~ MustWait(Current)
    /\ frames' = Advance
    /\ UNCHANGED <<state, pid, op, root, ret, todo, failed, proc, fs>>

\* Mutant of WaitedState: a step that was waited for is left RUNNING.
WaitedStateKept(d) == state
\* However its command ended, the step is DONE.
WaitedState(d) == [state EXCEPT ![d] = "DONE"]

\* Mutant of Waited: the error is not tested.
WaitedIgnoringError(e) == frames' = Advance /\ UNCHANGED ret
Waited(e) == IF e = "OK" THEN frames' = Advance /\ UNCHANGED ret
                         ELSE Return("DEPWAIT")

Blame(s, e) == failed' = IF e = "OK" THEN failed ELSE failed \cup {s}

WaitDep ==
    /\ InLoop("wait")
    /\ MustWait(Current)
    /\ \E o \in P!aven_proc_wait(proc, pid[Current]) :
        /\ proc' = o.proc
        /\ Waited(o.err)
        /\ Blame(Current, o.err)
    /\ state' = WaitedState(Current)
    /\ UNCHANGED <<pid, op, root, todo, fs>>

(* The step itself.  One that fails is left RUNNING, whatever its type. *)

\* Mutant of CmdError: the error of fork is not tested.
CmdErrorIgnored(e) == "OK"
CmdError(e) == IF e = "OK" THEN "OK" ELSE "CMD"

ExecCmd ==
    /\ LoopEnded("wait") /\ Type[Top.step] = "CMD"
    /\ \E o \in P!aven_proc_cmd(proc, Top.step) :
        /\ proc' = o.proc
        /\ pid' = IF o.err = "OK" THEN [pid EXCEPT ![Top.step] = o.pid] ELSE pid
        /\ Return(CmdError(o.err))
        /\ Blame(Top.step, o.err)
    /\ state' = [state EXCEPT ![Top.step] = "RUNNING"]
    /\ UNCHANGED <<op, root, todo, fs>>

\* What the operation of a step that starts no command does to the files.
Effect(s) ==
    IF Type[s] \in {"TRUNC", "MKDIR", "COPY"} /\ Out[s] = NoPath
    THEN {F!Outcome(fs, "OUTPATH")}
    ELSE CASE Type[s] \in {"ROOT", "PATH"} -> {F!Outcome(fs, "OK")}
           [] Type[s] = "RM"    -> F!aven_fs_rm(fs, Arg[s])
           [] Type[s] = "RMDIR" -> F!aven_fs_rmdir(fs, Arg[s])
           [] Type[s] = "TRUNC" -> F!aven_fs_trunc(fs, Out[s])
           [] Type[s] = "MKDIR" -> F!aven_fs_mkdir(fs, Out[s])
           [] Type[s] = "COPY"  -> F!aven_fs_copy(fs, Arg[s], Out[s])

\* Mutants of StepError: the error is that of the operation; what a path
\* already is is an error of no step.
StepErrorRaw(s, e) == IF Type[s] = "MKDIR" /\ e = "EXIST" THEN "OK" ELSE e
StepErrorAnyPath(s, e) ==
    CASE e \in {"OK", "OUTPATH"} -> e
      [] e \in {"EXIST", "BADPATH"} -> "OK"
      [] OTHER -> Type[s]
\* The error of the step: mkdir accepts anything that is there already.
StepError(s, e) ==
    CASE e \in {"OK", "OUTPATH"} -> e
      [] Type[s] = "MKDIR" /\ e = "EXIST" -> "OK"
      [] OTHER -> Type[s]

ExecFs ==
    /\ LoopEnded("wait") /\ Type[Top.step] # "CMD"
    /\ \E o \in Effect(Top.step) :
        LET e == StepError(Top.step, o.err)
        IN  /\ fs' = o.fs
            /\ state' = [state EXCEPT ![Top.step] =
                            IF e = "OK" THEN "DONE" ELSE "RUNNING"]
            /\ Return(e)
            /\ Blame(Top.step, e)
    /\ UNCHANGED <<pid, op, root, todo, proc>>

Run == \/ EarlyReturn \/ Enter \/ RunDep \/ Resume \/ PropagateError
       \/ BeginWait \/ SkipWait \/ WaitDep \/ ExecCmd \/ ExecFs
-----------------------------------------------------------------------------
(* aven_build_step_clean: the errors of rm and rmdir are ignored, and a     *)
(* step is visited once for every path that leads to it.                    *)

\* The file systems that rm and rmdir may leave.
Removed(p) == IF p = NoPath THEN {fs} ELSE
    UNION {{q.fs : q \in F!aven_fs_rmdir(o.fs, p)} : o \in F!aven_fs_rm(fs, p)}

\* Mutant of CleanState: the step is not reset.
CleanStateKept(s) == state
CleanState(s) == [state EXCEPT ![s] = "NONE"]

\* Mutant of VisitNext: a step that is clean already is not visited again.
VisitUnlessClean ==
    SelectSeq(Dep[Head(todo)], LAMBDA d : state[d] # "NONE") \o Tail(todo)
VisitNext == Dep[Head(todo)] \o Tail(todo)

CleanVisit ==
    /\ todo # <<>>
    /\ fs' \in Removed(Out[Head(todo)])
    /\ state' = CleanState(Head(todo))
    /\ failed' = failed \ {Head(todo)}
    /\ todo' = VisitNext
    /\ UNCHANGED <<pid, op, root, frames, ret, proc>>
-----------------------------------------------------------------------------
(* The client *)

Idle == frames = <<>> /\ todo = <<>>

CallRun(r) ==
    /\ Idle
    /\ op' = "run" /\ root' = r
    /\ frames' = <<Begin(r, "entry")>> /\ ret' = "BUSY"
    /\ UNCHANGED <<state, pid, todo, failed, proc, fs>>

CallClean(r) ==
    /\ Idle
    /\ op' = "clean" /\ root' = r
    /\ todo' = <<r>>
    /\ UNCHANGED <<state, pid, frames, ret, failed, proc, fs>>

\* aven_build_step_reset touches nothing but memory, so it is one step.
ResetState(r) == [s \in Step |-> IF s \in Reach[r] THEN "NONE" ELSE state[s]]

CallReset(r) ==
    /\ Idle
    /\ op' = "reset" /\ root' = r
    /\ state' = ResetState(r)
    /\ failed' = failed \ Reach[r]
    /\ UNCHANGED <<pid, frames, ret, todo, proc, fs>>

\* The program ends, or is killed when "crash" is in Fault, and is run again:
\* the graph is built anew, the files stay, and so do the commands running.
Restart ==
    /\ Idle \/ "crash" \in Fault
    /\ state' = [s \in Step |-> "NONE"] /\ pid' = [s \in Step |-> NoPid]
    /\ op' = "none" /\ root' = NoStep
    /\ frames' = <<>> /\ ret' = "OK" /\ todo' = <<>> /\ failed' = {}
    /\ proc' = [p \in Pid |->
                    IF proc[p].st = "live" THEN [proc[p] EXCEPT !.st = "orphan"]
                    ELSE IF proc[p].st = "orphan" THEN proc[p] ELSE P!Free]
    /\ UNCHANGED fs

\* What a client must see to before it runs r: no step below r has failed, and
\* none has had a dependency reset under it that is not done again.
Ready(r) == \A s \in Reach[r] :
    /\ s \notin failed
    /\ state[s] # "NONE" => \A d \in Deps(s) : state[d] = "DONE"
-----------------------------------------------------------------------------
(* The commands *)

Running(p) == proc[p].st \in {"live", "orphan"}
Creatable(s) == {w \in Writes[s] : F!CanCreate(fs, w)}
CanSucceed(s) ==
    /\ \A i \in Reads[s] : fs[i] = "file"
    /\ Creatable(s) = Writes[s]
Make(W) == [w \in Path |-> IF w \in W THEN "file" ELSE fs[w]]

\* An orphan is reaped by the system, a child waits for its parent.
Leave(p, how) == proc' = [proc EXCEPT ![p] =
    IF @.st = "orphan" THEN P!Free ELSE [@ EXCEPT !.st = how]]

ExitOk(p) ==
    /\ CanSucceed(proc[p].cmd)
    /\ fs' = Make(Writes[proc[p].cmd]) /\ Leave(p, "ok")
    /\ UNCHANGED prog

\* A command that fails may have made some of its files.
Fail(p, how) ==
    /\ \E W \in SUBSET Creatable(proc[p].cmd) : fs' = Make(W)
    /\ Leave(p, how)
    /\ UNCHANGED prog

ExitError(p) ==
    ("exit" \in Fault \/ ~ CanSucceed(proc[p].cmd)) /\ Fail(p, "err")
Killed(p) == "signal" \in Fault /\ Fail(p, "sig")

CommandEnds(p) == Running(p) /\ (ExitOk(p) \/ ExitError(p) \/ Killed(p))
-----------------------------------------------------------------------------
Others == \/ Run \/ CleanVisit \/ Restart
          \/ \E r \in Roots : CallClean(r) \/ CallReset(r)
          \/ \E p \in Pid : CommandEnds(p)

\* A client that runs only what is ready, and one that never checks.
Next == Others \/ \E r \in Roots : Ready(r) /\ CallRun(r)
RetryNext == Others \/ \E r \in Roots : CallRun(r)

\* A call, once made, is executed; a command ends by itself.
Fairness == /\ WF_vars(Run) /\ WF_vars(CleanVisit)
            /\ \A p \in Pid : WF_vars(CommandEnds(p))

Spec == Init /\ [][Next]_vars
FairSpec == Spec /\ Fairness
RetrySpec == Init /\ [][RetryNext]_vars
=============================================================================
