------------------------------ MODULE BuildProofs ------------------------------
(***************************************************************************)
(* Proofs about the build engine, for every acyclic graph of steps, every  *)
(* number of process ids and every set of faults: first the states of the  *)
(* steps, then the files the engine leaves on both systems, with every set *)
(* of faults for any acyclic graph, and where nothing fails for any graph  *)
(* that is well made.                                                      *)
(***************************************************************************)
EXTENDS BuildFaultless, SequenceTheorems, TLAPS

-----------------------------------------------------------------------------
(* Sequences and graphs *)

\* What popping a stack leaves.
LEMMA FrontFacts ==
    ASSUME NEW S, NEW s \in Seq(S), s # <<>>
    PROVE  /\ Front(s) \in Seq(S)
           /\ Len(Front(s)) = Len(s) - 1
           /\ \A i \in 1..(Len(s) - 1) : Front(s)[i] = s[i]
  <1> DEFINE n == Len(s) - 1
  <1>1. Len(s) \in Nat /\ n \in Int /\ n >= 0
    BY EmptySeq
  <1>2. \A i \in 1..n : s[i] \in S
    BY <1>1, ElementOfSeq
  <1>3. Front(s) = SubSeq(s, 1, n)
    BY DEF Front
  <1> HIDE DEF n
  <1>4. /\ SubSeq(s, 1, n) \in Seq(S)
        /\ Len(SubSeq(s, 1, n)) = IF 1 <= n THEN n - 1 + 1 ELSE 0
        /\ \A i \in 1..(n - 1 + 1) : SubSeq(s, 1, n)[i] = s[1 + i - 1]
    BY <1>1, <1>2, SubSeqProperties
  <1>5. n - 1 + 1 = n /\ \A i \in 1..n : 1 + i - 1 = i
    BY <1>1
  <1>6. QED
    BY <1>1, <1>3, <1>4, <1>5 DEF n

\* Dependencies are steps.
LEMMA DepsAreSteps ==
    ASSUME NEW s \in Step
    PROVE  /\ Dep[s] \in Seq(Step)
           /\ Deps(s) \subseteq Step
           /\ \A i \in 1..Len(Dep[s]) : Dep[s][i] \in Deps(s) /\ Dep[s][i] \in Step
  BY GraphAssumption DEF Deps

\* Reach[r] is the least set of steps that holds r and all dependencies of
\* its members.
LEMMA ReachClosed ==
    ASSUME NEW r \in Step
    PROVE  /\ r \in Reach[r] /\ Reach[r] \subseteq Step
           /\ \A s \in Reach[r] : Deps(s) \subseteq Reach[r]
  <1>1. r \in Reach[r] /\ Reach[r] \subseteq Step
    BY DEF Reach
  <1>2. ASSUME NEW s \in Reach[r], NEW d \in Deps(s)
        PROVE  d \in Reach[r]
    <2>1. s \in Step
      BY <1>1
    <2>2. d \in Step
      BY <2>1, <1>2, DepsAreSteps
    <2>3. ASSUME NEW T \in Closed, r \in T
          PROVE  d \in T
      <3>1. s \in T
        BY <1>2, <2>1, <2>3 DEF Reach
      <3>2. QED
        BY <3>1, <1>2, <2>3 DEF Closed
    <2>4. QED
      BY <2>2, <2>3 DEF Reach
  <1>3. QED
    BY <1>1, <1>2

LEMMA ReachLeast ==
    ASSUME NEW r \in Step, NEW T \in SUBSET Step, r \in T,
           \A s \in T : Deps(s) \subseteq T
    PROVE  Reach[r] \subseteq T
  <1>1. T \in Closed
    BY DEF Closed
  <1>2. QED
    BY <1>1 DEF Reach
-----------------------------------------------------------------------------
(* Types *)

LEMMA TopTyped ==
    ASSUME TypeOK, frames # <<>>
    PROVE  /\ Len(frames) \in Nat \ {0}
           /\ Top \in Frame
           /\ \A i \in 1..Len(frames) : frames[i] \in Frame
  <1>1. frames \in Seq(Frame)
    BY DEF TypeOK
  <1>2. Len(frames) \in Nat \ {0}
    BY <1>1, EmptySeq
  <1>3. \A i \in 1..Len(frames) : frames[i] \in Frame
    BY <1>1, ElementOfSeq
  <1>4. QED
    BY <1>2, <1>3 DEF Top

\* Replacing the last frame.
LEMMA TopReplaced ==
    ASSUME TypeOK, frames # <<>>, NEW f \in Frame
    PROVE  LET new == [frames EXCEPT ![Len(frames)] = f]
           IN  /\ new \in Seq(Frame)
               /\ new # <<>>
               /\ Len(new) = Len(frames)
               /\ new[Len(frames)] = f
               /\ \A i \in 1..(Len(frames) - 1) : new[i] = frames[i]
  <1> DEFINE new == [frames EXCEPT ![Len(frames)] = f]
  <1>1. frames \in Seq(Frame) /\ Len(frames) \in Nat \ {0}
    BY TopTyped DEF TypeOK
  <1>2. /\ new \in Seq(Frame)
        /\ Len(new) = Len(frames)
        /\ \A j \in 1..Len(frames) : new[j] = IF j = Len(frames) THEN f ELSE frames[j]
    BY <1>1, ExceptSeq
  <1>3. new # <<>>
    BY <1>1, <1>2, EmptySeq
  <1> HIDE DEF new
  <1>4. /\ new[Len(frames)] = f
        /\ \A i \in 1..(Len(frames) - 1) : new[i] = frames[i]
    BY <1>1, <1>2
  <1>5. QED
    BY <1>2, <1>3, <1>4 DEF new

LEMMA CurrentTyped ==
    ASSUME TypeOK, frames # <<>>, Top.at <= Len(Dep[Top.step])
    PROVE  Current \in Deps(Top.step) /\ Current \in Step
  <1>1. Top \in Frame
    BY TopTyped
  <1>2. Top.at \in 1..Len(Dep[Top.step])
    <2>1. Dep[Top.step] \in Seq(Step)
      BY <1>1, DepsAreSteps DEF Frame
    <2>2. QED
      BY <1>1, <2>1, LenProperties DEF Frame
  <1>3. QED
    BY <1>1, <1>2, DepsAreSteps DEF Current, Frame

LEMMA CmdTyped ==
    ASSUME NEW procs \in P!ProcType, NEW s \in Step, NEW o \in P!aven_proc_cmd(procs, s)
    PROVE  /\ o.proc \in P!ProcType
           /\ o.err = "OK" => o.pid \in Pid
  BY DEF P!aven_proc_cmd, P!ProcType, P!Ended

LEMMA WaitTyped ==
    ASSUME NEW procs \in P!ProcType, NEW p \in Pid \cup {NoPid},
           NEW o \in P!aven_proc_wait(procs, p)
    PROVE  o.proc \in P!ProcType
  <1>1. P!Free \in [st : {"free", "live", "orphan"} \cup P!Ended, cmd : Step \cup {NoStep}]
    BY DEF P!Free
  <1>2. \A q \in Pid : [procs EXCEPT ![q] = P!Free] \in P!ProcType
    BY <1>1 DEF P!ProcType
  <1>3. P!Target(procs, p) \subseteq Pid
    BY DEF P!Target, P!Children
  <1>4. QED
    BY <1>2, <1>3 DEF P!aven_proc_wait

LEMMA FsTyped ==
    ASSUME NEW f \in F!FsType, NEW p \in Path
    PROVE  /\ \A o \in F!aven_fs_rm(f, p) : o.fs \in F!FsType
           /\ \A o \in F!aven_fs_rmdir(f, p) : o.fs \in F!FsType
           /\ \A o \in F!aven_fs_mkdir(f, p) : o.fs \in F!FsType
           /\ \A o \in F!aven_fs_trunc(f, p) : o.fs \in F!FsType
           /\ \A i \in Path : \A o \in F!aven_fs_copy(f, i, p) : o.fs \in F!FsType
  <1>1. \A k \in F!Kind : F!Put(f, p, k) \in F!FsType
    BY DEF F!Put, F!FsType
  <1>2. /\ F!Put(f, p, "none") \in F!FsType
        /\ F!Put(f, p, "file") \in F!FsType
        /\ F!Put(f, p, "dir") \in F!FsType
    BY <1>1 DEF F!Kind
  <1>3. \A g \in F!FsType : \A e : F!Outcome(g, e).fs \in F!FsType
    BY DEF F!Outcome
  <1>4. \A g \in F!FsType : \A E : \A o \in F!Refused(g, E) : o.fs \in F!FsType
    BY <1>3 DEF F!Refused
  <1>5. \A o \in F!aven_fs_rm(f, p) : o.fs \in F!FsType
    BY <1>2, <1>3, <1>4 DEF F!aven_fs_rm
  <1>6. \A o \in F!aven_fs_rmdir(f, p) : o.fs \in F!FsType
    BY <1>2, <1>3, <1>4 DEF F!aven_fs_rmdir
  <1>7. \A o \in F!aven_fs_mkdir(f, p) : o.fs \in F!FsType
    BY <1>2, <1>3, <1>4 DEF F!aven_fs_mkdir
  <1>8. \A o \in F!aven_fs_trunc(f, p) : o.fs \in F!FsType
    BY <1>2, <1>3, <1>4 DEF F!aven_fs_trunc
  <1>9. \A i \in Path : \A o \in F!aven_fs_copy(f, i, p) : o.fs \in F!FsType
    BY <1>2, <1>3, <1>4 DEF F!aven_fs_copy, F!CopyPosix, F!CopyWindows
  <1>10. QED
    BY <1>5, <1>6, <1>7, <1>8, <1>9

\* The operation of a step leaves a file system, and reports an error of the
\* step's own type, a missing out_path or nothing.
LEMMA EffectTyped ==
    ASSUME TypeOK, NEW s \in Step, Type[s] # "CMD", NEW o \in Effect(s)
    PROVE  /\ o.fs \in F!FsType
           /\ StepError(s, o.err) \in {"OK"} \cup RunError
  <1>1. fs \in F!FsType
    BY DEF TypeOK
  <1>2. Type[s] \in StepType /\ Out[s] \in Path \cup {NoPath}
    BY GraphAssumption, PathAssumption
  <1>3. CASE Type[s] \in {"TRUNC", "MKDIR", "COPY"} /\ Out[s] = NoPath
    BY <1>1, <1>3 DEF Effect, F!Outcome, StepError, RunError
  <1>4. CASE Type[s] \in {"ROOT", "PATH"}
    <2>1. o = F!Outcome(fs, "OK")
      BY <1>4 DEF Effect
    <2>2. QED
      BY <1>1, <2>1 DEF F!Outcome, StepError
  <1>5. CASE Type[s] \in {"RM", "RMDIR"}
    <2>1. Arg[s] \in Path
      BY <1>5, PathAssumption
    <2>2. o \in F!aven_fs_rm(fs, Arg[s]) \/ o \in F!aven_fs_rmdir(fs, Arg[s])
      BY <1>5 DEF Effect
    <2>3. o.fs \in F!FsType
      BY <1>1, <2>1, <2>2, FsTyped
    <2>4. QED
      BY <1>5, <2>3 DEF StepError, RunError
  <1>6. CASE Type[s] \in {"TRUNC", "MKDIR", "COPY"} /\ Out[s] # NoPath
    <2>1. Out[s] \in Path /\ (Type[s] = "COPY" => Arg[s] \in Path)
      BY <1>2, <1>6, PathAssumption
    <2>2. \/ o \in F!aven_fs_trunc(fs, Out[s])
          \/ o \in F!aven_fs_mkdir(fs, Out[s])
          \/ Type[s] = "COPY" /\ o \in F!aven_fs_copy(fs, Arg[s], Out[s])
      BY <1>6 DEF Effect
    <2>3. o.fs \in F!FsType
      BY <1>1, <2>1, <2>2, FsTyped
    <2>4. QED
      BY <1>6, <2>3 DEF StepError, RunError
  <1>7. QED
    BY <1>2, <1>3, <1>4, <1>5, <1>6 DEF StepType

LEMMA InitTypeOK == Init => TypeOK
  <1> SUFFICES ASSUME Init PROVE TypeOK
    OBVIOUS
  <1>1. proc \in P!ProcType
    BY DEF Init, P!ProcType, P!Free
  <1>2. fs \in F!FsType
    BY DEF Init, F!FsType, F!Kind
  <1>3. frames \in Seq(Frame) /\ todo \in Seq(Step)
    BY EmptySeq DEF Init
  <1>4. QED
    BY <1>1, <1>2, <1>3, GraphAssumption DEF Init, TypeOK, StepState

\* The type invariant is inductive, even under a client that runs anything.
LEMMA NextTypeOK == TypeOK /\ [RetryNext]_vars => TypeOK'
  <1> SUFFICES ASSUME TypeOK, [RetryNext]_vars PROVE TypeOK'
    OBVIOUS
  <1> USE DEF TypeOK
  <1>1. ASSUME frames # <<>>
        PROVE  /\ Front(frames) \in Seq(Frame) /\ Advance \in Seq(Frame)
               /\ Advance # <<>>
               /\ Top \in Frame
               /\ op = "run" /\ todo = <<>>
    <2>1. Top \in Frame /\ [Top EXCEPT !.at = @ + 1] \in Frame
      <3>1. Top \in Frame
        BY <1>1, TopTyped
      <3>2. QED
        BY <3>1 DEF Frame
    <2>2. Advance = [frames EXCEPT ![Len(frames)] = [Top EXCEPT !.at = @ + 1]]
      BY DEF Advance, Top
    <2>3. Advance \in Seq(Frame) /\ Advance # <<>>
      BY <1>1, <2>1, <2>2, TopReplaced
    <2>4. QED
      BY <1>1, <2>1, <2>3, FrontFacts
  <1>2. CASE EarlyReturn
    BY <1>1, <1>2 DEF EarlyReturn, Executing, Return
  <1>3. CASE Enter
    <2>1. Begin(Top.step, "run") \in Frame
      BY <1>1, <1>3 DEF Enter, Executing, Begin, Frame
    <2>2. frames' \in Seq(Frame) /\ frames' # <<>>
      BY <1>3, <2>1, TopReplaced DEF Enter, Executing
    <2>3. QED
      BY <1>1, <1>3, <2>2 DEF Enter, Executing
  <1>4. CASE RunDep
    <2>1. Current \in Step
      BY <1>4, CurrentTyped DEF RunDep, InLoop, InLoopAt, Executing
    <2>2. Begin(Current, "entry") \in Frame
      BY <2>1 DEF Begin, Frame
    <2>3. frames' \in Seq(Frame) /\ frames' # <<>>
      BY <1>4, <2>2, AppendProperties DEF RunDep
    <2>4. QED
      BY <1>1, <1>4, <2>3 DEF RunDep, InLoop, Executing
  <1>5. CASE Resume
    BY <1>1, <1>5 DEF Resume
  <1>6. CASE PropagateError
    BY <1>1, <1>6 DEF PropagateError, Return, RunError
  <1>7. CASE BeginWait
    <2>1. Begin(Top.step, "wait") \in Frame
      BY <1>1, <1>7 DEF BeginWait, LoopEnded, Executing, Begin, Frame
    <2>2. frames' \in Seq(Frame) /\ frames' # <<>>
      BY <1>7, <2>1, TopReplaced DEF BeginWait, LoopEnded, Executing
    <2>3. QED
      BY <1>1, <1>7, <2>2 DEF BeginWait, LoopEnded, Executing
  <1>8. CASE SkipWait
    BY <1>1, <1>8 DEF SkipWait, InLoop, Executing
  <1>9. CASE WaitDep
    <2>1. frames # <<>> /\ Current \in Step
      BY <1>9, CurrentTyped DEF WaitDep, InLoop, InLoopAt, Executing
    <2>2. PICK o \in P!aven_proc_wait(proc, pid[Current]) :
            proc' = o.proc /\ Waited(o.err) /\ Blame(Current, o.err)
      BY <1>9 DEF WaitDep
    <2>3. proc' \in P!ProcType
      BY <2>1, <2>2, WaitTyped
    <2>4. state' \in [Step -> StepState] /\ failed' \subseteq Step
      BY <1>9, <2>1, <2>2 DEF WaitDep, WaitedState, StepState, Blame
    <2>5. /\ frames' \in Seq(Frame)
          /\ ret' \in {"OK", "BUSY"} \cup RunError
          /\ ret' = "BUSY" => frames' # <<>>
      BY <1>1, <2>1, <2>2 DEF Waited, Return, RunError
    <2>6. QED
      BY <1>1, <1>9, <2>1, <2>3, <2>4, <2>5 DEF WaitDep
  <1>10. CASE ExecCmd
    <2>1. frames # <<>> /\ Top.step \in Step
      BY <1>1, <1>10 DEF ExecCmd, LoopEnded, Executing, Frame
    <2>2. PICK o \in P!aven_proc_cmd(proc, Top.step) :
            /\ proc' = o.proc
            /\ pid' = IF o.err = "OK" THEN [pid EXCEPT ![Top.step] = o.pid] ELSE pid
            /\ Return(CmdError(o.err))
            /\ Blame(Top.step, o.err)
      BY <1>10 DEF ExecCmd
    <2>3. proc' \in P!ProcType /\ (o.err = "OK" => o.pid \in Pid)
      BY <2>1, <2>2, CmdTyped
    <2>4. pid' \in [Step -> Pid \cup {NoPid}]
      BY <2>1, <2>2, <2>3
    <2>5. state' \in [Step -> StepState] /\ failed' \subseteq Step
      BY <1>10, <2>1, <2>2 DEF ExecCmd, StepState, Blame
    <2>6. frames' \in Seq(Frame) /\ ret' \in {"OK"} \cup RunError
      BY <1>1, <2>1, <2>2 DEF Return, CmdError, RunError
    <2>7. QED
      BY <1>1, <1>10, <2>1, <2>3, <2>4, <2>5, <2>6 DEF ExecCmd, RunError
  <1>11. CASE ExecFs
    <2>1. frames # <<>> /\ Top.step \in Step /\ Type[Top.step] # "CMD"
      BY <1>1, <1>11 DEF ExecFs, LoopEnded, Executing, Frame
    <2>2. PICK o \in Effect(Top.step) :
            LET e == StepError(Top.step, o.err)
            IN  /\ fs' = o.fs
                /\ state' = [state EXCEPT ![Top.step] =
                                IF e = "OK" THEN "DONE" ELSE "RUNNING"]
                /\ Return(e)
                /\ Blame(Top.step, e)
      BY <1>11 DEF ExecFs
    <2>3. fs' \in F!FsType /\ StepError(Top.step, o.err) \in {"OK"} \cup RunError
      BY <2>1, <2>2, EffectTyped
    <2>4. state' \in [Step -> StepState] /\ failed' \subseteq Step
      BY <2>1, <2>2 DEF StepState, Blame
    <2>5. frames' \in Seq(Frame) /\ ret' \in {"OK"} \cup RunError
      BY <1>1, <2>1, <2>2, <2>3 DEF Return
    <2>6. QED
      BY <1>1, <1>11, <2>1, <2>3, <2>4, <2>5 DEF ExecFs, RunError
  <1>12. CASE CleanVisit
    <2>1. Head(todo) \in Step /\ Tail(todo) \in Seq(Step)
      BY <1>12, HeadTailProperties DEF CleanVisit
    <2>2. todo' \in Seq(Step)
      BY <1>12, <2>1, DepsAreSteps, ConcatProperties DEF CleanVisit, VisitNext
    <2>3. fs' \in F!FsType
      <3>1. CASE Out[Head(todo)] = NoPath
        BY <1>12, <3>1 DEF CleanVisit, Removed
      <3>2. CASE Out[Head(todo)] # NoPath
        <4> DEFINE p == Out[Head(todo)]
        <4>1. p \in Path
          BY <2>1, <3>2, PathAssumption
        <4>2. PICK o \in F!aven_fs_rm(fs, p) : fs' \in {q.fs : q \in F!aven_fs_rmdir(o.fs, p)}
          BY <1>12, <3>2 DEF CleanVisit, Removed
        <4>3. o.fs \in F!FsType
          BY <4>1, <4>2, FsTyped
        <4>4. QED
          BY <4>1, <4>2, <4>3, FsTyped
      <3>3. QED
        BY <3>1, <3>2
    <2>4. QED
      BY <1>12, <2>1, <2>2, <2>3 DEF CleanVisit, CleanState, StepState
  <1>13. ASSUME Restart
         PROVE  TypeOK'
    <2>1. proc' \in P!ProcType
      BY <1>13 DEF Restart, P!ProcType, P!Free
    <2>2. QED
      BY <1>13, <2>1, EmptySeq, GraphAssumption DEF Restart, StepState
  <1>14. ASSUME NEW r \in Roots, CallRun(r)
         PROVE  TypeOK'
    <2>1. Begin(r, "entry") \in Frame
      BY GraphAssumption DEF Begin, Frame
    <2>2. frames' \in Seq(Frame) /\ frames' # <<>>
      BY <1>14, <2>1 DEF CallRun
    <2>3. r # NoStep
      BY GraphAssumption
    <2>4. QED
      BY <1>14, <2>2, <2>3 DEF CallRun, Idle
  <1>15. ASSUME NEW r \in Roots, CallClean(r)
         PROVE  TypeOK'
    <2>1. todo' \in Seq(Step) /\ todo' # <<>>
      BY <1>15, GraphAssumption DEF CallClean
    <2>2. r # NoStep
      BY GraphAssumption
    <2>3. QED
      BY <1>15, <2>1, <2>2 DEF CallClean, Idle
  <1>16. ASSUME NEW r \in Roots, CallReset(r)
         PROVE  TypeOK'
    <2>1. state' \in [Step -> StepState]
      BY <1>16 DEF CallReset, ResetState, StepState
    <2>2. r # NoStep
      BY GraphAssumption
    <2>3. QED
      BY <1>16, <2>1, <2>2 DEF CallReset, Idle
  <1>17. ASSUME NEW p \in Pid, CommandEnds(p)
         PROVE  TypeOK'
    <2>1. PICK W : fs' = Make(W)
      BY <1>17 DEF CommandEnds, ExitOk, ExitError, Killed, Fail
    <2>2. fs' \in F!FsType
      BY <2>1 DEF Make, F!FsType, F!Kind
    <2>3. proc' \in P!ProcType
      <3>1. PICK how \in P!Ended : Leave(p, how)
        BY <1>17 DEF CommandEnds, ExitOk, ExitError, Killed, Fail, P!Ended
      <3>2. QED
        BY <3>1 DEF Leave, P!ProcType, P!Free
    <2>4. UNCHANGED prog
      BY <1>17 DEF CommandEnds, ExitOk, ExitError, Killed, Fail
    <2>5. QED
      BY <2>2, <2>3, <2>4 DEF prog
  <1>18. CASE UNCHANGED vars
    BY <1>18 DEF vars, prog
  <1>19. QED
    BY <1>2, <1>3, <1>4, <1>5, <1>6, <1>7, <1>8, <1>9, <1>10, <1>11, <1>12, <1>13,
       <1>14, <1>15, <1>16, <1>17, <1>18 DEF RetryNext, Others, Run

\* Every variable keeps its type, whatever the client does.
THEOREM TypeCorrect == RetrySpec => []TypeOK
  <1>1. QED
    BY InitTypeOK, NextTypeOK, PTL DEF RetrySpec
-----------------------------------------------------------------------------
(* The stack *)

\* Where the graph has no cycle, the step a call descends to is not on the
\* stack already.
LEMMA NoStepTwice ==
    ASSUME NEW r \in Step, NEW stack \in Seq(Frame), stack # <<>>, IsPath(r, stack),
           NEW d \in Deps(stack[Len(stack)].step)
    PROVE  \A i \in 1..Len(stack) : stack[i].step # d
  <1> SUFFICES ASSUME NEW i \in 1..Len(stack), stack[i].step = d
               PROVE  FALSE
    OBVIOUS
  <1> DEFINE n == Len(stack)
             S == {stack[k].step : k \in i..n}
  <1>1. n \in Nat \ {0}
    BY EmptySeq
  <1>2. \A k \in 1..n : stack[k] \in Frame
    BY ElementOfSeq
  <1>3. S \in SUBSET Step /\ d \in S
    BY <1>1, <1>2 DEF Frame
  <1>4. PICK s \in S : Deps(s) \cap S = {}
    BY <1>3, AcyclicAssumption
  <1>5. PICK k \in i..n : s = stack[k].step
    BY <1>4
  <1>6. CASE k = n
    BY <1>3, <1>4, <1>5, <1>6
  <1>7. CASE k < n
    <2>1. /\ stack[k + 1].step = Dep[s][stack[k].at]
          /\ stack[k].at <= Len(Dep[s])
      BY <1>1, <1>5, <1>7 DEF IsPath
    <2>2. stack[k].at \in Nat \ {0} /\ s \in Step
      BY <1>1, <1>2, <1>5 DEF Frame
    <2>3. stack[k].at \in 1..Len(Dep[s])
      <3>1. Len(Dep[s]) \in Nat
        BY <2>2, DepsAreSteps, LenProperties
      <3>2. QED
        BY <2>1, <2>2, <3>1
    <2>4. stack[k + 1].step \in Deps(s)
      BY <2>1, <2>2, <2>3, DepsAreSteps
    <2>5. stack[k + 1].step \in S
      BY <1>1, <1>5, <1>7
    <2>6. QED
      BY <1>4, <2>4, <2>5
  <1>8. QED
    BY <1>1, <1>5, <1>6, <1>7

\* Popping a path leaves a path, which deals with the step that was on top.
LEMMA PopPath ==
    ASSUME NEW r \in Step, NEW stack \in Seq(Frame), stack # <<>>, IsPath(r, stack)
    PROVE  /\ IsPath(r, Front(stack))
           /\ \A st : st[stack[Len(stack)].step] # "NONE" => Dealt(r, Front(stack), st)
  <1> DEFINE n == Len(stack)
             new == Front(stack)
  <1>1. n \in Nat \ {0}
    BY EmptySeq
  <1>2. /\ new \in Seq(Frame)
        /\ Len(new) = n - 1
        /\ \A i \in 1..(n - 1) : new[i] = stack[i]
    BY FrontFacts
  <1>3. new # <<>> => n - 1 \in 1..(n - 1) /\ 1 \in 1..(n - 1)
    BY <1>1, <1>2, EmptySeq
  <1> HIDE DEF new, n
  <1>4. IsPath(r, new)
    <2>1. new # <<>> => new[1].step = r
      BY <1>1, <1>2, <1>3 DEF IsPath, n
    <2>2. ASSUME NEW i \in 1..(n - 1)
          PROVE  /\ new[i].step \in Reach[r]
                 /\ new[i].at <= Len(Dep[new[i].step]) + 1
                 /\ i < n - 1 =>
                        /\ new[i].loop = "run"
                        /\ new[i].at <= Len(Dep[new[i].step])
                        /\ new[i + 1].step = Dep[new[i].step][new[i].at]
      <3>1. i \in 1..n /\ i < n /\ new[i] = stack[i]
        BY <1>1, <1>2
      <3>2. i < n - 1 => new[i + 1] = stack[i + 1]
        BY <1>1, <1>2
      <3>3. QED
        BY <3>1, <3>2 DEF IsPath, n
    <2>3. ASSUME NEW i \in 1..(n - 1), NEW j \in 1..(n - 1), i # j
          PROVE  new[i].step # new[j].step
      <3>1. i \in 1..n /\ j \in 1..n
        BY <1>1
      <3>2. stack[i].step # stack[j].step
        BY <2>3, <3>1 DEF IsPath, n
      <3>3. QED
        BY <1>2, <3>2
    <2>4. QED
      BY <1>2, <2>1, <2>2, <2>3 DEF IsPath
  <1>5. ASSUME NEW st, st[stack[n].step] # "NONE"
        PROVE  Dealt(r, new, st)
    <2>1. CASE new = <<>>
      <3>1. n = 1
        BY <1>1, <1>2, <2>1, EmptySeq
      <3>2. QED
        BY <1>5, <2>1, <3>1 DEF IsPath, Dealt, n
    <2>2. CASE new # <<>>
      <3>1. n - 1 \in 1..n /\ n - 1 < n /\ new[n - 1] = stack[n - 1]
        BY <1>1, <1>2, <1>3, <2>2
      <3>2. /\ stack[n - 1].loop = "run"
            /\ stack[n - 1].at <= Len(Dep[stack[n - 1].step])
            /\ stack[(n - 1) + 1].step = Dep[stack[n - 1].step][stack[n - 1].at]
        BY <3>1 DEF IsPath, n
      <3>3. (n - 1) + 1 = n
        BY <1>1
      <3>4. QED
        BY <1>2, <1>5, <2>2, <3>1, <3>2, <3>3 DEF Dealt
    <2>3. QED
      BY <2>1, <2>2
  <1>6. QED
    BY <1>4, <1>5 DEF new, n

\* Changing the loop and the position of the top frame leaves a path.
LEMMA ReplacePath ==
    ASSUME NEW r \in Step, NEW stack \in Seq(Frame), stack # <<>>, IsPath(r, stack),
           NEW f \in Frame, f.step = stack[Len(stack)].step,
           f.at <= Len(Dep[f.step]) + 1
    PROVE  LET new == [stack EXCEPT ![Len(stack)] = f]
           IN  /\ IsPath(r, new)
               /\ new \in Seq(Frame) /\ new # <<>>
               /\ Len(new) = Len(stack)
               /\ new[Len(stack)] = f
               /\ \A i \in 1..(Len(stack) - 1) : new[i] = stack[i]
  <1> DEFINE n == Len(stack)
             new == [stack EXCEPT ![n] = f]
  <1>1. n \in Nat \ {0}
    BY EmptySeq
  <1>2. /\ new \in Seq(Frame)
        /\ Len(new) = n
        /\ \A j \in 1..n : new[j] = IF j = n THEN f ELSE stack[j]
    BY <1>1, ExceptSeq
  <1>3. new # <<>>
    BY <1>1, <1>2, EmptySeq
  <1> HIDE DEF new
  <1>4. new[n] = f /\ \A i \in 1..(n - 1) : new[i] = stack[i]
    BY <1>1, <1>2
  <1>5. \A i \in 1..n : new[i].step = stack[i].step
    BY <1>2
  <1>6. IsPath(r, new)
    <2>1. new[1].step = r
      BY <1>1, <1>5 DEF IsPath
    <2>2. ASSUME NEW i \in 1..n
          PROVE  /\ new[i].step \in Reach[r]
                 /\ new[i].at <= Len(Dep[new[i].step]) + 1
                 /\ i < n => /\ new[i].loop = "run"
                             /\ new[i].at <= Len(Dep[new[i].step])
                             /\ new[i + 1].step = Dep[new[i].step][new[i].at]
      <3>1. new[i].step \in Reach[r]
        BY <1>5 DEF IsPath
      <3>2. CASE i = n
        <4>1. new[i] = f /\ ~ (i < n)
          BY <1>1, <1>4, <3>2
        <4>2. QED
          BY <3>1, <4>1
      <3>3. CASE i # n
        <4>1. i < n /\ new[i] = stack[i] /\ i + 1 \in 1..n
          BY <1>1, <1>2, <3>3
        <4>2. QED
          BY <1>5, <3>1, <4>1 DEF IsPath
      <3>4. QED
        BY <3>2, <3>3
    <2>3. \A i, j \in 1..n : i # j => new[i].step # new[j].step
      BY <1>5 DEF IsPath
    <2>4. QED
      BY <1>2, <2>1, <2>2, <2>3 DEF IsPath
  <1>7. QED
    BY <1>2, <1>3, <1>4, <1>6 DEF new

\* Descending to a dependency makes the path longer.
LEMMA PushPath ==
    ASSUME NEW r \in Step, NEW stack \in Seq(Frame), stack # <<>>, IsPath(r, stack),
           stack[Len(stack)].loop = "run",
           stack[Len(stack)].at <= Len(Dep[stack[Len(stack)].step])
    PROVE  LET top == stack[Len(stack)]
               new == Append(stack, Begin(Dep[top.step][top.at], "entry"))
           IN  /\ IsPath(r, new)
               /\ Len(new) = Len(stack) + 1
               /\ new[Len(stack) + 1].loop = "entry"
               /\ \A i \in 1..Len(stack) : new[i] = stack[i]
  <1> DEFINE n == Len(stack)
             top == stack[n]
             d == Dep[top.step][top.at]
             f == Begin(d, "entry")
             new == Append(stack, f)
  <1>1. n \in Nat \ {0}
    BY EmptySeq
  <1>2. top \in Frame
    BY <1>1, ElementOfSeq
  <1>3. top.step \in Reach[r]
    BY <1>1 DEF IsPath
  <1>4. d \in Deps(top.step) /\ d \in Step
    <2>1. top.step \in Step /\ top.at \in Nat \ {0}
      BY <1>2 DEF Frame
    <2>2. Len(Dep[top.step]) \in Nat
      BY <2>1, DepsAreSteps, LenProperties
    <2>3. top.at \in 1..Len(Dep[top.step])
      BY <2>1, <2>2
    <2>4. QED
      BY <2>1, <2>3, DepsAreSteps
  <1>5. f \in Frame /\ f.step = d /\ f.loop = "entry" /\ f.at = 1
    BY <1>4 DEF Begin, Frame
  <1>6. d \in Reach[r] /\ Len(Dep[d]) \in Nat
    BY <1>3, <1>4, ReachClosed, DepsAreSteps, LenProperties
  <1>7. \A i \in 1..n : stack[i].step # d
    BY <1>4, NoStepTwice
  <1> HIDE DEF f
  <1>8. /\ Len(new) = n + 1
        /\ new[n + 1] = f
        /\ \A i \in 1..n : new[i] = stack[i]
    BY <1>5, AppendProperties
  <1> HIDE DEF new
  <1>9. IsPath(r, new)
    <2>1. new[1].step = r
      BY <1>1, <1>8 DEF IsPath
    <2>2. ASSUME NEW i \in 1..(n + 1)
          PROVE  /\ new[i].step \in Reach[r]
                 /\ new[i].at <= Len(Dep[new[i].step]) + 1
                 /\ i < n + 1 => /\ new[i].loop = "run"
                                 /\ new[i].at <= Len(Dep[new[i].step])
                                 /\ new[i + 1].step = Dep[new[i].step][new[i].at]
      <3>1. CASE i = n + 1
        BY <1>1, <1>5, <1>6, <1>8, <3>1
      <3>2. CASE i = n
        BY <1>1, <1>3, <1>5, <1>8, <3>2 DEF IsPath
      <3>3. CASE i < n
        <4>1. i \in 1..n /\ i + 1 \in 1..n
          BY <1>1, <3>3
        <4>2. new[i] = stack[i] /\ new[i + 1] = stack[i + 1]
          BY <1>8, <4>1
        <4>3. QED
          BY <3>3, <4>1, <4>2 DEF IsPath
      <3>4. QED
        BY <1>1, <3>1, <3>2, <3>3
    <2>3. ASSUME NEW i \in 1..(n + 1), NEW j \in 1..(n + 1), i # j
          PROVE  new[i].step # new[j].step
      <3>1. CASE i = n + 1
        BY <1>1, <1>5, <1>7, <1>8, <2>3, <3>1
      <3>2. CASE j = n + 1
        BY <1>1, <1>5, <1>7, <1>8, <2>3, <3>2
      <3>3. CASE i # n + 1 /\ j # n + 1
        <4>1. i \in 1..n /\ j \in 1..n
          BY <1>1, <3>3
        <4>2. QED
          BY <1>8, <2>3, <4>1 DEF IsPath
      <3>4. QED
        BY <3>1, <3>2, <3>3
    <2>4. QED
      BY <1>8, <2>1, <2>2, <2>3 DEF IsPath
  <1>10. QED
    BY <1>5, <1>8, <1>9 DEF new, f

\* The dependencies a frame has passed are dependencies of its step; moving on
\* adds the current one; at the end of the list they are all of them.
LEMMA PassedFacts ==
    ASSUME NEW f \in Frame, f.at <= Len(Dep[f.step]) + 1
    PROVE  /\ Passed(f) \subseteq Deps(f.step)
           /\ f.at > Len(Dep[f.step]) => Passed(f) = Deps(f.step)
           /\ f.at <= Len(Dep[f.step]) =>
                /\ Dep[f.step][f.at] \in Deps(f.step)
                /\ Passed([f EXCEPT !.at = @ + 1])
                        \subseteq Passed(f) \cup {Dep[f.step][f.at]}
  <1> DEFINE n == Len(Dep[f.step])
             g == [f EXCEPT !.at = @ + 1]
  <1>1. f.step \in Step /\ f.at \in Nat \ {0}
    BY DEF Frame
  <1>2. n \in Nat
    BY <1>1, DepsAreSteps, LenProperties
  <1>3. g.step = f.step /\ g.at = f.at + 1
    BY DEF Frame
  <1> HIDE DEF g
  <1>4. Passed(g) = {Dep[f.step][i] : i \in 1..f.at}
    <2>1. (f.at + 1) - 1 = f.at
      BY <1>1
    <2>2. QED
      BY <1>3, <2>1 DEF Passed
  <1>5. Passed(g) \subseteq Passed(f) \cup {Dep[f.step][f.at]}
    <2>1. \A i \in 1..f.at : i = f.at \/ i \in 1..(f.at - 1)
      BY <1>1
    <2>2. QED
      BY <1>4, <2>1 DEF Passed
  <1>6. Passed(f) \subseteq Deps(f.step)
    <2>1. \A i \in 1..(f.at - 1) : i \in 1..n
      BY <1>1, <1>2
    <2>2. QED
      BY <2>1 DEF Passed, Deps
  <1>7. f.at > n => Passed(f) = Deps(f.step)
    <2>1. f.at > n => f.at - 1 = n
      BY <1>1, <1>2
    <2>2. QED
      BY <2>1 DEF Passed, Deps
  <1>8. f.at <= n => Dep[f.step][f.at] \in Deps(f.step)
    <2>1. f.at <= n => f.at \in 1..n
      BY <1>1, <1>2
    <2>2. QED
      BY <2>1 DEF Deps
  <1>9. QED
    BY <1>5, <1>6, <1>7, <1>8 DEF g

\* How a step of a run changes the states: only s may leave NONE, nothing
\* returns to it, and what is DONE stays so.
Grows(st, new, s) == \A d \in Step :
    /\ st[d] = "NONE" /\ d # s => new[d] = "NONE"
    /\ st[d] # "NONE" => new[d] # "NONE"
    /\ st[d] = "DONE" => new[d] = "DONE"

\* Whatever the step on top does to the states, the frames below it keep what
\* they have established.
LEMMA LowerFrames ==
    ASSUME NEW r \in Step, NEW stack \in Seq(Frame), stack # <<>>,
           NEW st, NEW new, Sound(r, stack, st),
           Grows(st, new, stack[Len(stack)].step)
    PROVE  \A i \in 1..(Len(stack) - 1) : Established(stack[i], new)
  <1> SUFFICES ASSUME NEW i \in 1..(Len(stack) - 1)
               PROVE  Established(stack[i], new)
    OBVIOUS
  <1> DEFINE n == Len(stack)
             f == stack[i]
  <1>1. n \in Nat \ {0}
    BY EmptySeq
  <1>2. i \in 1..n /\ i < n /\ n \in 1..n
    BY <1>1
  <1>0. f \in Frame
    BY <1>2, ElementOfSeq
  <1>3. f \in Frame /\ f.step \in Step
    BY <1>0 DEF Frame
  <1>p. IsPath(r, stack)
    BY DEF Sound
  <1>4. f.loop = "run" /\ f.step # stack[n].step /\ f.at <= Len(Dep[f.step]) + 1
    <2>1. f.loop = "run" /\ f.at <= Len(Dep[f.step]) + 1
      BY <1>2, <1>p DEF IsPath
    <2>2. \A j, k \in 1..n : j # k => stack[j].step # stack[k].step
      BY <1>p DEF IsPath
    <2>3. f.step # stack[n].step
      BY <1>2, <2>2
    <2>4. QED
      BY <2>1, <2>3
  <1>5. Established(f, st)
    BY <1>2 DEF Sound
  <1>6. new[f.step] = "NONE"
    BY <1>3, <1>4, <1>5 DEF Established, Grows
  <1>7. Passed(f) \subseteq Step
    BY <1>3, <1>4, PassedFacts, DepsAreSteps
  <1>8. QED
    BY <1>4, <1>5, <1>6, <1>7 DEF Established, Grows

LEMMA PopSound ==
    ASSUME NEW r \in Step, NEW stack \in Seq(Frame), stack # <<>>,
           NEW st, NEW new, Sound(r, stack, st),
           Grows(st, new, stack[Len(stack)].step)
    PROVE  /\ Sound(r, Front(stack), new)
           /\ new[stack[Len(stack)].step] # "NONE" => Dealt(r, Front(stack), new)
  <1>1. IsPath(r, stack)
    BY DEF Sound
  <1>2. \A i \in 1..(Len(stack) - 1) : Established(stack[i], new)
    BY LowerFrames
  <1>3. /\ Len(Front(stack)) = Len(stack) - 1
        /\ \A i \in 1..(Len(stack) - 1) : Front(stack)[i] = stack[i]
    BY FrontFacts
  <1>4. \A i \in 1..Len(Front(stack)) : Established(Front(stack)[i], new)
    BY <1>2, <1>3
  <1>5. QED
    BY <1>1, <1>4, PopPath DEF Sound

LEMMA ReplaceSound ==
    ASSUME NEW r \in Step, NEW stack \in Seq(Frame), stack # <<>>,
           NEW st, NEW new, Sound(r, stack, st),
           Grows(st, new, stack[Len(stack)].step),
           NEW f \in Frame, f.step = stack[Len(stack)].step,
           f.at <= Len(Dep[f.step]) + 1, Established(f, new)
    PROVE  Sound(r, [stack EXCEPT ![Len(stack)] = f], new)
  <1> DEFINE s2 == [stack EXCEPT ![Len(stack)] = f]
  <1>1. IsPath(r, stack) /\ Len(stack) \in Nat \ {0}
    BY EmptySeq DEF Sound
  <1>2. \A i \in 1..(Len(stack) - 1) : Established(stack[i], new)
    BY LowerFrames
  <1>3. /\ IsPath(r, s2)
        /\ Len(s2) = Len(stack)
        /\ s2[Len(stack)] = f
        /\ \A i \in 1..(Len(stack) - 1) : s2[i] = stack[i]
    BY <1>1, ReplacePath
  <1> HIDE DEF s2
  <1>4. ASSUME NEW i \in 1..Len(s2)
        PROVE  Established(s2[i], new)
    <2>1. i = Len(stack) \/ i \in 1..(Len(stack) - 1)
      BY <1>1, <1>3
    <2>2. QED
      BY <1>2, <1>3, <2>1
  <1>5. QED
    BY <1>3, <1>4 DEF Sound, s2

LEMMA PushSound ==
    ASSUME NEW r \in Step, NEW stack \in Seq(Frame), stack # <<>>,
           NEW st, Sound(r, stack, st),
           stack[Len(stack)].loop = "run",
           stack[Len(stack)].at <= Len(Dep[stack[Len(stack)].step])
    PROVE  LET top == stack[Len(stack)]
           IN  Sound(r, Append(stack, Begin(Dep[top.step][top.at], "entry")), st)
  <1> DEFINE top == stack[Len(stack)]
             s2 == Append(stack, Begin(Dep[top.step][top.at], "entry"))
  <1>1. IsPath(r, stack) /\ Len(stack) \in Nat \ {0}
    BY EmptySeq DEF Sound
  <1>2. /\ IsPath(r, s2)
        /\ Len(s2) = Len(stack) + 1
        /\ s2[Len(stack) + 1].loop = "entry"
        /\ \A i \in 1..Len(stack) : s2[i] = stack[i]
    BY <1>1, PushPath
  <1> HIDE DEF s2
  <1>3. ASSUME NEW i \in 1..Len(s2)
        PROVE  Established(s2[i], st)
    <2>1. CASE i = Len(stack) + 1
      BY <1>2, <2>1 DEF Established
    <2>2. CASE i # Len(stack) + 1
      <3>1. i \in 1..Len(stack)
        BY <1>1, <1>2, <2>2
      <3>2. QED
        BY <1>2, <3>1 DEF Sound
    <2>3. QED
      BY <2>1, <2>2
  <1>4. QED
    BY <1>2, <1>3 DEF Sound, s2
-----------------------------------------------------------------------------
(* The inductive invariant *)

\* No call, nothing to keep.
LEMMA EmptySound ==
    ASSUME NEW r, NEW st
    PROVE  Sound(r, <<>>, st)
  <1>1. Len(<<>>) = 0 /\ 1..0 = {}
    BY EmptySeq
  <1>2. QED
    BY <1>1 DEF Sound, IsPath

\* What the invariant says of the call on top of the stack.
LEMMA ActiveFacts ==
    ASSUME CallInv, frames # <<>>
    PROVE  /\ op = "run" /\ root \in Step /\ frames \in Seq(Frame)
           /\ Sound(root, frames, state)
           /\ Top \in Frame
           /\ Top.step \in Step /\ Top.step \in Reach[root]
           /\ Deps(Top.step) \subseteq Step
           /\ Deps(Top.step) \subseteq Reach[root]
           /\ Len(Dep[Top.step]) \in Nat
           /\ Top.at \in Nat \ {0} /\ Top.at <= Len(Dep[Top.step]) + 1
           /\ Established(Top, state)
  <1>1. TypeOK
    BY DEF CallInv
  <1>2. op = "run" /\ root \in Step /\ frames \in Seq(Frame)
    BY <1>1, GraphAssumption DEF TypeOK
  <1>3. Sound(root, frames, state)
    BY DEF CallInv, StackOK
  <1>4. Len(frames) \in Nat \ {0} /\ Top \in Frame
    BY <1>1, TopTyped
  <1>5. Top.step \in Step /\ Top.at \in Nat \ {0}
    BY <1>4 DEF Frame
  <1>6. Len(frames) \in 1..Len(frames)
    BY <1>4
  <1>7. /\ Top.step \in Reach[root]
        /\ Top.at <= Len(Dep[Top.step]) + 1
        /\ Established(Top, state)
    BY <1>3, <1>6 DEF Sound, IsPath, Top
  <1>8. Len(Dep[Top.step]) \in Nat
    BY <1>5, DepsAreSteps, LenProperties
  <1>9. Deps(Top.step) \subseteq Reach[root] /\ Deps(Top.step) \subseteq Step
    BY <1>2, <1>5, <1>7, ReachClosed, DepsAreSteps
  <1>10. QED
    BY <1>2, <1>3, <1>4, <1>5, <1>7, <1>8, <1>9

\* A call at the end of its second loop has all its dependencies DONE.
LEMMA DepsDone ==
    ASSUME CallInv, LoopEnded("wait")
    PROVE  /\ state[Top.step] = "NONE"
           /\ \A d \in Deps(Top.step) : state[d] = "DONE"
  <1>1. frames # <<>> /\ Top.loop = "wait" /\ Top.at > Len(Dep[Top.step])
    BY DEF LoopEnded, Executing
  <1>2. Top \in Frame /\ Top.at <= Len(Dep[Top.step]) + 1 /\ Established(Top, state)
    BY <1>1, ActiveFacts
  <1>3. Passed(Top) = Deps(Top.step)
    BY <1>1, <1>2, PassedFacts
  <1>4. QED
    BY <1>1, <1>2, <1>3 DEF Established

\* A call in one of its loops with a dependency left.
LEMMA LoopFacts ==
    ASSUME CallInv, frames # <<>>, Top.at <= Len(Dep[Top.step])
    PROVE  LET f == [Top EXCEPT !.at = @ + 1]
           IN  /\ Current \in Deps(Top.step) /\ Current \in Step
               /\ Current \in Reach[root]
               /\ f \in Frame /\ f.step = Top.step /\ f.loop = Top.loop
               /\ f.at <= Len(Dep[f.step]) + 1
               /\ Passed(f) \subseteq Passed(Top) \cup {Current}
               /\ Advance = [frames EXCEPT ![Len(frames)] = f]
  <1> DEFINE f == [Top EXCEPT !.at = @ + 1]
  <1>1. /\ Top \in Frame /\ Top.at \in Nat \ {0}
        /\ Top.at <= Len(Dep[Top.step]) + 1
        /\ Len(Dep[Top.step]) \in Nat
        /\ Deps(Top.step) \subseteq Reach[root]
    BY ActiveFacts
  <1>2. Current \in Deps(Top.step) /\ Current \in Step
    BY CurrentTyped DEF CallInv
  <1>3. /\ f \in Frame /\ f.step = Top.step /\ f.loop = Top.loop
        /\ f.at = Top.at + 1
    BY <1>1 DEF Frame
  <1>4. f.at <= Len(Dep[f.step]) + 1
    BY <1>1, <1>3
  <1>5. Passed(f) \subseteq Passed(Top) \cup {Current}
    BY <1>1, PassedFacts DEF Current
  <1>6. Advance = [frames EXCEPT ![Len(frames)] = f]
    BY DEF Advance, Top
  <1>7. QED
    BY <1>1, <1>2, <1>3, <1>4, <1>5, <1>6

LEMMA GrowsNot == \A st, s : Grows(st, st, s)
  BY DEF Grows

LEMMA StackEarlyReturn ==
    ASSUME CallInv, EarlyReturn
    PROVE  StackOK'
  <1>1. /\ frames # <<>> /\ ret = "BUSY" /\ state[Top.step] # "NONE"
        /\ frames' = Front(frames) /\ ret' = "OK"
        /\ UNCHANGED <<state, pid, op, root, failed, proc>>
    BY DEF EarlyReturn, Executing, ToRun, Return
  <1>2. Sound(root, Front(frames), state) /\ Dealt(root, Front(frames), state)
    BY <1>1, ActiveFacts, GrowsNot, PopSound DEF Top
  <1>3. QED
    BY <1>1, <1>2 DEF StackOK

LEMMA StackEnter ==
    ASSUME CallInv, Enter
    PROVE  StackOK'
  <1> DEFINE f == Begin(Top.step, "run")
  <1>1. /\ frames # <<>> /\ ret = "BUSY" /\ state[Top.step] = "NONE"
        /\ frames' = [frames EXCEPT ![Len(frames)] = f]
        /\ UNCHANGED <<state, pid, op, root, ret, failed, proc>>
    BY DEF Enter, Executing, ToRun
  <1>2. /\ f \in Frame /\ f.step = Top.step /\ f.loop = "run" /\ f.at = 1
        /\ f.at <= Len(Dep[f.step]) + 1
    BY <1>1, ActiveFacts DEF Begin, Frame
  <1>3. Passed(f) = {}
    BY <1>2 DEF Passed
  <1> HIDE DEF f
  <1>4. Established(f, state)
    BY <1>1, <1>2, <1>3 DEF Established
  <1>5. Sound(root, frames', state)
    BY <1>1, <1>2, <1>4, ActiveFacts, GrowsNot, ReplaceSound DEF Top
  <1>6. QED
    BY <1>1, <1>5 DEF StackOK

LEMMA StackRunDep ==
    ASSUME CallInv, RunDep
    PROVE  StackOK'
  <1>1. /\ frames # <<>> /\ ret = "BUSY" /\ Top.loop = "run"
        /\ Top.at <= Len(Dep[Top.step])
        /\ frames' = Append(frames, Begin(Current, "entry"))
        /\ UNCHANGED <<state, pid, op, root, ret, failed, proc>>
    BY DEF RunDep, InLoop, InLoopAt, Executing
  <1>2. Sound(root, frames', state)
    BY <1>1, ActiveFacts, PushSound DEF Top, Current
  <1>3. QED
    BY <1>1, <1>2 DEF StackOK

LEMMA StackResume ==
    ASSUME CallInv, Resume
    PROVE  StackOK'
  <1> DEFINE f == [Top EXCEPT !.at = @ + 1]
  <1>1. /\ frames # <<>> /\ ret = "OK" /\ frames' = Advance /\ ret' = "BUSY"
        /\ UNCHANGED <<state, pid, op, root, failed, proc>>
    BY DEF Resume
  <1>2. op = "run" /\ Established(Top, state)
    BY <1>1, ActiveFacts
  <1>3. Dealt(root, frames, state)
    BY <1>1, <1>2 DEF CallInv, StackOK
  <1>4. /\ Top.loop = "run" /\ Top.at <= Len(Dep[Top.step])
        /\ state[Current] # "NONE"
    BY <1>1, <1>3 DEF Dealt, Top, Current
  <1>5. /\ f \in Frame /\ f.step = Top.step /\ f.loop = Top.loop
        /\ f.at <= Len(Dep[f.step]) + 1
        /\ Passed(f) \subseteq Passed(Top) \cup {Current}
        /\ Advance = [frames EXCEPT ![Len(frames)] = f]
    BY <1>1, <1>4, LoopFacts
  <1> HIDE DEF f
  <1>6. Established(f, state)
    BY <1>2, <1>4, <1>5 DEF Established
  <1>7. Sound(root, frames', state)
    BY <1>1, <1>5, <1>6, ActiveFacts, GrowsNot, ReplaceSound DEF Top
  <1>8. QED
    BY <1>1, <1>7 DEF StackOK

LEMMA StackPropagateError ==
    ASSUME CallInv, PropagateError
    PROVE  StackOK'
  <1>1. /\ frames # <<>> /\ frames' = Front(frames) /\ ret' = "DEPRUN"
        /\ UNCHANGED <<state, pid, op, root, failed, proc>>
    BY DEF PropagateError, Return
  <1>2. Sound(root, Front(frames), state)
    BY <1>1, ActiveFacts, GrowsNot, PopSound DEF Top
  <1>3. QED
    BY <1>1, <1>2 DEF StackOK

LEMMA StackBeginWait ==
    ASSUME CallInv, BeginWait
    PROVE  StackOK'
  <1> DEFINE f == Begin(Top.step, "wait")
  <1>1. /\ frames # <<>> /\ ret = "BUSY"
        /\ Top.loop = "run" /\ Top.at > Len(Dep[Top.step])
        /\ frames' = [frames EXCEPT ![Len(frames)] = f]
        /\ UNCHANGED <<state, pid, op, root, ret, failed, proc>>
    BY DEF BeginWait, LoopEnded, Executing
  <1>2. Top \in Frame /\ Top.at <= Len(Dep[Top.step]) + 1 /\ Established(Top, state)
    BY <1>1, ActiveFacts
  <1>3. state[Top.step] = "NONE" /\ \A d \in Deps(Top.step) : state[d] # "NONE"
    BY <1>1, <1>2, PassedFacts DEF Established
  <1>4. /\ f \in Frame /\ f.step = Top.step /\ f.loop = "wait" /\ f.at = 1
        /\ f.at <= Len(Dep[f.step]) + 1
    BY <1>1, ActiveFacts DEF Begin, Frame
  <1>5. Passed(f) = {}
    BY <1>4 DEF Passed
  <1> HIDE DEF f
  <1>6. Established(f, state)
    BY <1>3, <1>4, <1>5 DEF Established
  <1>7. Sound(root, frames', state)
    BY <1>1, <1>4, <1>6, ActiveFacts, GrowsNot, ReplaceSound DEF Top
  <1>8. QED
    BY <1>1, <1>7 DEF StackOK

LEMMA StackSkipWait ==
    ASSUME CallInv, SkipWait
    PROVE  StackOK'
  <1> DEFINE f == [Top EXCEPT !.at = @ + 1]
  <1>1. /\ frames # <<>> /\ ret = "BUSY" /\ Top.loop = "wait"
        /\ Top.at <= Len(Dep[Top.step])
        /\ state[Current] # "RUNNING"
        /\ frames' = Advance
        /\ UNCHANGED <<state, pid, op, root, ret, failed, proc>>
    BY DEF SkipWait, InLoop, InLoopAt, Executing, MustWait
  <1>2. Established(Top, state) /\ state \in [Step -> StepState]
    BY <1>1, ActiveFacts DEF CallInv, TypeOK
  <1>3. /\ f \in Frame /\ f.step = Top.step /\ f.loop = Top.loop
        /\ f.at <= Len(Dep[f.step]) + 1
        /\ Passed(f) \subseteq Passed(Top) \cup {Current}
        /\ Advance = [frames EXCEPT ![Len(frames)] = f]
        /\ Current \in Deps(Top.step) /\ Current \in Step
    BY <1>1, LoopFacts
  <1> HIDE DEF f
  <1>4. state[Current] = "DONE"
    BY <1>1, <1>2, <1>3 DEF Established, StepState
  <1>5. Established(f, state)
    BY <1>1, <1>2, <1>3, <1>4 DEF Established
  <1>6. Sound(root, frames', state)
    BY <1>1, <1>3, <1>5, ActiveFacts, GrowsNot, ReplaceSound DEF Top
  <1>7. QED
    BY <1>1, <1>6 DEF StackOK

\* Waiting makes the current dependency DONE, and nothing else.
LEMMA WaitDepFacts ==
    ASSUME CallInv, WaitDep
    PROVE  /\ frames # <<>> /\ ret = "BUSY" /\ Top.loop = "wait"
           /\ Top.at <= Len(Dep[Top.step])
           /\ Current \in Step /\ Current \in Deps(Top.step)
           /\ InLoop("wait") /\ state[Current] = "RUNNING"
           /\ state'[Current] = "DONE"
           /\ \A s \in Step \ {Current} : state'[s] = state[s]
           /\ Grows(state, state', Top.step)
           /\ UNCHANGED <<pid, op, root>>
  <1>1. /\ frames # <<>> /\ ret = "BUSY" /\ Top.loop = "wait"
        /\ Top.at <= Len(Dep[Top.step])
        /\ InLoop("wait") /\ state[Current] = "RUNNING"
        /\ state' = [state EXCEPT ![Current] = "DONE"]
        /\ UNCHANGED <<pid, op, root>>
    BY DEF WaitDep, InLoop, InLoopAt, Executing, MustWait, WaitedState
  <1>2. Current \in Step /\ Current \in Deps(Top.step)
    BY <1>1, LoopFacts
  <1>3. state'[Current] = "DONE" /\ \A s \in Step \ {Current} : state'[s] = state[s]
    BY <1>1, <1>2 DEF CallInv, TypeOK
  <1>4. Grows(state, state', Top.step)
    BY <1>1, <1>2, <1>3 DEF Grows
  <1>5. QED
    BY <1>1, <1>2, <1>3, <1>4

LEMMA StackWaitDep ==
    ASSUME CallInv, WaitDep
    PROVE  StackOK'
  <1> DEFINE f == [Top EXCEPT !.at = @ + 1]
             c == Current
  <1>1. /\ frames # <<>> /\ ret = "BUSY" /\ Top.loop = "wait"
        /\ Top.at <= Len(Dep[Top.step])
        /\ c \in Step /\ c \in Deps(Top.step)
        /\ state'[c] = "DONE" /\ Grows(state, state', Top.step)
        /\ \A s \in Step \ {c} : state'[s] = state[s]
        /\ UNCHANGED <<op, root>>
    BY WaitDepFacts
  <1>2. PICK o \in P!aven_proc_wait(proc, pid[c]) : Waited(o.err)
    BY DEF WaitDep
  <1>3. /\ Top.step \in Step /\ Established(Top, state) /\ frames \in Seq(Frame)
        /\ root \in Step /\ Sound(root, frames, state) /\ op = "run"
        /\ Deps(Top.step) \subseteq Step
        /\ Passed(Top) \subseteq Step
    BY <1>1, ActiveFacts, PassedFacts
  <1>4. /\ f \in Frame /\ f.step = Top.step /\ f.loop = Top.loop
        /\ f.at <= Len(Dep[f.step]) + 1
        /\ Passed(f) \subseteq Passed(Top) \cup {c}
        /\ Advance = [frames EXCEPT ![Len(frames)] = f]
    BY <1>1, LoopFacts
  <1> HIDE DEF f, c
  <1>5. CASE o.err = "OK"
    <2>1. frames' = Advance /\ ret' = "BUSY"
      BY <1>1, <1>2, <1>5 DEF Waited
    <2>2. /\ state[Top.step] = "NONE"
          /\ \A d \in Deps(Top.step) : state[d] # "NONE"
          /\ \A d \in Passed(Top) : state[d] = "DONE"
      BY <1>1, <1>3 DEF Established
    <2>3. state[c] # "NONE" /\ state'[Top.step] = "NONE"
      BY <1>1, <1>3, <2>2
    <2>4. /\ \A d \in Deps(Top.step) : state'[d] # "NONE"
          /\ \A d \in Passed(f) : state'[d] = "DONE"
      BY <1>1, <1>3, <1>4, <2>2 DEF Grows
    <2>5. Established(f, state')
      BY <1>1, <1>4, <2>3, <2>4 DEF Established
    <2>6. Sound(root, frames', state')
      BY <1>1, <1>3, <1>4, <2>1, <2>5, ReplaceSound DEF Top
    <2>7. QED
      BY <1>1, <2>1, <2>6 DEF StackOK
  <1>6. CASE o.err # "OK"
    <2>1. frames' = Front(frames) /\ ret' = "DEPWAIT"
      BY <1>2, <1>6 DEF Waited, Return
    <2>2. Sound(root, frames', state')
      BY <1>1, <1>3, <2>1, PopSound DEF Top
    <2>3. QED
      BY <1>1, <2>1, <2>2 DEF StackOK
  <1>7. QED
    BY <1>5, <1>6

\* What starting a command does: it takes a free pid, or fork fails.
LEMMA ExecCmdFacts ==
    ASSUME TypeOK, ExecCmd
    PROVE  /\ LoopEnded("wait")
           /\ state' = [state EXCEPT ![Top.step] = "RUNNING"]
           /\ UNCHANGED <<op, root>>
           /\ \E e \in {"OK"} \cup RunError :
                /\ Return(e) /\ Blame(Top.step, e)
                /\ \/ e # "OK" /\ UNCHANGED <<pid, proc>>
                   \/ \E p \in Pid :
                        /\ proc[p].st = "free"
                        /\ proc' = [proc EXCEPT ![p] = [st |-> "live", cmd |-> Top.step]]
                        /\ pid' = [pid EXCEPT ![Top.step] = p]
  <1>1. PICK o \in P!aven_proc_cmd(proc, Top.step) :
            /\ proc' = o.proc
            /\ pid' = IF o.err = "OK" THEN [pid EXCEPT ![Top.step] = o.pid] ELSE pid
            /\ Return(CmdError(o.err))
            /\ Blame(Top.step, o.err)
    BY DEF ExecCmd
  <1>2. /\ CmdError(o.err) \in {"OK"} \cup RunError
        /\ Blame(Top.step, CmdError(o.err))
    BY <1>1 DEF CmdError, RunError, Blame
  <1>3. CASE o.err = "OK"
    <2>1. /\ o.pid \in Pid /\ proc[o.pid].st = "free"
          /\ proc' = [proc EXCEPT ![o.pid] = [st |-> "live", cmd |-> Top.step]]
          /\ pid' = [pid EXCEPT ![Top.step] = o.pid]
      BY <1>1, <1>3 DEF P!aven_proc_cmd
    <2>2. QED
      BY <1>1, <1>2, <2>1 DEF ExecCmd
  <1>4. CASE o.err # "OK"
    <2>1. proc' = proc /\ pid' = pid /\ CmdError(o.err) # "OK"
      BY <1>1, <1>4 DEF P!aven_proc_cmd, CmdError
    <2>2. QED
      BY <1>1, <1>2, <2>1 DEF ExecCmd
  <1>5. QED
    BY <1>3, <1>4

\* What executing any other step does: it is over at once.
LEMMA ExecFsFacts ==
    ASSUME CallInv, ExecFs
    PROVE  /\ LoopEnded("wait")
           /\ UNCHANGED <<pid, op, root, proc>>
           /\ \E e \in {"OK"} \cup RunError :
                /\ state' = [state EXCEPT ![Top.step] =
                                IF e = "OK" THEN "DONE" ELSE "RUNNING"]
                /\ Return(e) /\ Blame(Top.step, e)
  <1>1. LoopEnded("wait") /\ frames # <<>> /\ Type[Top.step] # "CMD"
    BY DEF ExecFs, LoopEnded, Executing
  <1>2. Top.step \in Step /\ TypeOK
    BY <1>1, ActiveFacts DEF CallInv
  <1>3. PICK o \in Effect(Top.step) :
            LET e == StepError(Top.step, o.err)
            IN  /\ state' = [state EXCEPT ![Top.step] =
                                IF e = "OK" THEN "DONE" ELSE "RUNNING"]
                /\ Return(e)
                /\ Blame(Top.step, e)
    BY DEF ExecFs
  <1>4. StepError(Top.step, o.err) \in {"OK"} \cup RunError
    BY <1>1, <1>2, <1>3, EffectTyped
  <1>5. QED
    BY <1>1, <1>3, <1>4 DEF ExecFs

\* What both have in common: the step on top leaves NONE.
LEMMA ExecFacts ==
    ASSUME CallInv, LoopEnded("wait"), NEW v \in {"RUNNING", "DONE"},
           state' = [state EXCEPT ![Top.step] = v]
    PROVE  /\ frames # <<>> /\ ret = "BUSY" /\ op = "run" /\ root \in Step
           /\ Top.step \in Reach[root] /\ Top.step \in Step
           /\ state[Top.step] = "NONE" /\ state'[Top.step] = v
           /\ Deps(Top.step) \subseteq Step
           /\ \A d \in Deps(Top.step) : state[d] = "DONE"
           /\ \A s \in Step \ {Top.step} : state'[s] = state[s]
           /\ Grows(state, state', Top.step)
  <1>1. frames # <<>> /\ ret = "BUSY"
    BY DEF LoopEnded, Executing
  <1>2. /\ op = "run" /\ root \in Step
        /\ Top.step \in Reach[root] /\ Top.step \in Step
        /\ Deps(Top.step) \subseteq Step
    BY <1>1, ActiveFacts
  <1>3. state[Top.step] = "NONE" /\ \A d \in Deps(Top.step) : state[d] = "DONE"
    BY DepsDone
  <1>4. state'[Top.step] = v /\ \A s \in Step \ {Top.step} : state'[s] = state[s]
    BY <1>2 DEF CallInv, TypeOK
  <1>5. Grows(state, state', Top.step)
    BY <1>2, <1>3, <1>4 DEF Grows
  <1>6. QED
    BY <1>1, <1>2, <1>3, <1>4, <1>5

LEMMA StackExec ==
    ASSUME CallInv, LoopEnded("wait"), NEW v \in {"RUNNING", "DONE"},
           state' = [state EXCEPT ![Top.step] = v],
           NEW e, Return(e), UNCHANGED <<op, root>>
    PROVE  StackOK'
  <1>1. /\ frames # <<>> /\ root \in Step
        /\ Grows(state, state', Top.step) /\ state'[Top.step] = v
    BY ExecFacts
  <1>2. frames \in Seq(Frame) /\ Sound(root, frames, state)
    BY <1>1, ActiveFacts
  <1>3. Sound(root, Front(frames), state') /\ Dealt(root, Front(frames), state')
    BY <1>1, <1>2, PopSound DEF Top
  <1>4. QED
    BY <1>3 DEF Return, StackOK

\* The client's steps leave no call, or the first one.
LEMMA StackClient ==
    ASSUME CallInv,
           CleanVisit \/ Restart
           \/ \E r \in Roots : CallClean(r) \/ CallReset(r) \/ CallRun(r)
    PROVE  StackOK'
  <1>1. TypeOK
    BY DEF CallInv
  <1>2. ASSUME frames' = <<>>, op' # "run"
        PROVE  StackOK'
    BY <1>2, EmptySound DEF StackOK
  <1>3. CASE CleanVisit
    BY <1>1, <1>2, <1>3 DEF CleanVisit, TypeOK
  <1>4. CASE Restart
    BY <1>2, <1>4 DEF Restart
  <1>5. CASE \E r \in Roots : CallClean(r) \/ CallReset(r)
    BY <1>2, <1>5 DEF CallClean, CallReset, Idle
  <1>6. ASSUME NEW r \in Roots, CallRun(r)
        PROVE  StackOK'
    <2> DEFINE f == Begin(r, "entry")
    <2>1. root' = r /\ frames' = <<f>> /\ ret' = "BUSY" /\ UNCHANGED state
      BY <1>6 DEF CallRun
    <2>2. r \in Reach[r] /\ r \in Step
      BY ReachClosed, GraphAssumption
    <2>3. f.step = r /\ f.loop = "entry" /\ f.at = 1
      BY DEF Begin
    <2>4. Len(Dep[r]) \in Nat
      BY <2>2, DepsAreSteps, LenProperties
    <2>5. Len(<<f>>) = 1 /\ <<f>>[1] = f
      OBVIOUS
    <2> HIDE DEF f
    <2>6. Sound(r, <<f>>, state)
      BY <2>2, <2>3, <2>4, <2>5 DEF Sound, IsPath, Established
    <2>7. QED
      BY <2>1, <2>6 DEF StackOK
  <1>7. QED
    BY <1>3, <1>4, <1>5, <1>6

LEMMA NextCallInv == CallInv /\ [RetryNext]_vars => CallInv'
  <1> SUFFICES ASSUME CallInv, [RetryNext]_vars PROVE CallInv'
    OBVIOUS
  <1>1. TypeOK'
    BY NextTypeOK DEF CallInv
  <1>2. CASE EarlyReturn \/ Enter \/ RunDep \/ Resume \/ PropagateError
    BY <1>1, <1>2, StackEarlyReturn, StackEnter, StackRunDep, StackResume,
       StackPropagateError DEF CallInv
  <1>3. CASE BeginWait \/ SkipWait \/ WaitDep
    BY <1>1, <1>3, StackBeginWait, StackSkipWait, StackWaitDep DEF CallInv
  <1>4. CASE ExecCmd
    <2>1. /\ LoopEnded("wait") /\ UNCHANGED <<op, root>>
          /\ state' = [state EXCEPT ![Top.step] = "RUNNING"]
          /\ \E e : Return(e)
      BY <1>4, ExecCmdFacts DEF CallInv
    <2>2. QED
      BY <1>1, <2>1, StackExec DEF CallInv
  <1>5. CASE ExecFs
    <2>1. LoopEnded("wait") /\ UNCHANGED <<op, root>>
      BY <1>5, ExecFsFacts
    <2>2. PICK e : /\ state' = [state EXCEPT ![Top.step] =
                                    IF e = "OK" THEN "DONE" ELSE "RUNNING"]
                   /\ Return(e)
      BY <1>5, ExecFsFacts
    <2>3. PICK v \in {"RUNNING", "DONE"} : state' = [state EXCEPT ![Top.step] = v]
      BY <2>2
    <2>4. QED
      BY <1>1, <2>1, <2>2, <2>3, StackExec DEF CallInv
  <1>6. CASE CleanVisit \/ Restart
             \/ \E r \in Roots : CallClean(r) \/ CallReset(r) \/ CallRun(r)
    BY <1>1, <1>6, StackClient DEF CallInv
  <1>7. CASE \E p \in Pid : CommandEnds(p)
    <2>1. UNCHANGED prog
      BY <1>7 DEF CommandEnds, ExitOk, ExitError, Killed, Fail
    <2>2. QED
      BY <1>1, <2>1 DEF prog, CallInv, StackOK
  <1>8. CASE UNCHANGED vars
    BY <1>1, <1>8 DEF vars, prog, CallInv, StackOK
  <1>9. QED
    BY <1>2, <1>3, <1>4, <1>5, <1>6, <1>7, <1>8 DEF RetryNext, Others, Run

LEMMA InitCallInv == Init => CallInv
  <1> SUFFICES ASSUME Init PROVE CallInv
    OBVIOUS
  <1>1. StackOK
    BY EmptySound DEF Init, StackOK
  <1>2. QED
    BY <1>1, InitTypeOK DEF CallInv

\* The stack of calls stays a path of the graph, and every call knows the
\* states of its step and of the dependencies it has dealt with, whatever the
\* client runs.
THEOREM CallInvariant == RetrySpec => []CallInv
  <1>1. QED
    BY InitCallInv, NextCallInv, PTL DEF RetrySpec

\* Only ExecCmd gives a step a pid, and only to a step in state NONE.
LEMMA LaunchesFresh ==
    ASSUME CallInv, [RetryNext]_vars, NEW s \in Step,
           pid'[s] \in Pid, pid'[s] # pid[s]
    PROVE  state[s] = "NONE"
  <1>1. CASE ExecCmd
    <2>1. LoopEnded("wait")
      BY <1>1, ExecCmdFacts DEF CallInv
    <2>2. s = Top.step
      <3>1. PICK o \in P!aven_proc_cmd(proc, Top.step) :
                pid' = IF o.err = "OK" THEN [pid EXCEPT ![Top.step] = o.pid] ELSE pid
        BY <1>1 DEF ExecCmd
      <3>2. QED
        BY <3>1 DEF CallInv, TypeOK
    <2>3. QED
      BY <2>1, <2>2, DepsDone
  <1>2. CASE Restart
    BY <1>2, PidAssumption DEF Restart
  <1>3. CASE UNCHANGED pid
    BY <1>3
  <1>4. ExecCmd \/ Restart \/ UNCHANGED pid
    BY DEF RetryNext, Others, Run, EarlyReturn, Enter, RunDep, Resume,
       PropagateError, BeginWait, SkipWait, WaitDep, ExecFs, CleanVisit, CallRun,
       CallClean, CallReset, CommandEnds, ExitOk, ExitError, Killed, Fail, vars, prog
  <1>5. QED
    BY <1>1, <1>2, <1>3, <1>4

\* A command is launched only for a step in state NONE, whatever the client
\* runs: two paths of the graph to a step launch it once.
THEOREM NeverRelaunched == RetrySpec => NoRelaunch
  <1>1. CallInv /\ [RetryNext]_vars =>
            [\A s \in Step : pid'[s] \in Pid /\ pid'[s] # pid[s] => state[s] = "NONE"]_vars
    BY LaunchesFresh
  <1>2. QED
    BY <1>1, InitCallInv, NextCallInv, PTL DEF RetrySpec, NoRelaunch
-----------------------------------------------------------------------------
(* The inductive invariant of a client that runs what is ready *)

\* The steps of a run that touch only the stack.
LEMMA QuietSteps ==
    ASSUME IInv,
           \/ EarlyReturn \/ Enter \/ RunDep \/ Resume \/ PropagateError
           \/ BeginWait \/ SkipWait
    PROVE  /\ UNCHANGED <<state, pid, op, root, failed, proc>>
           /\ SoFarSoGood' /\ OwnChild'
  <1>1. UNCHANGED <<state, pid, op, root, failed, proc>>
    BY DEF EarlyReturn, Enter, RunDep, Resume, PropagateError, BeginWait, SkipWait
  <1>2. ret' \in {"BUSY", "OK"} => ret \in {"BUSY", "OK"}
    BY DEF EarlyReturn, Enter, RunDep, Resume, PropagateError, BeginWait, SkipWait,
       Executing, InLoop, LoopEnded, Return
  <1>3. SoFarSoGood' /\ OwnChild'
    BY <1>1, <1>2 DEF IInv, SoFarSoGood, OwnChild
  <1>4. QED
    BY <1>1, <1>3

\* A step that is waited for has a child of its own, so waitpid takes that one.
LEMMA WaitsOwn ==
    ASSUME IInv, InLoop("wait"), state[Current] = "RUNNING"
    PROVE  /\ Current \in Step /\ Current \notin failed
           /\ pid[Current] \in Pid
           /\ P!IsChild(proc, pid[Current])
           /\ proc[pid[Current]].cmd = Current
           /\ P!Target(proc, pid[Current]) = {pid[Current]}
  <1>1. frames # <<>> /\ ret = "BUSY" /\ Top.at <= Len(Dep[Top.step])
    BY DEF InLoop, InLoopAt, Executing
  <1>2. op = "run" /\ Current \in Step /\ Current \in Reach[root]
    BY <1>1, ActiveFacts, LoopFacts DEF IInv
  <1>3. Current \notin failed
    BY <1>1, <1>2 DEF IInv, SoFarSoGood
  <1>4. /\ pid[Current] \in Pid
        /\ P!IsChild(proc, pid[Current])
        /\ proc[pid[Current]].cmd = Current
    BY <1>2, <1>3 DEF IInv, OwnChild
  <1>5. P!Target(proc, pid[Current]) = {pid[Current]}
    BY <1>4, PidAssumption DEF P!Target, P!Children
  <1>6. QED
    BY <1>2, <1>3, <1>4, <1>5

\* A step s may leave NONE when all it depends on is DONE; what was executed
\* before rests on what it rested on.
LEMMA OrderKept ==
    ASSUME IInv, op = "run", ret = "BUSY", frames # <<>>, NEW s \in Step,
           Grows(state, state', s),
           state[s] = "NONE" => \A d \in Deps(s) : state[d] = "DONE",
           UNCHANGED <<op, root, failed>>
    PROVE  SoFarSoGood'
  <1>1. root \in Step
    BY ActiveFacts DEF IInv
  <1>2. ASSUME NEW t \in Reach[root]
        PROVE  /\ t \notin failed
               /\ state'[t] # "NONE" => \A d \in Deps(t) : state'[d] = "DONE"
    <2>1. t \in Step /\ Deps(t) \subseteq Step
      BY <1>1, ReachClosed, DepsAreSteps
    <2>2. /\ t \notin failed
          /\ state[t] # "NONE" => \A d \in Deps(t) : state[d] = "DONE"
      BY DEF IInv, SoFarSoGood
    <2>3. state'[t] # "NONE" => \A d \in Deps(t) : state[d] = "DONE"
      BY <2>1, <2>2 DEF Grows
    <2>4. QED
      BY <2>1, <2>2, <2>3 DEF Grows
  <1>3. QED
    BY <1>2 DEF SoFarSoGood

LEMMA IInvWaitDep ==
    ASSUME IInv, WaitDep
    PROVE  SoFarSoGood' /\ OwnChild'
  <1> DEFINE c == Current
  <1>1. /\ InLoop("wait") /\ frames # <<>> /\ ret = "BUSY"
        /\ state[c] = "RUNNING" /\ state'[c] = "DONE"
        /\ \A s \in Step \ {c} : state'[s] = state[s]
        /\ Grows(state, state', Top.step)
        /\ UNCHANGED <<pid, op, root>>
    BY WaitDepFacts DEF IInv
  <1>2. PICK o \in P!aven_proc_wait(proc, pid[c]) :
            proc' = o.proc /\ Waited(o.err) /\ Blame(c, o.err)
    BY DEF WaitDep
  <1>3. /\ c \in Step /\ c \notin failed
        /\ pid[c] \in Pid /\ proc[pid[c]].cmd = c
        /\ P!Target(proc, pid[c]) = {pid[c]}
    BY <1>1, WaitsOwn
  <1>4. proc' = proc \/ proc' = [proc EXCEPT ![pid[c]] = P!Free]
    BY <1>2, <1>3 DEF P!aven_proc_wait
  <1>5. failed \subseteq failed' /\ TypeOK /\ op = "run"
    BY <1>1, <1>2, ActiveFacts DEF IInv, CallInv, Blame
  <1> HIDE DEF c
  <1>6. SoFarSoGood'
    <2>1. CASE o.err = "OK"
      <3>1. failed' = failed
        BY <1>2, <2>1 DEF Blame
      <3>2. Grows(state, state', c)
        BY <1>1, <1>3 DEF Grows
      <3>3. QED
        BY <1>1, <1>3, <1>5, <3>1, <3>2, OrderKept
    <2>2. CASE o.err # "OK"
      BY <1>2, <2>2 DEF Waited, Return, SoFarSoGood
    <2>3. QED
      BY <2>1, <2>2
  <1>7. OwnChild'
    <2> SUFFICES ASSUME NEW s \in Step, state'[s] = "RUNNING", s \notin failed'
                 PROVE  /\ pid[s] \in Pid
                        /\ P!IsChild(proc', pid[s])
                        /\ proc'[pid[s]].cmd = s
      BY <1>1 DEF OwnChild
    <2>1. s # c /\ state[s] = "RUNNING" /\ s \notin failed
      BY <1>1, <1>3, <1>5
    <2>2. pid[s] \in Pid /\ P!IsChild(proc, pid[s]) /\ proc[pid[s]].cmd = s
      BY <2>1 DEF IInv, OwnChild
    <2>3. pid[s] # pid[c]
      BY <1>3, <2>1, <2>2
    <2>4. proc'[pid[s]] = proc[pid[s]]
      BY <1>4, <1>5, <2>2, <2>3 DEF TypeOK, P!ProcType
    <2>5. QED
      BY <2>2, <2>4 DEF P!IsChild
  <1>8. QED
    BY <1>6, <1>7

\* Executing the step on top, well or not.
LEMMA ExecKeeps ==
    ASSUME IInv, LoopEnded("wait"), NEW v \in {"RUNNING", "DONE"},
           NEW e \in {"OK"} \cup RunError,
           state' = [state EXCEPT ![Top.step] = v],
           Return(e), Blame(Top.step, e), UNCHANGED <<op, root>>
    PROVE  /\ SoFarSoGood'
           /\ \A s \in Step \ {Top.step} :
                state'[s] = "RUNNING" /\ s \notin failed' =>
                    /\ pid[s] \in Pid
                    /\ P!IsChild(proc, pid[s])
                    /\ proc[pid[s]].cmd = s
           /\ e # "OK" => Top.step \in failed'
           /\ state'[Top.step] = v
  <1>1. /\ frames # <<>> /\ ret = "BUSY" /\ op = "run" /\ Top.step \in Step
        /\ state[Top.step] = "NONE" /\ state'[Top.step] = v
        /\ \A d \in Deps(Top.step) : state[d] = "DONE"
        /\ \A s \in Step \ {Top.step} : state'[s] = state[s]
        /\ Grows(state, state', Top.step)
    BY ExecFacts DEF IInv
  <1>2. failed \subseteq failed' /\ (e # "OK" => Top.step \in failed')
    BY DEF Blame
  <1>3. SoFarSoGood'
    <2>1. CASE e = "OK"
      BY <1>1, <2>1, OrderKept DEF Blame
    <2>2. CASE e # "OK"
      BY <2>2 DEF Return, SoFarSoGood, RunError
    <2>3. QED
      BY <2>1, <2>2
  <1>4. ASSUME NEW s \in Step \ {Top.step}, state'[s] = "RUNNING", s \notin failed'
        PROVE  pid[s] \in Pid /\ P!IsChild(proc, pid[s]) /\ proc[pid[s]].cmd = s
    BY <1>1, <1>2, <1>4 DEF IInv, OwnChild
  <1>5. QED
    BY <1>1, <1>2, <1>3, <1>4

LEMMA IInvExecCmd ==
    ASSUME IInv, ExecCmd
    PROVE  SoFarSoGood' /\ OwnChild'
  <1> DEFINE t == Top.step
  <1>1. /\ LoopEnded("wait")
        /\ state' = [state EXCEPT ![t] = "RUNNING"]
        /\ UNCHANGED <<op, root>>
    BY ExecCmdFacts DEF IInv, CallInv
  <1>2. PICK e \in {"OK"} \cup RunError :
            /\ Return(e) /\ Blame(t, e)
            /\ \/ e # "OK" /\ UNCHANGED <<pid, proc>>
               \/ \E p \in Pid :
                    /\ proc[p].st = "free"
                    /\ proc' = [proc EXCEPT ![p] = [st |-> "live", cmd |-> t]]
                    /\ pid' = [pid EXCEPT ![t] = p]
    BY ExecCmdFacts DEF IInv, CallInv
  <1>3. t \in Step /\ TypeOK
    BY <1>1, ExecFacts DEF IInv, CallInv
  <1>4. /\ SoFarSoGood'
        /\ \A s \in Step \ {t} : state'[s] = "RUNNING" /\ s \notin failed' =>
                /\ pid[s] \in Pid
                /\ P!IsChild(proc, pid[s])
                /\ proc[pid[s]].cmd = s
        /\ e # "OK" => t \in failed'
    BY <1>1, <1>2, ExecKeeps
  <1> HIDE DEF t
  <1>5. CASE e # "OK" /\ UNCHANGED <<pid, proc>>
    BY <1>4, <1>5 DEF OwnChild
  <1>6. ASSUME NEW p \in Pid, proc[p].st = "free",
               proc' = [proc EXCEPT ![p] = [st |-> "live", cmd |-> t]],
               pid' = [pid EXCEPT ![t] = p]
        PROVE  OwnChild'
    <2>1. pid'[t] = p /\ proc'[p] = [st |-> "live", cmd |-> t]
      BY <1>3, <1>6 DEF TypeOK, P!ProcType
    <2>2. ASSUME NEW s \in Step, state'[s] = "RUNNING", s \notin failed'
          PROVE  /\ pid'[s] \in Pid
                 /\ P!IsChild(proc', pid'[s])
                 /\ proc'[pid'[s]].cmd = s
      <3>1. CASE s = t
        BY <2>1, <3>1 DEF P!IsChild
      <3>2. CASE s # t
        <4>1. pid'[s] = pid[s]
          BY <1>3, <1>6, <3>2 DEF TypeOK
        <4>2. pid[s] \in Pid /\ P!IsChild(proc, pid[s]) /\ proc[pid[s]].cmd = s
          BY <1>4, <2>2, <3>2
        <4>3. pid[s] # p
          BY <1>6, <4>2 DEF P!IsChild, P!Ended
        <4>4. proc'[pid[s]] = proc[pid[s]]
          BY <1>3, <1>6, <4>2, <4>3 DEF TypeOK, P!ProcType
        <4>5. QED
          BY <4>1, <4>2, <4>4 DEF P!IsChild
      <3>3. QED
        BY <3>1, <3>2
    <2>3. QED
      BY <2>2 DEF OwnChild
  <1>7. QED
    BY <1>2, <1>4, <1>5, <1>6

LEMMA IInvExecFs ==
    ASSUME IInv, ExecFs
    PROVE  SoFarSoGood' /\ OwnChild'
  <1> DEFINE t == Top.step
  <1>1. LoopEnded("wait") /\ UNCHANGED <<pid, op, root, proc>>
    BY ExecFsFacts DEF IInv
  <1>2. PICK e \in {"OK"} \cup RunError :
            /\ state' = [state EXCEPT ![t] = IF e = "OK" THEN "DONE" ELSE "RUNNING"]
            /\ Return(e) /\ Blame(t, e)
    BY ExecFsFacts DEF IInv
  <1>3. PICK v \in {"RUNNING", "DONE"} :
            /\ v = IF e = "OK" THEN "DONE" ELSE "RUNNING"
            /\ state' = [state EXCEPT ![t] = v]
    BY <1>2
  <1>4. /\ SoFarSoGood'
        /\ \A s \in Step \ {t} : state'[s] = "RUNNING" /\ s \notin failed' =>
                /\ pid[s] \in Pid
                /\ P!IsChild(proc, pid[s])
                /\ proc[pid[s]].cmd = s
        /\ e # "OK" => t \in failed'
        /\ state'[t] = v
    BY <1>1, <1>2, <1>3, ExecKeeps
  <1>5. state'[t] = "RUNNING" => t \in failed'
    BY <1>3, <1>4
  <1>6. OwnChild'
    BY <1>1, <1>4, <1>5 DEF OwnChild
  <1>7. QED
    BY <1>4, <1>6

LEMMA IInvClient ==
    ASSUME IInv,
           CleanVisit \/ Restart \/ \E r \in Roots : \/ CallClean(r) \/ CallReset(r)
                                                     \/ Ready(r) /\ CallRun(r)
    PROVE  SoFarSoGood' /\ OwnChild'
  <1>1. TypeOK
    BY DEF IInv, CallInv
  <1>2. ASSUME UNCHANGED <<pid, proc>>,
               \A s \in Step : state'[s] = "RUNNING" /\ s \notin failed' =>
                    state[s] = "RUNNING" /\ s \notin failed
        PROVE  OwnChild'
    BY <1>2 DEF IInv, OwnChild
  <1>3. CASE CleanVisit
    <2>1. op' = "clean" /\ Head(todo) \in Step
      BY <1>1, <1>3, HeadTailProperties DEF CleanVisit, TypeOK
    <2>2. \A s \in Step : state'[s] = "RUNNING" /\ s \notin failed' =>
            state[s] = "RUNNING" /\ s \notin failed
      BY <1>1, <1>3, <2>1 DEF CleanVisit, CleanState, TypeOK
    <2>3. QED
      BY <1>2, <1>3, <2>1, <2>2 DEF CleanVisit, SoFarSoGood
  <1>4. CASE Restart
    BY <1>4 DEF Restart, OwnChild, SoFarSoGood
  <1>5. ASSUME NEW r \in Roots, CallClean(r)
        PROVE  SoFarSoGood' /\ OwnChild'
    BY <1>2, <1>5 DEF CallClean, SoFarSoGood
  <1>6. ASSUME NEW r \in Roots, CallReset(r)
        PROVE  SoFarSoGood' /\ OwnChild'
    <2>1. \A s \in Step : state'[s] = "RUNNING" /\ s \notin failed' =>
            state[s] = "RUNNING" /\ s \notin failed
      BY <1>6 DEF CallReset, ResetState
    <2>2. QED
      BY <1>2, <1>6, <2>1 DEF CallReset, SoFarSoGood
  <1>7. ASSUME NEW r \in Roots, Ready(r), CallRun(r)
        PROVE  SoFarSoGood' /\ OwnChild'
    <2>1. root' = r /\ UNCHANGED <<state, pid, failed, proc>>
      BY <1>7 DEF CallRun
    <2>2. SoFarSoGood'
      BY <1>7, <2>1 DEF Ready, SoFarSoGood
    <2>3. QED
      BY <1>2, <2>1, <2>2
  <1>8. QED
    BY <1>3, <1>4, <1>5, <1>6, <1>7

\* A child that ends stays the child of its step; an orphan is nobody's.
LEMMA IInvCommandEnds ==
    ASSUME IInv, NEW p \in Pid, CommandEnds(p)
    PROVE  SoFarSoGood' /\ OwnChild'
  <1>1. PICK how \in P!Ended : Leave(p, how)
    BY DEF CommandEnds, ExitOk, ExitError, Killed, Fail, P!Ended
  <1>2. UNCHANGED prog
    BY DEF CommandEnds, ExitOk, ExitError, Killed, Fail
  <1>3. TypeOK
    BY DEF IInv, CallInv
  <1>4. ASSUME NEW q \in Pid, P!IsChild(proc, q)
        PROVE  P!IsChild(proc', q) /\ proc'[q].cmd = proc[q].cmd
    <2>1. proc[q].st # "orphan" /\ proc \in P!ProcType
      BY <1>3, <1>4 DEF P!IsChild, P!Ended, TypeOK
    <2>2. q = p => proc'[q] = [proc[q] EXCEPT !.st = how]
      BY <1>1, <2>1 DEF Leave, P!ProcType
    <2>3. q # p => proc'[q] = proc[q]
      BY <1>1, <2>1 DEF Leave, P!ProcType
    <2>4. proc[q] \in [st : {"free", "live", "orphan"} \cup P!Ended, cmd : Step \cup {NoStep}]
      BY <2>1 DEF P!ProcType
    <2>5. QED
      BY <1>4, <2>2, <2>3, <2>4 DEF P!IsChild
  <1>5. SoFarSoGood'
    BY <1>2 DEF prog, IInv, SoFarSoGood
  <1>6. OwnChild'
    BY <1>2, <1>4 DEF prog, IInv, OwnChild
  <1>7. QED
    BY <1>5, <1>6

LEMMA NextIInv == IInv /\ [Next]_vars => IInv'
  <1> SUFFICES ASSUME IInv, [Next]_vars PROVE IInv'
    OBVIOUS
  <1>1. CallInv'
    <2>1. [RetryNext]_vars
      BY DEF Next, RetryNext
    <2>2. QED
      BY <2>1, NextCallInv DEF IInv
  <1>2. CASE Run
    BY <1>1, <1>2, QuietSteps, IInvWaitDep, IInvExecCmd, IInvExecFs DEF Run, IInv
  <1>3. CASE CleanVisit \/ Restart \/ \E r \in Roots : \/ CallClean(r) \/ CallReset(r)
                                                       \/ Ready(r) /\ CallRun(r)
    BY <1>1, <1>3, IInvClient DEF IInv
  <1>4. CASE \E p \in Pid : CommandEnds(p)
    BY <1>1, <1>4, IInvCommandEnds DEF IInv
  <1>5. CASE UNCHANGED vars
    BY <1>1, <1>5 DEF vars, prog, IInv, SoFarSoGood, OwnChild
  <1>6. QED
    BY <1>2, <1>3, <1>4, <1>5 DEF Next, Others

LEMMA InitIInv == Init => IInv
  BY InitCallInv DEF Init, IInv, SoFarSoGood, OwnChild

\* While no error has been returned the steps below the root were executed in
\* order, and every running step that has not failed has a child of its own.
THEOREM Invariant == Spec => []IInv
  <1>1. QED
    BY InitIInv, NextIInv, PTL DEF Spec

\* waitpid is called for the child of the step that is waited for, which has
\* not been reaped.
THEOREM WaitsForItsOwn == Spec => []WaitsOwnChild
  <1>1. IInv => WaitsOwnChild
    BY WaitsOwn DEF WaitsOwnChild
  <1>2. QED
    BY <1>1, Invariant, PTL

\* A run that returns 0 has done everything below its root.
THEOREM SuccessIsDone == Spec => []SuccessMeansDone
  <1>1. ASSUME IInv, Returned("OK")
        PROVE  /\ state[root] # "NONE" /\ root \notin failed
               /\ \A s \in Reach[root] \ {root} : state[s] = "DONE" /\ s \notin failed
    <2> DEFINE T == {s \in Reach[root] : s = root \/ state[s] = "DONE"}
    <2>1. op = "run" /\ frames = <<>> /\ ret = "OK"
      BY <1>1 DEF Returned
    <2>2. root \in Step
      BY <1>1, <2>1, GraphAssumption DEF IInv, CallInv, TypeOK
    <2>3. state[root] # "NONE"
      BY <1>1, <2>1 DEF IInv, CallInv, StackOK, Dealt
    <2>4. /\ \A s \in Reach[root] : s \notin failed
          /\ \A s \in Reach[root] : state[s] # "NONE" =>
                \A d \in Deps(s) : state[d] = "DONE"
      BY <1>1, <2>1 DEF IInv, SoFarSoGood
    <2>5. /\ root \in Reach[root] /\ Reach[root] \subseteq Step
          /\ \A s \in Reach[root] : Deps(s) \subseteq Reach[root]
      BY <2>2, ReachClosed
    <2>6. /\ T \in SUBSET Step /\ root \in T
          /\ \A s \in T : Deps(s) \subseteq T
      BY <2>3, <2>4, <2>5
    <2>7. Reach[root] \subseteq T
      BY <2>2, <2>6, ReachLeast
    <2>8. QED
      BY <2>3, <2>4, <2>5, <2>7
  <1>2. IInv => SuccessMeansDone
    BY <1>1 DEF SuccessMeansDone
  <1>3. QED
    BY <1>2, Invariant, PTL
-----------------------------------------------------------------------------
(* The refinement *)

LEMMA InitAbstract == Init => Abstract!Init
  BY DEF Init, Abstract!Init, AbstractState

\* An abstract state is that of a function of the states and of the failures.
LEMMA AbstractOf ==
    ASSUME NEW s \in Step
    PROVE  /\ s \in failed => AbstractState[s] = "failed"
           /\ s \notin failed => /\ state[s] = "NONE" => AbstractState[s] = "idle"
                                 /\ state[s] = "RUNNING" => AbstractState[s] = "running"
                                 /\ state[s] = "DONE" => AbstractState[s] = "ok"
  BY DEF AbstractState

\* Executing the step on top starts its job.
LEMMA ExecStarts ==
    ASSUME IInv, LoopEnded("wait"), NEW v \in {"RUNNING", "DONE"},
           NEW e \in {"OK"} \cup RunError,
           state' = [state EXCEPT ![Top.step] = v],
           Blame(Top.step, e)
    PROVE  Abstract!Next
  <1> DEFINE t == Top.step
             result == IF e # "OK" THEN "failed"
                       ELSE IF v = "RUNNING" THEN "running" ELSE "ok"
  <1>1. /\ op = "run" /\ ret = "BUSY" /\ root \in Step
        /\ t \in Reach[root] /\ t \in Step
        /\ state[t] = "NONE" /\ state'[t] = v
        /\ Deps(t) \subseteq Step
        /\ \A d \in Deps(t) : state[d] = "DONE"
        /\ \A s \in Step \ {t} : state'[s] = state[s]
    BY ExecFacts DEF IInv
  <1>2. \A s \in Reach[root] : s \notin failed
    BY <1>1 DEF IInv, SoFarSoGood
  <1>3. Deps(t) \subseteq Reach[root]
    BY <1>1, ReachClosed
  <1>4. AbstractState[t] = "idle" /\ \A d \in Deps(t) : AbstractState[d] = "ok"
    BY <1>1, <1>2, <1>3, AbstractOf
  <1>5. failed' = IF e = "OK" THEN failed ELSE failed \cup {t}
    BY DEF Blame
  <1> HIDE DEF t
  <1>6. AbstractState' = [AbstractState EXCEPT ![t] = result]
    BY <1>1, <1>2, <1>5 DEF AbstractState
  <1>7. result \in {"running", "ok", "failed"}
    OBVIOUS
  <1> HIDE DEF result
  <1>8. Abstract!Start(t, result)
    BY <1>1, <1>4, <1>6 DEF Abstract!Start
  <1>9. QED
    BY <1>1, <1>7, <1>8 DEF Abstract!Next

\* Every step of the build engine is a step of the abstract build or leaves
\* it where it is.
LEMMA NextAbstract == IInv /\ [Next]_vars => [Abstract!Next]_AbstractState
  <1> SUFFICES ASSUME IInv, [Next]_vars
               PROVE  Abstract!Next \/ UNCHANGED AbstractState
    OBVIOUS
  <1>1. ASSUME UNCHANGED <<state, failed>>
        PROVE  UNCHANGED AbstractState
    BY <1>1 DEF AbstractState
  <1>2. ASSUME NEW S \in SUBSET Step,
               state' = [s \in Step |-> IF s \in S THEN "NONE" ELSE state[s]],
               failed' = failed \ S
        PROVE  Abstract!Next
    <2>1. AbstractState' = [s \in Step |-> IF s \in S THEN "idle" ELSE AbstractState[s]]
      BY <1>2 DEF AbstractState
    <2>2. Abstract!Forget(S)
      BY <2>1 DEF Abstract!Forget
    <2>3. QED
      BY <2>2 DEF Abstract!Next
  <1>3. CASE \/ EarlyReturn \/ Enter \/ RunDep \/ Resume \/ PropagateError
             \/ BeginWait \/ SkipWait
    BY <1>1, <1>3, QuietSteps
  <1>4. CASE WaitDep
    <2> DEFINE c == Current
               result == IF c \in failed' THEN "failed" ELSE "ok"
    <2>1. /\ InLoop("wait") /\ state[c] = "RUNNING" /\ state'[c] = "DONE"
          /\ \A s \in Step \ {c} : state'[s] = state[s]
      BY <1>4, WaitDepFacts DEF IInv
    <2>2. c \in Step /\ c \notin failed
      BY <2>1, WaitsOwn
    <2>3. failed' = failed \/ failed' = failed \cup {c}
      BY <1>4 DEF WaitDep, Blame
    <2> HIDE DEF c
    <2>4. AbstractState' = [AbstractState EXCEPT ![c] = result]
      BY <2>1, <2>2, <2>3 DEF AbstractState
    <2>5. AbstractState[c] = "running" /\ result \in {"ok", "failed"}
      BY <2>1, <2>2, AbstractOf
    <2>6. Abstract!Finish(c, result)
      BY <2>4, <2>5 DEF Abstract!Finish
    <2>7. QED
      BY <2>2, <2>5, <2>6 DEF Abstract!Next
  <1>5. CASE ExecCmd
    <2>1. /\ LoopEnded("wait")
          /\ state' = [state EXCEPT ![Top.step] = "RUNNING"]
          /\ \E e \in {"OK"} \cup RunError : Blame(Top.step, e)
      BY <1>5, ExecCmdFacts DEF IInv, CallInv
    <2>2. QED
      BY <2>1, ExecStarts
  <1>6. CASE ExecFs
    <2>1. LoopEnded("wait")
      BY <1>6, ExecFsFacts DEF IInv
    <2>2. PICK e \in {"OK"} \cup RunError :
            /\ state' = [state EXCEPT ![Top.step] =
                            IF e = "OK" THEN "DONE" ELSE "RUNNING"]
            /\ Blame(Top.step, e)
      BY <1>6, ExecFsFacts DEF IInv
    <2>3. PICK v \in {"RUNNING", "DONE"} : state' = [state EXCEPT ![Top.step] = v]
      BY <2>2
    <2>4. QED
      BY <2>1, <2>2, <2>3, ExecStarts
  <1>7. CASE CleanVisit
    <2> DEFINE h == Head(todo)
    <2>1. TypeOK /\ h \in Step
      BY <1>7, HeadTailProperties DEF IInv, CallInv, TypeOK, CleanVisit
    <2>2. /\ state' = [s \in Step |-> IF s \in {h} THEN "NONE" ELSE state[s]]
          /\ failed' = failed \ {h}
      BY <1>7, <2>1 DEF CleanVisit, CleanState, TypeOK
    <2>3. QED
      BY <1>2, <2>1, <2>2
  <1>8. CASE Restart
    <2>1. /\ state' = [s \in Step |-> IF s \in Step THEN "NONE" ELSE state[s]]
          /\ failed' = failed \ Step
      BY <1>8 DEF Restart, IInv, CallInv, TypeOK
    <2>2. QED
      BY <1>2, <2>1
  <1>9. ASSUME NEW r \in Roots, CallReset(r)
        PROVE  Abstract!Next
    <2>1. Reach[r] \in SUBSET Step
      BY ReachClosed, GraphAssumption
    <2>2. QED
      BY <1>2, <1>9, <2>1 DEF CallReset, ResetState
  <1>10. ASSUME NEW r \in Roots, CallClean(r) \/ CallRun(r)
         PROVE  UNCHANGED AbstractState
    BY <1>1, <1>10 DEF CallClean, CallRun
  <1>11. CASE (\E p \in Pid : CommandEnds(p)) \/ UNCHANGED vars
    BY <1>1, <1>11 DEF CommandEnds, ExitOk, ExitError, Killed, Fail, vars, prog
  <1>12. QED
    BY <1>3, <1>4, <1>5, <1>6, <1>7, <1>8, <1>9, <1>10, <1>11 DEF Next, Others, Run

\* aven_build_step_run implements the abstract build: a step is executed once,
\* and only when everything it depends on has succeeded.
THEOREM Refinement == Spec => ImplementsDagBuild
  <1>1. QED
    BY InitAbstract, Invariant, NextAbstract, PTL
       DEF Spec, ImplementsDagBuild, Abstract!Spec

-----------------------------------------------------------------------------
(* The file operations keep a tree *)

\* A file may go, and a directory that is empty.
LEMMA TreeLess ==
    ASSUME NEW f \in F!FsType, F!IsTree(f), NEW p \in Path,
           f[p] = "dir" => F!IsEmpty(f, p)
    PROVE  F!IsTree(F!Put(f, p, "none"))
  <1> DEFINE g == F!Put(f, p, "none")
  <1>1. g[p] = "none" /\ \A q \in Path \ {p} : g[q] = f[q]
    BY DEF F!Put, F!FsType
  <1> HIDE DEF g
  <1>2. ASSUME NEW q \in Path, g[q] # "none", In[q] # NoPath
        PROVE  g[In[q]] = "dir"
    <2>1. f[q] # "none" /\ In[q] \in Path
      BY <1>1, <1>2, PathAssumption
    <2>2. f[In[q]] = "dir"
      BY <1>2, <2>1 DEF F!IsTree, F!ParentThere
    <2>3. In[q] # p
      BY <2>1, <2>2 DEF F!IsEmpty
    <2>4. QED
      BY <1>1, <2>1, <2>2, <2>3
  <1>3. QED
    BY <1>2 DEF F!IsTree, F!ParentThere, g

\* What is made has a parent, and a directory is not made a file.
LEMMA TreeMore ==
    ASSUME NEW f \in F!FsType, F!IsTree(f), NEW p \in Path,
           NEW k \in {"file", "dir"}, F!ParentThere(f, p), f[p] # "dir"
    PROVE  F!IsTree(F!Put(f, p, k))
  <1> DEFINE g == F!Put(f, p, k)
  <1>1. g[p] = k /\ \A q \in Path \ {p} : g[q] = f[q]
    BY DEF F!Put, F!FsType
  <1> HIDE DEF g
  <1>2. ASSUME NEW q \in Path, g[q] # "none", In[q] # NoPath
        PROVE  g[In[q]] = "dir"
    <2>1. In[q] \in Path
      BY <1>2, PathAssumption
    <2>2. f[In[q]] = "dir"
      BY <1>1, <1>2 DEF F!IsTree, F!ParentThere
    <2>3. QED
      BY <1>1, <2>1, <2>2
  <1>3. QED
    BY <1>2 DEF F!IsTree, F!ParentThere, g

\* The outcomes of every operation on a tree are trees.
LEMMA OperationsKeepTree ==
    ASSUME NEW f \in F!FsType, F!IsTree(f), NEW p \in Path
    PROVE  /\ \A o \in F!aven_fs_rm(f, p) : F!IsTree(o.fs)
           /\ \A o \in F!aven_fs_rmdir(f, p) : F!IsTree(o.fs)
           /\ \A o \in F!aven_fs_mkdir(f, p) : F!IsTree(o.fs)
           /\ \A o \in F!aven_fs_trunc(f, p) : F!IsTree(o.fs)
           /\ \A i \in Path : \A o \in F!aven_fs_copy(f, i, p) : F!IsTree(o.fs)
  <1>1. \A g, e : F!Outcome(g, e).fs = g
    BY DEF F!Outcome
  <1>2. \A g, E : \A o \in F!Refused(g, E) : o.fs = g
    BY <1>1 DEF F!Refused
  <1>3. (f[p] = "dir" => F!IsEmpty(f, p)) => F!IsTree(F!Put(f, p, "none"))
    BY TreeLess
  <1>4. f[p] # "dir" => F!IsTree(F!Put(f, p, "none"))
    BY TreeLess
  <1>5. F!CanCreate(f, p) => F!IsTree(F!Put(f, p, "file"))
    BY TreeMore DEF F!CanCreate
  <1>6. F!ParentThere(f, p) /\ f[p] = "none" => F!IsTree(F!Put(f, p, "dir"))
    BY TreeMore
  <1>7. \A o \in F!aven_fs_rm(f, p) : F!IsTree(o.fs)
    BY <1>1, <1>2, <1>4 DEF F!aven_fs_rm
  <1>8. \A o \in F!aven_fs_rmdir(f, p) : F!IsTree(o.fs)
    BY <1>1, <1>2, <1>3 DEF F!aven_fs_rmdir
  <1>9. \A o \in F!aven_fs_mkdir(f, p) : F!IsTree(o.fs)
    BY <1>1, <1>2, <1>6 DEF F!aven_fs_mkdir
  <1>10. \A o \in F!aven_fs_trunc(f, p) : F!IsTree(o.fs)
    BY <1>1, <1>2, <1>5 DEF F!aven_fs_trunc
  <1>11. ASSUME NEW i \in Path, NEW o \in F!aven_fs_copy(f, i, p)
         PROVE  F!IsTree(o.fs)
    <2>1. ASSUME o \in F!CopyPosix(f, i, p)
          PROVE  F!IsTree(o.fs)
      BY <1>1, <1>2, <1>5, <2>1 DEF F!CopyPosix
    <2>2. ASSUME o \in F!CopyWindows(f, i, p)
          PROVE  F!IsTree(o.fs)
      <3>1. CASE F!ParentThere(f, p) /\ f[p] # "dir"
        BY <1>1, <1>2, <1>4, <1>5, <2>2, <3>1 DEF F!CopyWindows, F!CanCreate
      <3>2. CASE ~ (F!ParentThere(f, p) /\ f[p] # "dir")
        BY <1>1, <1>2, <2>2, <3>2 DEF F!CopyWindows
      <3>3. QED
        BY <3>1, <3>2
    <2>3. QED
      BY <2>1, <2>2 DEF F!aven_fs_copy
  <1>12. QED
    BY <1>7, <1>8, <1>9, <1>10, <1>11

\* A command makes files only where it can create them.
LEMMA CommandsKeepTree ==
    ASSUME TypeOK, F!IsTree(fs), NEW W,
           \A w \in W : F!CanCreate(fs, w)
    PROVE  F!IsTree(Make(W))
  <1>1. /\ fs \in [Path -> F!Kind]
        /\ \A q \in Path : Make(W)[q] = IF q \in W THEN "file" ELSE fs[q]
    BY DEF TypeOK, F!FsType, Make
  <1>2. ASSUME NEW q \in Path, Make(W)[q] # "none", In[q] # NoPath
        PROVE  Make(W)[In[q]] = "dir"
    <2>1. In[q] \in Path
      BY <1>2, PathAssumption
    <2>2. F!ParentThere(fs, q)
      BY <1>1, <1>2 DEF F!CanCreate, F!IsTree
    <2>3. fs[In[q]] = "dir"
      BY <1>2, <2>2 DEF F!ParentThere
    <2>4. In[q] \notin W
      BY <2>3 DEF F!CanCreate
    <2>5. QED
      BY <1>1, <2>1, <2>3, <2>4
  <1>3. QED
    BY <1>2 DEF F!IsTree, F!ParentThere

\* What any step of the system may do to the files.
LEMMA FsSteps ==
    ASSUME TypeOK, [RetryNext]_vars
    PROVE  \/ UNCHANGED fs
           \/ ExecFs
           \/ CleanVisit
           \/ \E p \in Pid : CommandEnds(p)
  BY DEF RetryNext, Others, Run, EarlyReturn, Enter, RunDep, Resume, PropagateError,
     BeginWait, SkipWait, WaitDep, ExecCmd, CallRun, CallClean, CallReset, Restart,
     vars

\* The file systems of a visit of the clean are those of an rm and an rmdir.
LEMMA RemovedFacts ==
    ASSUME NEW p \in Path, NEW g \in Removed(p)
    PROVE  \E o \in F!aven_fs_rm(fs, p) : \E q \in F!aven_fs_rmdir(o.fs, p) : g = q.fs
  <1>1. p # NoPath
    BY PathAssumption
  <1>2. QED
    BY <1>1 DEF Removed

LEMMA EffectKeepsTree ==
    ASSUME TypeOK, F!IsTree(fs), NEW s \in Step, Type[s] # "CMD", NEW o \in Effect(s)
    PROVE  F!IsTree(o.fs)
  <1>1. fs \in F!FsType
    BY DEF TypeOK
  <1>2. Type[s] \in StepType /\ Out[s] \in Path \cup {NoPath}
    BY GraphAssumption, PathAssumption
  <1>3. CASE Type[s] \in {"ROOT", "PATH"} \/ (Type[s] \in {"TRUNC", "MKDIR", "COPY"} /\ Out[s] = NoPath)
    BY <1>3 DEF Effect, F!Outcome
  <1>4. CASE Type[s] \in {"RM", "RMDIR"}
    <2>1. Arg[s] \in Path
      BY <1>4, PathAssumption
    <2>2. o \in F!aven_fs_rm(fs, Arg[s]) \/ o \in F!aven_fs_rmdir(fs, Arg[s])
      BY <1>4 DEF Effect
    <2>3. QED
      BY <1>1, <2>1, <2>2, OperationsKeepTree
  <1>5. CASE Type[s] \in {"TRUNC", "MKDIR", "COPY"} /\ Out[s] # NoPath
    <2>1. Out[s] \in Path /\ (Type[s] = "COPY" => Arg[s] \in Path)
      BY <1>2, <1>5, PathAssumption
    <2>2. \/ o \in F!aven_fs_trunc(fs, Out[s])
          \/ o \in F!aven_fs_mkdir(fs, Out[s])
          \/ Type[s] = "COPY" /\ o \in F!aven_fs_copy(fs, Arg[s], Out[s])
      BY <1>5 DEF Effect
    <2>3. QED
      BY <1>1, <2>1, <2>2, OperationsKeepTree
  <1>6. QED
    BY <1>2, <1>3, <1>4, <1>5 DEF StepType

LEMMA NextTree == TypeOK /\ FilesFormATree /\ [RetryNext]_vars => FilesFormATree'
  <1> SUFFICES ASSUME TypeOK, F!IsTree(fs), [RetryNext]_vars
               PROVE  F!IsTree(fs')
    BY DEF FilesFormATree, F!IsTree, F!ParentThere
  <1>1. CASE ExecFs
    <2>1. frames # <<>> /\ Type[Top.step] # "CMD"
      BY <1>1 DEF ExecFs, LoopEnded, Executing
    <2>2. Top.step \in Step
      BY <2>1, TopTyped DEF Frame
    <2>3. PICK o \in Effect(Top.step) : fs' = o.fs
      BY <1>1 DEF ExecFs
    <2>4. QED
      BY <2>1, <2>2, <2>3, EffectKeepsTree
  <1>2. CASE CleanVisit
    <2>1. Head(todo) \in Step /\ fs' \in Removed(Out[Head(todo)])
      BY <1>2, HeadTailProperties DEF CleanVisit, TypeOK
    <2>2. CASE Out[Head(todo)] = NoPath
      BY <2>1, <2>2 DEF Removed
    <2>3. CASE Out[Head(todo)] # NoPath
      <3> DEFINE p == Out[Head(todo)]
      <3>1. p \in Path /\ fs' \in Removed(p)
        BY <2>1, <2>3, PathAssumption
      <3> HIDE DEF p
      <3>2. PICK o \in F!aven_fs_rm(fs, p) : \E q \in F!aven_fs_rmdir(o.fs, p) : fs' = q.fs
        BY <3>1, RemovedFacts
      <3>3. fs \in F!FsType
        BY DEF TypeOK
      <3>4. o.fs \in F!FsType /\ F!IsTree(o.fs)
        BY <3>1, <3>2, <3>3, FsTyped, OperationsKeepTree
      <3>5. QED
        BY <3>1, <3>2, <3>4, OperationsKeepTree
    <2>4. QED
      BY <2>2, <2>3
  <1>3. ASSUME NEW p \in Pid, CommandEnds(p)
        PROVE  F!IsTree(fs')
    <2>1. PICK W : fs' = Make(W) /\ W \subseteq Creatable(proc[p].cmd)
      BY <1>3 DEF CommandEnds, ExitOk, ExitError, Killed, Fail, CanSucceed
    <2>2. \A w \in W : F!CanCreate(fs, w)
      BY <2>1 DEF Creatable
    <2>3. QED
      BY <2>1, <2>2, CommandsKeepTree
  <1>4. QED
    BY <1>1, <1>2, <1>3, FsSteps

-----------------------------------------------------------------------------
(* What was made is there *)

LEMMA ReachSplit ==
    ASSUME NEW r \in Step, NEW s \in Reach[r], s # r
    PROVE  \E d \in Deps(r) : s \in Reach[d]
  <1> DEFINE T == {r} \cup UNION {Reach[d] : d \in Deps(r)}
  <1>1. T \in SUBSET Step /\ r \in T
    BY DepsAreSteps, ReachClosed
  <1>2. ASSUME NEW t \in T
        PROVE  Deps(t) \subseteq T
    <2>1. CASE t = r
      BY <2>1, DepsAreSteps, ReachClosed
    <2>2. CASE t # r
      BY <1>2, <2>2, DepsAreSteps, ReachClosed
    <2>3. QED
      BY <2>1, <2>2
  <1>3. Reach[r] \subseteq T
    BY <1>1, <1>2, ReachLeast
  <1>4. QED
    BY <1>3

LEMMA ReachTransitive ==
    ASSUME NEW r \in Step, NEW s \in Reach[r]
    PROVE  s \in Step /\ Reach[s] \subseteq Reach[r]
  BY ReachClosed, ReachLeast

\* No two steps are below each other.
LEMMA ReachAcyclic ==
    ASSUME NEW r \in Step, NEW s \in Reach[r], r \in Reach[s]
    PROVE  r = s
  <1> SUFFICES ASSUME r # s PROVE FALSE
    OBVIOUS
  <1> DEFINE S == {x \in Step : x \in Reach[r] /\ r \in Reach[x]}
  <1>1. s \in Step /\ r \in Reach[r]
    BY ReachTransitive, ReachClosed
  <1>2. PICK x \in S : Deps(x) \cap S = {}
    BY <1>1, AcyclicAssumption
  <1>3. PICK d \in Deps(x) : r \in Reach[d]
    <2>1. CASE x = r
      <3>1. PICK d \in Deps(r) : s \in Reach[d]
        BY <1>1, ReachSplit
      <3>2. d \in Step
        BY DepsAreSteps
      <3>3. r \in Reach[d]
        BY <3>1, <3>2, ReachTransitive
      <3>4. QED
        BY <2>1, <3>3
    <2>2. CASE x # r
      BY <1>2, <2>2, ReachSplit
    <2>3. QED
      BY <2>1, <2>2
  <1>4. d \in Step /\ d \in Reach[x]
    BY DepsAreSteps, ReachClosed
  <1>5. d \in Reach[r]
    BY <1>2, <1>4, ReachTransitive
  <1>6. QED
    BY <1>2, <1>3, <1>4, <1>5

\* Every operation changes the path it is given and no other.
LEMMA OperationsTouch ==
    ASSUME NEW f \in F!FsType, NEW p \in Path, NEW q \in Path \ {p}
    PROVE  /\ \A o \in F!aven_fs_rm(f, p) : o.fs[q] = f[q]
           /\ \A o \in F!aven_fs_rmdir(f, p) : o.fs[q] = f[q]
           /\ \A o \in F!aven_fs_mkdir(f, p) : o.fs[q] = f[q]
           /\ \A o \in F!aven_fs_trunc(f, p) : o.fs[q] = f[q]
           /\ \A i \in Path : \A o \in F!aven_fs_copy(f, i, p) : o.fs[q] = f[q]
  <1>1. \A g, e : F!Outcome(g, e).fs = g
    BY DEF F!Outcome
  <1>2. \A g, E : \A o \in F!Refused(g, E) : o.fs = g
    BY <1>1 DEF F!Refused
  <1>3. \A k : F!Put(f, p, k)[q] = f[q]
    BY DEF F!Put, F!FsType
  <1>4. \A o \in F!aven_fs_rm(f, p) : o.fs[q] = f[q]
    BY <1>1, <1>2, <1>3 DEF F!aven_fs_rm
  <1>5. \A o \in F!aven_fs_rmdir(f, p) : o.fs[q] = f[q]
    BY <1>1, <1>2, <1>3 DEF F!aven_fs_rmdir
  <1>6. \A o \in F!aven_fs_mkdir(f, p) : o.fs[q] = f[q]
    BY <1>1, <1>2, <1>3 DEF F!aven_fs_mkdir
  <1>7. \A o \in F!aven_fs_trunc(f, p) : o.fs[q] = f[q]
    BY <1>1, <1>2, <1>3 DEF F!aven_fs_trunc
  <1>8. \A i \in Path : \A o \in F!aven_fs_copy(f, i, p) : o.fs[q] = f[q]
    BY <1>1, <1>2, <1>3 DEF F!aven_fs_copy, F!CopyPosix, F!CopyWindows
  <1>9. QED
    BY <1>4, <1>5, <1>6, <1>7, <1>8

\* What the operations that make something leave at their path.
LEMMA OperationsMake ==
    ASSUME NEW f \in F!FsType, NEW p \in Path
    PROVE  /\ \A o \in F!aven_fs_mkdir(f, p) :
                /\ o.err \in {"OK", "EXIST"} => o.fs[p] # "none"
                /\ f[p] # "none" => o.fs[p] # "none"
           /\ \A o \in F!aven_fs_trunc(f, p) :
                /\ o.err = "OK" => o.fs[p] # "none"
                /\ f[p] # "none" => o.fs[p] # "none"
           /\ \A i \in Path : \A o \in F!aven_fs_copy(f, i, p) :
                o.err = "OK" => o.fs[p] # "none"
  <1>1. \A g, e : F!Outcome(g, e).fs = g /\ F!Outcome(g, e).err = e
    BY DEF F!Outcome
  <1>2. \A g, E : \A o \in F!Refused(g, E) : o.fs = g /\ o.err \in E
    BY <1>1 DEF F!Refused
  <1>3. \A k : F!Put(f, p, k)[p] = k
    BY DEF F!Put, F!FsType
  <1>4. ASSUME NEW o \in F!aven_fs_mkdir(f, p)
        PROVE  /\ o.err \in {"OK", "EXIST"} => o.fs[p] # "none"
               /\ f[p] # "none" => o.fs[p] # "none"
    BY <1>1, <1>2, <1>3 DEF F!aven_fs_mkdir
  <1>5. ASSUME NEW o \in F!aven_fs_trunc(f, p)
        PROVE  /\ o.err = "OK" => o.fs[p] # "none"
               /\ f[p] # "none" => o.fs[p] # "none"
    BY <1>1, <1>2, <1>3 DEF F!aven_fs_trunc
  <1>6. ASSUME NEW i \in Path, NEW o \in F!aven_fs_copy(f, i, p), o.err = "OK"
        PROVE  o.fs[p] # "none"
    BY <1>1, <1>2, <1>3, <1>6 DEF F!aven_fs_copy, F!CopyPosix, F!CopyWindows
  <1>7. QED
    BY <1>4, <1>5, <1>6

\* A step that makes a file does so or fails.  What goes away is what a step
\* removes, or the output of a copy that fails.
LEMMA EffectMakes ==
    ASSUME TypeOK, NEW s \in Step, Type[s] # "CMD", NEW o \in Effect(s)
    PROVE  /\ StepError(s, o.err) = "OK" => \A p \in Products(s) : o.fs[p] # "none"
           /\ \A p \in Path \ RemovedArgs : fs[p] # "none" =>
                \/ o.fs[p] # "none"
                \/ Type[s] = "COPY" /\ p = Out[s] /\ StepError(s, o.err) # "OK"
  <1>1. fs \in F!FsType
    BY DEF TypeOK
  <1>2. Type[s] \in StepType /\ Out[s] \in Path \cup {NoPath}
    BY GraphAssumption, PathAssumption
  <1>3. CASE Type[s] \in {"ROOT", "PATH"}
    BY <1>3 DEF Effect, F!Outcome, Products
  <1>4. CASE Type[s] \in {"TRUNC", "MKDIR", "COPY"} /\ Out[s] = NoPath
    <2>1. o = F!Outcome(fs, "OUTPATH")
      BY <1>4 DEF Effect
    <2>2. o.fs = fs /\ StepError(s, o.err) = "OUTPATH"
      BY <2>1 DEF F!Outcome, StepError
    <2>3. QED
      BY <2>2
  <1>5. CASE Type[s] \in {"RM", "RMDIR"}
    <2>1. Arg[s] \in Path /\ Arg[s] \in RemovedArgs
      BY <1>5, PathAssumption DEF RemovedArgs
    <2>2. o \in F!aven_fs_rm(fs, Arg[s]) \/ o \in F!aven_fs_rmdir(fs, Arg[s])
      BY <1>5 DEF Effect
    <2>3. \A p \in Path \ {Arg[s]} : o.fs[p] = fs[p]
      BY <1>1, <2>1, <2>2, OperationsTouch
    <2>4. Products(s) = {}
      BY <1>5 DEF Products
    <2>5. QED
      BY <2>1, <2>3, <2>4
  <1>6. CASE Type[s] \in {"TRUNC", "MKDIR"} /\ Out[s] # NoPath
    <2>1. Out[s] \in Path /\ Products(s) = {Out[s]}
      BY <1>2, <1>6 DEF Products
    <2>2. \/ Type[s] = "TRUNC" /\ o \in F!aven_fs_trunc(fs, Out[s])
          \/ Type[s] = "MKDIR" /\ o \in F!aven_fs_mkdir(fs, Out[s])
      BY <1>6 DEF Effect
    <2>3. \A p \in Path \ {Out[s]} : o.fs[p] = fs[p]
      BY <1>1, <2>1, <2>2, OperationsTouch
    <2>4. /\ StepError(s, o.err) = "OK" => o.fs[Out[s]] # "none"
          /\ fs[Out[s]] # "none" => o.fs[Out[s]] # "none"
      BY <1>1, <2>1, <2>2, OperationsMake DEF StepError
    <2>5. QED
      BY <2>1, <2>3, <2>4
  <1>7. CASE Type[s] = "COPY" /\ Out[s] # NoPath
    <2>1. Out[s] \in Path /\ Arg[s] \in Path /\ Products(s) = {Out[s]}
      BY <1>2, <1>7, PathAssumption DEF Products
    <2>2. o \in F!aven_fs_copy(fs, Arg[s], Out[s])
      BY <1>7 DEF Effect
    <2>3. \A p \in Path \ {Out[s]} : o.fs[p] = fs[p]
      BY <1>1, <2>1, <2>2, OperationsTouch
    <2>4. StepError(s, o.err) = "OK" => o.fs[Out[s]] # "none"
      BY <1>1, <1>7, <2>1, <2>2, OperationsMake DEF StepError
    <2>5. QED
      BY <1>7, <2>1, <2>3, <2>4
  <1>8. QED
    BY <1>2, <1>3, <1>4, <1>5, <1>6, <1>7 DEF StepType

\* What was made stays made where no step is newly made or no longer to be
\* visited, and nothing that lasts goes.
LEMMA MadeKept ==
    ASSUME MadeIsThere,
           \A s \in Step : Made(s)' /\ ~ ToVisit(s)' => Made(s) /\ ~ ToVisit(s),
           \A p \in Lasting : fs[p] # "none" => fs'[p] # "none"
    PROVE  MadeIsThere'
  BY DEF MadeIsThere, Products, Lasting, RemovedArgs

LEMMA MadeQuiet ==
    ASSUME BuiltInv,
           \/ EarlyReturn \/ Enter \/ RunDep \/ Resume \/ PropagateError
           \/ BeginWait \/ SkipWait
           \/ \E r \in Roots : CallRun(r) \/ CallClean(r) \/ CallReset(r)
           \/ Restart
    PROVE  OnlyCommandsRun' /\ MadeIsThere'
  <1>1. CASE Restart
    BY <1>1 DEF Restart, OnlyCommandsRun, MadeIsThere, Made
  <1>2. ASSUME NEW r \in Roots, CallReset(r)
        PROVE  OnlyCommandsRun' /\ MadeIsThere'
    <2>1. \A s \in Step : state'[s] # "NONE" /\ s \notin failed' =>
            state[s] = state'[s] /\ s \notin failed
      BY <1>2 DEF CallReset, ResetState
    <2>2. UNCHANGED <<pid, proc, todo, fs>>
      BY <1>2 DEF CallReset
    <2>3. \A s \in Step : Made(s)' /\ ~ ToVisit(s)' => Made(s) /\ ~ ToVisit(s)
      BY <2>1, <2>2 DEF Made, ToVisit
    <2>4. QED
      BY <2>1, <2>2, <2>3, MadeKept DEF BuiltInv, OnlyCommandsRun
  <1>3. ASSUME NEW r \in Roots, CallClean(r)
        PROVE  OnlyCommandsRun' /\ MadeIsThere'
    <2>1. UNCHANGED <<state, pid, failed, proc, fs>> /\ Len(todo) = 0
      BY <1>3 DEF CallClean, Idle
    <2>2. \A s \in Step : Made(s)' /\ ~ ToVisit(s)' => Made(s) /\ ~ ToVisit(s)
      BY <2>1 DEF Made, ToVisit
    <2>3. QED
      BY <2>1, <2>2, MadeKept DEF BuiltInv, OnlyCommandsRun
  <1>4. ASSUME UNCHANGED <<state, pid, failed, proc, fs, todo>>
        PROVE  OnlyCommandsRun' /\ MadeIsThere'
    BY <1>4 DEF BuiltInv, OnlyCommandsRun, MadeIsThere, Made, ToVisit, Products,
       Lasting, RemovedArgs
  <1>5. QED
    BY <1>1, <1>2, <1>3, <1>4 DEF EarlyReturn, Enter, RunDep, Resume, PropagateError,
       BeginWait, SkipWait, CallRun

\* A step that is waited for with success was made before: its command had
\* exited with 0.
LEMMA WaitedWasMade ==
    ASSUME BuiltInv, WaitDep, NEW s \in Step, Made(s)'
    PROVE  Made(s)
  <1> DEFINE c == Current
  <1>1. /\ InLoop("wait")
        /\ state[c] = "RUNNING" /\ state'[c] = "DONE"
        /\ \A x \in Step \ {c} : state'[x] = state[x]
        /\ UNCHANGED <<pid, op, root, todo, fs>>
    BY WaitDepFacts DEF BuiltInv, IInv, WaitDep
  <1>2. PICK o \in P!aven_proc_wait(proc, pid[c]) : proc' = o.proc /\ Blame(c, o.err)
    BY DEF WaitDep
  <1>3. /\ c \in Step /\ c \notin failed /\ pid[c] \in Pid
        /\ P!Target(proc, pid[c]) = {pid[c]}
    BY <1>1, WaitsOwn DEF BuiltInv
  <1>4. proc' = proc \/ proc' = [proc EXCEPT ![pid[c]] = P!Free]
    BY <1>2, <1>3 DEF P!aven_proc_wait
  <1>5. failed \subseteq failed' /\ TypeOK
    BY <1>2 DEF Blame, BuiltInv, IInv, CallInv
  <1>6. c \notin failed' => proc[pid[c]].st = "ok"
    <2>1. c \notin failed' => o.err = "OK"
      BY <1>2 DEF Blame
    <2>2. o.err = "OK" => proc[pid[c]].st = "ok"
      BY <1>2, <1>3 DEF P!aven_proc_wait, P!Status, P!Ended
    <2>3. QED
      BY <2>1, <2>2
  <1> HIDE DEF c
  <1>7. s \notin failed
    BY <1>5 DEF Made
  <1>8. CASE s = c
    BY <1>1, <1>6, <1>7, <1>8 DEF Made
  <1>9. CASE s # c /\ state[s] = "RUNNING"
    <2>1. pid[s] \in Pid
      BY <1>7, <1>9 DEF BuiltInv, IInv, OwnChild
    <2>2. proc'[pid[s]] = proc[pid[s]] \/ proc'[pid[s]] = P!Free
      <3>1. proc \in P!ProcType
        BY <1>5 DEF TypeOK
      <3>2. \A q \in Pid : \A v : [proc EXCEPT ![pid[c]] = v][q] = proc[q] \/ [proc EXCEPT ![pid[c]] = v][q] = v
        BY <3>1 DEF P!ProcType
      <3>3. QED
        BY <1>4, <2>1, <3>2
    <2>3. QED
      BY <1>1, <1>7, <1>9, <2>2 DEF Made, P!Free
  <1>10. CASE s # c /\ state[s] # "RUNNING"
    BY <1>1, <1>7, <1>10 DEF Made
  <1>11. QED
    BY <1>8, <1>9, <1>10

LEMMA MadeWaitDep ==
    ASSUME BuiltInv, WaitDep
    PROVE  OnlyCommandsRun' /\ MadeIsThere'
  <1>1. /\ Current \in Step /\ state'[Current] = "DONE"
        /\ \A s \in Step \ {Current} : state'[s] = state[s]
        /\ UNCHANGED <<todo, fs>> /\ failed \subseteq failed'
    BY WaitDepFacts DEF BuiltInv, IInv, WaitDep, Blame
  <1>2. MadeIsThere'
    BY <1>1, WaitedWasMade, MadeKept DEF BuiltInv, ToVisit
  <1>3. OnlyCommandsRun'
    BY <1>1 DEF BuiltInv, OnlyCommandsRun
  <1>4. QED
    BY <1>2, <1>3

\* A command that is started has not ended yet.
LEMMA StartedWasMade ==
    ASSUME BuiltInv, ExecCmd, NEW s \in Step, Made(s)'
    PROVE  Made(s)
  <1> DEFINE t == Top.step
  <1>1. /\ LoopEnded("wait") /\ Type[t] = "CMD"
        /\ state' = [state EXCEPT ![t] = "RUNNING"]
        /\ UNCHANGED <<todo, fs>>
    BY DEF ExecCmd
  <1>2. PICK e \in {"OK"} \cup RunError :
            /\ Return(e) /\ Blame(t, e)
            /\ \/ e # "OK" /\ UNCHANGED <<pid, proc>>
               \/ \E p \in Pid :
                    /\ proc[p].st = "free"
                    /\ proc' = [proc EXCEPT ![p] = [st |-> "live", cmd |-> t]]
                    /\ pid' = [pid EXCEPT ![t] = p]
    BY ExecCmdFacts DEF BuiltInv, IInv, CallInv
  <1>3. /\ t \in Step /\ TypeOK /\ state'[t] = "RUNNING"
        /\ \A u \in Step \ {t} : state'[u] = state[u]
    BY <1>1, ExecFacts DEF BuiltInv, IInv, CallInv
  <1>4. failed \subseteq failed' /\ (e # "OK" => t \in failed')
    BY <1>2 DEF Blame
  <1> HIDE DEF t
  <1>5. s \notin failed /\ s \notin failed'
    BY <1>4 DEF Made
  <1>6. CASE e # "OK" /\ UNCHANGED <<pid, proc>>
    BY <1>3, <1>4, <1>5, <1>6 DEF Made
  <1>7. ASSUME NEW p \in Pid, proc[p].st = "free",
               proc' = [proc EXCEPT ![p] = [st |-> "live", cmd |-> t]],
               pid' = [pid EXCEPT ![t] = p]
        PROVE  Made(s)
    <2>1. pid'[t] = p /\ proc'[p].st = "live"
      BY <1>3, <1>7 DEF TypeOK, P!ProcType
    <2>2. s # t
      BY <1>3, <2>1 DEF Made
    <2>3. pid'[s] = pid[s] /\ state'[s] = state[s]
      BY <1>3, <1>7, <2>2 DEF TypeOK
    <2>4. CASE state[s] = "RUNNING"
      <3>1. pid[s] \in Pid /\ P!IsChild(proc, pid[s])
        BY <1>5, <2>4 DEF BuiltInv, IInv, OwnChild
      <3>2. pid[s] # p
        BY <1>7, <3>1 DEF P!IsChild, P!Ended
      <3>3. proc'[pid[s]] = proc[pid[s]]
        BY <1>3, <1>7, <3>1, <3>2 DEF TypeOK, P!ProcType
      <3>4. QED
        BY <1>5, <2>3, <3>3 DEF Made
    <2>5. CASE state[s] # "RUNNING"
      BY <1>5, <2>3, <2>5 DEF Made
    <2>6. QED
      BY <2>4, <2>5
  <1>8. QED
    BY <1>2, <1>6, <1>7

LEMMA MadeExecCmd ==
    ASSUME BuiltInv, ExecCmd
    PROVE  OnlyCommandsRun' /\ MadeIsThere'
  <1>1. /\ Type[Top.step] = "CMD" /\ LoopEnded("wait")
        /\ state' = [state EXCEPT ![Top.step] = "RUNNING"]
        /\ UNCHANGED <<todo, fs>> /\ failed \subseteq failed'
    BY DEF ExecCmd, Blame
  <1>2. \A s \in Step \ {Top.step} : state'[s] = state[s]
    BY <1>1, ExecFacts DEF BuiltInv, IInv
  <1>3. MadeIsThere'
    BY <1>1, StartedWasMade, MadeKept DEF BuiltInv, ToVisit
  <1>4. OnlyCommandsRun'
    BY <1>1, <1>2 DEF BuiltInv, OnlyCommandsRun
  <1>5. QED
    BY <1>3, <1>4

\* A step that is over at once has made its file or failed.
LEMMA MadeExecFs ==
    ASSUME BuiltInv, ExecFs
    PROVE  OnlyCommandsRun' /\ MadeIsThere'
  <1> DEFINE t == Top.step
  <1>1. LoopEnded("wait") /\ Type[t] # "CMD" /\ UNCHANGED <<pid, proc, todo>>
    BY DEF ExecFs
  <1>2. PICK o \in Effect(t) :
            LET e == StepError(t, o.err)
            IN  /\ fs' = o.fs
                /\ state' = [state EXCEPT ![t] = IF e = "OK" THEN "DONE" ELSE "RUNNING"]
                /\ Blame(t, e)
    BY DEF ExecFs
  <1> DEFINE e == StepError(t, o.err)
             v == IF e = "OK" THEN "DONE" ELSE "RUNNING"
  <1>3. v \in {"RUNNING", "DONE"} /\ state' = [state EXCEPT ![t] = v]
    BY <1>2
  <1> HIDE DEF v
  <1>4. /\ t \in Step /\ TypeOK /\ state'[t] = v
        /\ \A s \in Step \ {t} : state'[s] = state[s]
    BY <1>1, <1>3, ExecFacts DEF BuiltInv, IInv, CallInv
  <1>5. /\ e = "OK" => \A p \in Products(t) : fs'[p] # "none"
        /\ \A p \in Path \ RemovedArgs : fs[p] # "none" =>
                \/ fs'[p] # "none"
                \/ Type[t] = "COPY" /\ p = Out[t] /\ e # "OK"
    BY <1>1, <1>2, <1>4, EffectMakes
  <1>6. failed \subseteq failed' /\ (e # "OK" => t \in failed')
    BY <1>2 DEF Blame
  <1> HIDE DEF e, t
  <1>7. ASSUME NEW s \in Step, Made(s)', ~ ToVisit(s)', NEW p \in Products(s) \cap Lasting
        PROVE  fs'[p] # "none"
    <2>1. s \notin failed /\ s \notin failed'
      BY <1>6, <1>7 DEF Made
    <2>2. CASE s = t
      BY <1>5, <1>6, <1>7, <2>1, <2>2
    <2>3. CASE s # t
      <3>1. Made(s) /\ ~ ToVisit(s)
        BY <1>1, <1>4, <1>7, <2>1, <2>3 DEF Made, ToVisit
      <3>2. fs[p] # "none"
        BY <1>7, <3>1 DEF BuiltInv, MadeIsThere
      <3>3. p \in Path \ RemovedArgs /\ p # NoPath
        BY <1>7 DEF Products, Lasting
      <3>4. ~ (Type[t] = "COPY" /\ p = Out[t])
        BY <1>4, <1>7, <2>3, <3>3, OutputAssumption
      <3>5. QED
        BY <1>5, <3>2, <3>3, <3>4
    <2>4. QED
      BY <2>2, <2>3
  <1>8. MadeIsThere'
    BY <1>7 DEF MadeIsThere, Products, Lasting, RemovedArgs
  <1>9. OnlyCommandsRun'
    <2> SUFFICES ASSUME NEW s \in Step, state'[s] = "RUNNING", s \notin failed'
                 PROVE  Type[s] = "CMD"
      BY DEF OnlyCommandsRun
    <2>1. s # t
      BY <1>4, <1>6 DEF v
    <2>2. QED
      BY <1>4, <1>6, <2>1 DEF BuiltInv, OnlyCommandsRun
  <1>10. QED
    BY <1>8, <1>9

\* A clean visits what is below the step it has visited.
LEMMA VisitKept ==
    ASSUME todo \in Seq(Step), todo # <<>>, NEW h \in Step, h = Head(todo),
           todo' = Dep[h] \o Tail(todo), NEW s \in Step \ {h}, ToVisit(s)
    PROVE  ToVisit(s)'
  <1> DEFINE n == Len(Dep[h])
             m == Len(todo)
  <1>1. /\ Dep[h] \in Seq(Step) /\ n \in Nat /\ m \in Nat \ {0} /\ h = todo[1]
        /\ Tail(todo) \in Seq(Step) /\ Len(Tail(todo)) = m - 1
        /\ \A i \in 1..(m - 1) : Tail(todo)[i] = todo[i + 1]
    BY DepsAreSteps, LenProperties, EmptySeq, HeadTailProperties
  <1>2. /\ Len(todo') = n + (m - 1)
        /\ \A i \in 1..n : todo'[i] = Dep[h][i]
        /\ \A i \in 1..(m - 1) : todo'[n + i] = todo[i + 1]
    BY <1>1, ConcatProperties
  <1> HIDE DEF n, m
  <1>3. PICK i \in 1..m : s \in Reach[todo[i]]
    BY DEF ToVisit, m
  <1>4. CASE i = 1
    <2>1. PICK d \in Deps(h) : s \in Reach[d]
      BY <1>1, <1>3, <1>4, ReachSplit
    <2>2. PICK j \in 1..n : d = Dep[h][j]
      BY DEF Deps, n
    <2>3. n + (m - 1) \in Nat /\ n <= n + (m - 1)
      BY <1>1
    <2>4. j \in 1..Len(todo')
      BY <1>1, <1>2, <2>3
    <2>5. todo'[j] = d
      BY <1>2, <2>2
    <2>6. QED
      BY <2>1, <2>4, <2>5 DEF ToVisit
  <1>5. CASE i # 1
    <2>1. i - 1 \in 1..(m - 1) /\ (i - 1) + 1 = i
      BY <1>1, <1>5
    <2>2. todo'[n + (i - 1)] = todo[i]
      BY <1>2, <2>1
    <2>3. n + (i - 1) \in 1..Len(todo')
      BY <1>1, <1>2, <2>1
    <2>4. QED
      BY <1>3, <2>2, <2>3 DEF ToVisit
  <1>6. QED
    BY <1>4, <1>5

\* What a clean removes was made by steps it has visited or will visit.
LEMMA MadeCleanVisit ==
    ASSUME BuiltInv, CleanVisit
    PROVE  OnlyCommandsRun' /\ MadeIsThere'
  <1>1. TypeOK
    BY DEF BuiltInv, IInv, CallInv
  <1>2. PICK h \in Step : h = Head(todo)
    BY <1>1, HeadTailProperties DEF CleanVisit, TypeOK
  <1>3. /\ todo # <<>> /\ todo \in Seq(Step) /\ todo' = Dep[h] \o Tail(todo)
        /\ fs' \in Removed(Out[h])
        /\ state' = [state EXCEPT ![h] = "NONE"] /\ failed' = failed \ {h}
        /\ UNCHANGED <<pid, proc>>
    BY <1>1, <1>2 DEF CleanVisit, VisitNext, CleanState, TypeOK
  <1>4. state'[h] = "NONE" /\ \A s \in Step \ {h} : state'[s] = state[s]
    BY <1>1, <1>3 DEF TypeOK
  <1>5. \A s \in Step \ {h} : ToVisit(s) => ToVisit(s)'
    BY <1>1, <1>2, <1>3, VisitKept
  <1>6. \A p \in Path \ {Out[h]} : fs'[p] = fs[p]
    <2>1. CASE Out[h] = NoPath
      BY <1>3, <2>1 DEF Removed
    <2>2. CASE Out[h] # NoPath
      <3> DEFINE w == Out[h]
      <3>1. w \in Path /\ fs \in F!FsType
        BY <1>1, <2>2, PathAssumption DEF TypeOK
      <3>2. PICK o \in F!aven_fs_rm(fs, w) : \E q \in F!aven_fs_rmdir(o.fs, w) : fs' = q.fs
        BY <1>3, <3>1, RemovedFacts
      <3>3. o.fs \in F!FsType
        BY <3>1, FsTyped
      <3> HIDE DEF w
      <3>4. \A p \in Path \ {w} : fs'[p] = fs[p]
        BY <3>1, <3>2, <3>3, OperationsTouch
      <3>5. QED
        BY <3>4 DEF w
    <2>3. QED
      BY <2>1, <2>2
  <1>7. ASSUME NEW s \in Step, Made(s)', ~ ToVisit(s)', NEW p \in Products(s) \cap Lasting
        PROVE  fs'[p] # "none"
    <2>1. s # h
      BY <1>4, <1>7 DEF Made
    <2>2. Made(s) /\ ~ ToVisit(s)
      BY <1>3, <1>4, <1>5, <1>7, <2>1 DEF Made
    <2>3. fs[p] # "none" /\ p \in Path /\ p # NoPath
      BY <1>7, <2>2 DEF BuiltInv, MadeIsThere, Products, Lasting
    <2>4. ASSUME p = Out[h]
          PROVE  FALSE
      <3>1. PICK o \in Step : Type[o] # "PATH" /\ Out[o] = p
        BY <1>7 DEF Lasting
      <3>2. Type[h] # "PATH"
        BY <2>3, <2>4, <3>1, OutputAssumption
      <3>3. s \in Reach[h]
        BY <1>7, <2>3, <2>4, <3>2, OutputAssumption
      <3>4. ToVisit(s)
        BY <1>2, <1>3, <3>3, EmptySeq, HeadTailProperties DEF ToVisit
      <3>5. QED
        BY <2>2, <3>4
    <2>5. QED
      BY <1>6, <2>3, <2>4
  <1>8. MadeIsThere'
    BY <1>7 DEF MadeIsThere, Products, Lasting, RemovedArgs
  <1>9. OnlyCommandsRun'
    BY <1>3, <1>4 DEF BuiltInv, OnlyCommandsRun
  <1>10. QED
    BY <1>8, <1>9

\* A command that exits with 0 has made all its files; none removes any.
LEMMA MadeCommandEnds ==
    ASSUME BuiltInv, NEW p \in Pid, CommandEnds(p)
    PROVE  OnlyCommandsRun' /\ MadeIsThere'
  <1>1. TypeOK /\ UNCHANGED prog /\ Running(p)
    BY DEF CommandEnds, ExitOk, ExitError, Killed, Fail, BuiltInv, IInv, CallInv
  <1>2. PICK W : fs' = Make(W)
    BY DEF CommandEnds, ExitOk, ExitError, Killed, Fail
  <1>3. \A q \in Path : fs[q] # "none" => fs'[q] # "none"
    BY <1>1, <1>2 DEF Make
  <1>4. ASSUME NEW s \in Step, Made(s)', NEW q \in Products(s), ~ Made(s)
        PROVE  fs'[q] # "none"
    <2>1. state[s] = "RUNNING" /\ s \notin failed /\ proc'[pid[s]].st = "ok"
      BY <1>1, <1>4 DEF Made, prog
    <2>2. Type[s] = "CMD" /\ pid[s] \in Pid /\ P!IsChild(proc, pid[s]) /\ proc[pid[s]].cmd = s
      BY <2>1 DEF BuiltInv, OnlyCommandsRun, IInv, OwnChild
    <2>3. proc[pid[s]].st # "ok"
      BY <1>4, <2>1 DEF Made
    <2>4. PICK how \in P!Ended : Leave(p, how) /\ (how = "ok" => ExitOk(p))
      BY DEF CommandEnds, ExitOk, ExitError, Killed, Fail, P!Ended
    <2>5. pid[s] = p
      BY <1>1, <2>1, <2>2, <2>3, <2>4 DEF Leave, TypeOK, P!ProcType
    <2>6. how = "ok"
      <3>1. proc[p].st # "orphan"
        BY <2>2, <2>5 DEF P!IsChild, P!Ended
      <3>2. proc'[p] = [proc[p] EXCEPT !.st = how]
        BY <1>1, <2>4, <3>1 DEF Leave, TypeOK, P!ProcType
      <3>3. proc[p] \in [st : {"free", "live", "orphan"} \cup P!Ended, cmd : Step \cup {NoStep}]
        BY <1>1 DEF TypeOK, P!ProcType
      <3>4. QED
        BY <2>1, <2>5, <3>2, <3>3
    <2>7. fs' = Make(Writes[s])
      BY <2>2, <2>4, <2>5, <2>6 DEF ExitOk
    <2>8. q \in Path /\ q \in Writes[s]
      BY <1>4, <2>2 DEF Products
    <2>9. QED
      BY <2>7, <2>8 DEF Make
  <1>5. MadeIsThere'
    <2> SUFFICES ASSUME NEW s \in Step, Made(s)', ~ ToVisit(s)',
                        NEW q \in Products(s) \cap Lasting
                 PROVE  fs'[q] # "none"
      BY DEF MadeIsThere, Products, Lasting, RemovedArgs
    <2>1. ~ ToVisit(s) /\ q \in Path
      BY <1>1 DEF ToVisit, prog, Products
    <2>2. CASE Made(s)
      BY <1>3, <2>1, <2>2 DEF BuiltInv, MadeIsThere
    <2>3. CASE ~ Made(s)
      BY <1>4, <2>3
    <2>4. QED
      BY <2>2, <2>3
  <1>6. OnlyCommandsRun'
    BY <1>1 DEF prog, BuiltInv, OnlyCommandsRun
  <1>7. QED
    BY <1>5, <1>6

LEMMA NextBuiltInv == BuiltInv /\ [Next]_vars => BuiltInv'
  <1> SUFFICES ASSUME BuiltInv, [Next]_vars PROVE OnlyCommandsRun' /\ MadeIsThere'
    BY NextIInv DEF BuiltInv
  <1>1. CASE Run
    BY <1>1, MadeQuiet, MadeWaitDep, MadeExecCmd, MadeExecFs DEF Run
  <1>2. CASE CleanVisit
    BY <1>2, MadeCleanVisit
  <1>3. CASE Restart \/ \E r \in Roots : CallRun(r) \/ CallClean(r) \/ CallReset(r)
    BY <1>3, MadeQuiet
  <1>4. CASE \E p \in Pid : CommandEnds(p)
    BY <1>4, MadeCommandEnds
  <1>5. CASE UNCHANGED vars
    BY <1>5 DEF vars, prog, BuiltInv, OnlyCommandsRun, MadeIsThere, Made, ToVisit,
       Products, Lasting, RemovedArgs
  <1>6. QED
    BY <1>1, <1>2, <1>3, <1>4, <1>5 DEF Next, Others

\* What a step made that has been seen to succeed is there until a step of the
\* graph or a clean removes it, whatever fails around it.
THEOREM BuiltInvariant == Spec => []BuiltInv
  <1>1. Init => BuiltInv
    BY InitIInv DEF Init, BuiltInv, OnlyCommandsRun, MadeIsThere, Made
  <1>2. QED
    BY <1>1, NextBuiltInv, PTL DEF Spec

\* A run that returns 0 leaves the outputs of all steps below its root.
THEOREM SuccessIsBuilt == Spec => []SuccessMeansBuilt
  <1>1. ASSUME BuiltInv, SuccessMeansDone
        PROVE  SuccessMeansBuilt
    <2> SUFFICES ASSUME Returned("OK"), NEW s \in Reach[root] \ {root},
                        Type[s] # "PATH", Out[s] \notin RemovedArgs \cup {NoPath}
                 PROVE  fs[Out[s]] # "none"
      BY DEF SuccessMeansBuilt
    <2>1. op = "run" /\ TypeOK
      BY <1>1 DEF Returned, BuiltInv, IInv, CallInv
    <2>2. root \in Step /\ todo = <<>>
      BY <2>1, GraphAssumption DEF TypeOK
    <2>3. s \in Step
      BY <2>2, ReachTransitive
    <2>4. Out[s] \in Lasting
      BY <2>3 DEF Lasting
    <2>5. PICK t \in Reach[s] : Out[s] \in Products(t)
      BY <2>3, OutputAssumption
    <2>6. t \in Step /\ t \in Reach[root]
      BY <2>2, <2>3, ReachTransitive
    <2>7. t # root
      BY <2>2, <2>3, ReachAcyclic
    <2>8. Made(t)
      BY <1>1, <2>6, <2>7 DEF SuccessMeansDone, Made
    <2>9. ~ ToVisit(t)
      BY <2>2 DEF ToVisit
    <2>10. QED
      BY <1>1, <2>4, <2>5, <2>6, <2>8, <2>9 DEF BuiltInv, MadeIsThere
  <1>2. BuiltInv /\ SuccessMeansDone => SuccessMeansBuilt
    BY <1>1
  <1>3. QED
    BY <1>2, BuiltInvariant, SuccessIsDone, PTL
-----------------------------------------------------------------------------
(* What is below a step, and what it needs *)

\* While no error has been returned, what is below a step whose dependencies
\* are done is done.
LEMMA BelowDone ==
    ASSUME IInv, op = "run", ret \in {"BUSY", "OK"}, root \in Step,
           NEW s \in Reach[root], \A d \in Deps(s) : state[d] = "DONE"
    PROVE  \A t \in Reach[s] \ {s} : state[t] = "DONE" /\ t \notin failed
  <1> DEFINE T == {s} \cup {t \in Reach[root] : state[t] = "DONE"}
  <1>1. s \in Step /\ Reach[root] \subseteq Step
    BY ReachClosed
  <1>2. ASSUME NEW t \in T
        PROVE  Deps(t) \subseteq T
    <2>1. t \in Reach[root] /\ Deps(t) \subseteq Reach[root]
      BY ReachClosed
    <2>2. \A d \in Deps(t) : state[d] = "DONE"
      BY <2>1 DEF IInv, SoFarSoGood
    <2>3. QED
      BY <2>1, <2>2
  <1>3. T \in SUBSET Step /\ s \in T
    BY <1>1
  <1>4. Reach[s] \subseteq T
    <2> HIDE DEF T
    <2>1. QED
      BY <1>1, <1>2, <1>3, ReachLeast
  <1>5. QED
    BY <1>4 DEF IInv, SoFarSoGood

\* The same for what is below a step that has been executed.
LEMMA BelowExecuted ==
    ASSUME IInv, op = "run", ret \in {"BUSY", "OK"}, root \in Step,
           NEW s \in Reach[root], state[s] # "NONE"
    PROVE  \A t \in Reach[s] \ {s} : state[t] = "DONE"
  <1>1. \A d \in Deps(s) : state[d] = "DONE"
    BY DEF IInv, SoFarSoGood
  <1>2. QED
    BY <1>1, BelowDone

\* And for what is below a step that is about to be executed.
LEMMA BelowTop ==
    ASSUME IInv, LoopEnded("wait")
    PROVE  /\ frames # <<>> /\ ret = "BUSY" /\ op = "run" /\ todo = <<>>
           /\ root \in Roots /\ root \in Step
           /\ Top.step \in Reach[root] /\ Top.step \in Step
           /\ state[Top.step] = "NONE"
           /\ \A t \in Reach[Top.step] \ {Top.step} : state[t] = "DONE" /\ t \notin failed
  <1>1. frames # <<>> /\ ret = "BUSY"
    BY DEF LoopEnded, Executing
  <1>2. op = "run" /\ root \in Step /\ Top.step \in Reach[root] /\ Top.step \in Step
    BY <1>1, ActiveFacts DEF IInv
  <1>3. todo = <<>> /\ root \in Roots
    BY <1>2 DEF IInv, CallInv, TypeOK
  <1>4. state[Top.step] = "NONE" /\ \A d \in Deps(Top.step) : state[d] = "DONE"
    BY DepsDone DEF IInv
  <1>5. QED
    BY <1>1, <1>2, <1>3, <1>4, BelowDone

\* The first call is the one on the root.
LEMMA OneFrame ==
    ASSUME CallInv, frames # <<>>, Front(frames) = <<>>
    PROVE  Top.step = root
  <1>1. frames \in Seq(Frame) /\ Sound(root, frames, state)
    BY ActiveFacts
  <1>2. Len(frames) \in Nat /\ Len(Front(frames)) = Len(frames) - 1
    <2>1. Len(frames) \in Nat
      BY <1>1, LenProperties
    <2>2. Len(Front(frames)) = Len(frames) - 1
      BY <1>1, FrontFacts
    <2>3. QED
      BY <2>1, <2>2
  <1>3. Len(frames) = 1
    BY <1>2
  <1>4. QED
    BY <1>1, <1>3 DEF Sound, IsPath, Top

\* What is a file or a directory for good is that whenever it is there.
LEMMA KindOfNeed ==
    ASSUME WellMade, TypeOK, KindsKept, NEW s \in Step, NEW p \in Needs(s), fs[p] # "none"
    PROVE  /\ p \in Path
           /\ p \in NeedsDir(s) => fs[p] = "dir"
           /\ p \in NeedsFile(s) => fs[p] = "file"
  <1>1. p \in Path
    BY DEF Needs, NeedsFile, NeedsDir
  <1>2. fs[p] \in {"file", "dir"}
    BY <1>1 DEF TypeOK, F!FsType, F!Kind
  <1>3. Supplied(s)
    BY DEF WellMade
  <1>4. ASSUME p \in NeedsDir(s)
        PROVE  fs[p] # "file"
    <2>1. IsDir(p)
      BY <1>3, <1>4 DEF Supplied
    <2>2. p \notin Source /\ \A t \in Makers(p) : Type[t] = "MKDIR"
      BY <1>1, <2>1 DEF WellMade, KindsAgree
    <2>3. QED
      BY <1>1, <2>2 DEF KindsKept
  <1>5. ASSUME p \in NeedsFile(s)
        PROVE  fs[p] # "dir"
    BY <1>1, <1>3, <1>5 DEF Supplied, KindsKept
  <1>6. QED
    BY <1>1, <1>2, <1>4, <1>5

\* What no directory step makes but a step does is no directory.
LEMMA NoDirMade ==
    ASSUME WellMade, KindsKept, NEW s \in Step, Type[s] # "MKDIR", NEW p \in Products(s)
    PROVE  fs[p] # "dir"
  <1>1. p \in Path
    BY DEF Products
  <1>2. s \in Makers(p)
    BY DEF Makers
  <1>3. QED
    BY <1>1, <1>2 DEF WellMade, KindsAgree, KindsKept

\* When a step is executed, what it needs is there.
LEMMA NeedsThere ==
    ASSUME WellMade, IInv, Calm, LoopEnded("wait"), NEW p \in Needs(Top.step)
    PROVE  fs[p] # "none"
  <1>1. /\ Top.step \in Step /\ state[Top.step] = "NONE" /\ todo = <<>>
        /\ \A t \in Reach[Top.step] \ {Top.step} : state[t] = "DONE" /\ t \notin failed
    BY BelowTop
  <1>2. Supplied(Top.step)
    BY <1>1 DEF WellMade
  <1>3. CASE p \in Source
    BY <1>1, <1>3 DEF Calm, SourcesThere
  <1>4. CASE p \notin Source
    <2>1. PICK t \in Makers(p) : t # Top.step /\ t \in Reach[Top.step]
      BY <1>2, <1>4 DEF Supplied
    <2>2. t \in Step /\ p \in Products(t)
      BY <2>1 DEF Makers
    <2>3. Made(t) /\ ~ ToVisit(t)
      BY <1>1, <2>1 DEF Made, ToVisit
    <2>4. QED
      BY <1>1, <2>2, <2>3 DEF Calm, Provided
  <1>5. QED
    BY <1>3, <1>4

\* What a step makes has a directory to be in.
LEMMA ParentNeeded ==
    ASSUME WellMade, TypeOK, KindsKept, NEW s \in Step,
           \A p \in Needs(s) : fs[p] # "none", NEW q \in Products(s)
    PROVE  F!ParentThere(fs, q)
  <1> SUFFICES ASSUME In[q] # NoPath PROVE fs[In[q]] = "dir"
    BY DEF F!ParentThere
  <1>1. In[q] \in Path
    BY PathAssumption DEF Products
  <1>2. In[q] \in NeedsDir(s)
    BY <1>1 DEF NeedsDir
  <1>3. In[q] \in Needs(s)
    BY <1>2 DEF Needs
  <1>4. QED
    BY <1>2, <1>3, KindOfNeed
-----------------------------------------------------------------------------
(* The operations succeed *)

\* With no fault every operation has one outcome, and succeeds on what it needs.
LEMMA OperationsSucceed ==
    ASSUME Fault = {}, NEW f \in F!FsType, NEW p \in Path
    PROVE  /\ f[p] = "file" => F!aven_fs_rm(f, p) = {F!Outcome(F!Put(f, p, "none"), "OK")}
           /\ f[p] = "dir" /\ F!IsEmpty(f, p) =>
                F!aven_fs_rmdir(f, p) = {F!Outcome(F!Put(f, p, "none"), "OK")}
           /\ F!ParentThere(f, p) =>
                /\ f[p] = "none" =>
                    F!aven_fs_mkdir(f, p) = {F!Outcome(F!Put(f, p, "dir"), "OK")}
                /\ f[p] # "none" => F!aven_fs_mkdir(f, p) = {F!Outcome(f, "EXIST")}
           /\ F!CanCreate(f, p) =>
                /\ F!aven_fs_trunc(f, p) = {F!Outcome(F!Put(f, p, "file"), "OK")}
                /\ \A i \in Path : f[i] = "file" /\ F!ParentThere(f, i) =>
                    F!aven_fs_copy(f, i, p) = {F!Outcome(F!Put(f, p, "file"), "OK")}
  <1>1. \A g, E : F!Refused(g, E) = {}
    BY DEF F!Refused
  <1>2. f[p] = "file" => F!aven_fs_rm(f, p) = {F!Outcome(F!Put(f, p, "none"), "OK")}
    BY <1>1 DEF F!aven_fs_rm
  <1>3. f[p] = "dir" /\ F!IsEmpty(f, p) =>
            F!aven_fs_rmdir(f, p) = {F!Outcome(F!Put(f, p, "none"), "OK")}
    BY <1>1 DEF F!aven_fs_rmdir
  <1>4. F!ParentThere(f, p) /\ f[p] = "none" =>
            F!aven_fs_mkdir(f, p) = {F!Outcome(F!Put(f, p, "dir"), "OK")}
    BY <1>1 DEF F!aven_fs_mkdir
  <1>5. F!ParentThere(f, p) /\ f[p] # "none" =>
            F!aven_fs_mkdir(f, p) = {F!Outcome(f, "EXIST")}
    BY <1>1 DEF F!aven_fs_mkdir
  <1>6. F!CanCreate(f, p) =>
            F!aven_fs_trunc(f, p) = {F!Outcome(F!Put(f, p, "file"), "OK")}
    BY <1>1 DEF F!aven_fs_trunc
  <1>7. ASSUME F!CanCreate(f, p), NEW i \in Path, f[i] = "file", F!ParentThere(f, i)
        PROVE  F!aven_fs_copy(f, i, p) = {F!Outcome(F!Put(f, p, "file"), "OK")}
    <2>1. F!CopyPosix(f, i, p) = {F!Outcome(F!Put(f, p, "file"), "OK")}
      BY <1>1, <1>7 DEF F!CopyPosix
    <2>2. F!CopyWindows(f, i, p) = {F!Outcome(F!Put(f, p, "file"), "OK")}
      BY <1>1, <1>7 DEF F!CopyWindows, F!CanCreate
    <2>3. QED
      BY <2>1, <2>2 DEF F!aven_fs_copy
  <1>8. QED
    BY <1>2, <1>3, <1>4, <1>5, <1>6, <1>7

\* Nothing is in a directory that a step removes.
LEMMA EmptyNeeded ==
    ASSUME WellMade, TypeOK, KindsKept, NEW s \in Step, Type[s] = "RMDIR"
    PROVE  F!IsEmpty(fs, Arg[s])
  <1> SUFFICES ASSUME NEW q \in Path, In[q] = Arg[s] PROVE fs[q] = "none"
    BY DEF F!IsEmpty
  <1>1. q \notin Source /\ Makers(q) = {}
    BY DEF WellMade, KindsAgree
  <1>2. ~ IsDir(q)
    BY <1>1 DEF IsDir, Makers, Products
  <1>3. fs[q] \in {"none", "file", "dir"}
    BY DEF TypeOK, F!FsType, F!Kind
  <1>4. QED
    BY <1>1, <1>2, <1>3 DEF KindsKept

\* What a step that starts no command does when nothing fails: it succeeds,
\* leaves the files as they are, removes what it needs, or makes its product.
Removes(s, g) == \E p \in Path : Type[s] \in {"RM", "RMDIR"} /\ p = Arg[s] /\ g = F!Put(fs, p, "none")
Makes(s, g) == \E p \in Products(s) : \E k \in {"file", "dir"} :
    /\ (k = "dir") <=> (Type[s] = "MKDIR")
    /\ p = Out[s] /\ g = F!Put(fs, p, k)

LEMMA EffectCalm ==
    ASSUME Fault = {}, WellMade, IInv, FilesFormATree, Calm,
           LoopEnded("wait"), NEW s, s = Top.step, Type[s] # "CMD", NEW o \in Effect(s)
    PROVE  /\ StepError(s, o.err) = "OK"
           /\ o.fs = fs \/ Removes(s, o.fs) \/ Makes(s, o.fs)
  <1>1. /\ TypeOK /\ KindsKept /\ fs \in F!FsType
        /\ s \in Step /\ Type[s] \in StepType /\ Out[s] \in Path \cup {NoPath}
    BY BelowTop, GraphAssumption, PathAssumption DEF IInv, CallInv, TypeOK, Calm
  <1>2. \A p \in Needs(s) : fs[p] # "none"
    BY NeedsThere
  <1>3. \A g, e : F!Outcome(g, e).fs = g /\ F!Outcome(g, e).err = e
    BY DEF F!Outcome
  <1>4. CASE Type[s] \in {"ROOT", "PATH"}
    BY <1>3, <1>4 DEF Effect, StepError
  <1>5. CASE Type[s] = "RM"
    <2>1. Arg[s] \in Path /\ Arg[s] \in NeedsFile(s)
      BY <1>1, <1>5, PathAssumption DEF NeedsFile
    <2>2. fs[Arg[s]] = "file"
      BY <1>1, <1>2, <2>1, KindOfNeed DEF Needs
    <2>3. o = F!Outcome(F!Put(fs, Arg[s], "none"), "OK")
      BY <1>1, <1>5, <2>1, <2>2, OperationsSucceed DEF Effect
    <2>4. QED
      BY <1>3, <1>5, <2>1, <2>3 DEF StepError, Removes
  <1>6. CASE Type[s] = "RMDIR"
    <2>1. Arg[s] \in Path /\ Arg[s] \in NeedsDir(s)
      BY <1>1, <1>6, PathAssumption DEF NeedsDir
    <2>2. fs[Arg[s]] = "dir"
      BY <1>1, <1>2, <2>1, KindOfNeed DEF Needs
    <2>3. F!IsEmpty(fs, Arg[s])
      BY <1>1, <1>6, EmptyNeeded
    <2>4. o = F!Outcome(F!Put(fs, Arg[s], "none"), "OK")
      BY <1>1, <1>6, <2>1, <2>2, <2>3, OperationsSucceed DEF Effect
    <2>5. QED
      BY <1>3, <1>6, <2>1, <2>4 DEF StepError, Removes
  <1>7. CASE Type[s] \in {"MKDIR", "TRUNC", "COPY"}
    <2>1. Out[s] \in Path /\ Out[s] # NoPath /\ Out[s] \in Products(s)
      BY <1>1, <1>7, PathAssumption DEF WellMade, Products
    <2>2. F!ParentThere(fs, Out[s])
      BY <1>1, <1>2, <2>1, ParentNeeded
    <2>3. Type[s] # "MKDIR" => F!CanCreate(fs, Out[s])
      BY <1>1, <2>1, <2>2, NoDirMade DEF F!CanCreate
    <2>4. CASE Type[s] = "MKDIR"
      <3>1. o \in F!aven_fs_mkdir(fs, Out[s])
        BY <2>1, <2>4 DEF Effect
      <3>2. \/ o = F!Outcome(F!Put(fs, Out[s], "dir"), "OK")
            \/ o = F!Outcome(fs, "EXIST")
        BY <1>1, <2>1, <2>2, <3>1, OperationsSucceed
      <3>3. QED
        BY <1>3, <2>1, <2>4, <3>2 DEF StepError, Makes
    <2>5. CASE Type[s] = "TRUNC"
      <3>1. o \in F!aven_fs_trunc(fs, Out[s])
        BY <2>1, <2>5 DEF Effect
      <3>2. o = F!Outcome(F!Put(fs, Out[s], "file"), "OK")
        BY <1>1, <2>1, <2>3, <2>5, <3>1, OperationsSucceed
      <3>3. QED
        BY <1>3, <2>1, <2>5, <3>2 DEF StepError, Makes
    <2>6. CASE Type[s] = "COPY"
      <3>1. Arg[s] \in Path /\ Arg[s] \in NeedsFile(s)
        BY <1>1, <2>6, PathAssumption DEF NeedsFile
      <3>2. fs[Arg[s]] = "file" /\ F!ParentThere(fs, Arg[s])
        BY <1>1, <1>2, <3>1, KindOfNeed DEF Needs, FilesFormATree, F!IsTree
      <3>3. o \in F!aven_fs_copy(fs, Arg[s], Out[s])
        BY <2>1, <2>6 DEF Effect
      <3>4. o = F!Outcome(F!Put(fs, Out[s], "file"), "OK")
        BY <1>1, <2>1, <2>3, <2>6, <3>1, <3>2, <3>3, OperationsSucceed
      <3>5. QED
        BY <1>3, <2>1, <2>6, <3>4 DEF StepError, Makes
    <2>7. QED
      BY <1>7, <2>4, <2>5, <2>6
  <1>8. QED
    BY <1>1, <1>4, <1>5, <1>6, <1>7 DEF StepType

\* With no fault, rm and rmdir remove what is at a path unless it is a
\* directory with something in it, and touch nothing else.
LEMMA RemovedCalm ==
    ASSUME Fault = {}, TypeOK, NEW p \in Path, NEW g \in Removed(p)
    PROVE  \/ g = F!Put(fs, p, "none")
           \/ g = fs /\ (fs[p] = "none" \/ ~ F!IsEmpty(fs, p))
  <1>1. /\ \A h, E : F!Refused(h, E) = {}
        /\ \A h, e : F!Outcome(h, e).fs = h
    BY DEF F!Refused, F!Outcome
  <1>2. PICK o \in F!aven_fs_rm(fs, p) : \E q \in F!aven_fs_rmdir(o.fs, p) : g = q.fs
    BY RemovedFacts
  <1>3. fs \in F!FsType /\ fs[p] \in {"none", "file", "dir"}
    BY DEF TypeOK, F!FsType, F!Kind
  <1>4. CASE fs[p] = "file"
    <2>1. o.fs = F!Put(fs, p, "none")
      BY <1>1, <1>2, <1>4 DEF F!aven_fs_rm
    <2>2. o.fs[p] = "none"
      BY <1>3, <2>1 DEF F!Put, F!FsType
    <2>3. g = o.fs
      BY <1>1, <1>2, <2>2 DEF F!aven_fs_rmdir
    <2>4. QED
      BY <2>1, <2>3
  <1>5. CASE fs[p] # "file"
    <2>1. o.fs = fs
      BY <1>1, <1>2, <1>5 DEF F!aven_fs_rm
    <2>2. QED
      BY <1>1, <1>2, <1>3, <1>5, <2>1 DEF F!aven_fs_rmdir
  <1>6. QED
    BY <1>4, <1>5
-----------------------------------------------------------------------------
(* No command outlives a call *)

\* The calls and steps of the engine that leave the steps, the processes and
\* the files alone.
LEMMA CalmStill ==
    ASSUME Calm, UNCHANGED <<state, pid, failed, proc, fs, todo>>, ret' \notin RunError,
           op' = "clean" => op = "clean" /\ root' = root
    PROVE  /\ NoError' /\ KindsKept' /\ OwnProcesses'
           /\ Provided' /\ SourcesThere' /\ InUse' /\ Cleaned'
  <1>1. NoError' /\ OwnProcesses'
    BY DEF Calm, NoError, OwnProcesses
  <1>2. KindsKept' /\ SourcesThere'
    BY DEF Calm, KindsKept, SourcesThere, IsDir, Makers, Products, Needs, NeedsFile, NeedsDir
  <1>3. Provided' /\ InUse'
    BY DEF Calm, Provided, InUse, Made, ToVisit, Products, Needs, NeedsFile, NeedsDir
  <1>4. Cleaned'
    BY DEF Calm, Cleaned, ToVisit, F!IsEmpty
  <1>5. QED
    BY <1>1, <1>2, <1>3, <1>4

\* Nothing runs when the client may make a call, nor while a clean is under way.
LEMMA NothingRuns ==
    ASSUME TypeOK, Calm, frames = <<>>
    PROVE  /\ \A s \in Step : state[s] # "RUNNING"
           /\ \A p \in Pid : proc[p].st = "free"
  BY DEF Calm, RunningBelow, OwnProcesses

LEMMA CleaningIsQuiet ==
    ASSUME TypeOK, op = "clean"
    PROVE  frames = <<>> /\ root \in Step
  BY GraphAssumption DEF TypeOK

\* When the root has been executed, nothing runs.
LEMMA RootIsLast ==
    ASSUME WellMade, BuiltInv, Calm, frames # <<>>, Front(frames) = <<>>,
           ret = "BUSY", state[root] # "NONE", NEW s \in Step
    PROVE  state[s] # "RUNNING"
  <1> SUFFICES ASSUME state[s] = "RUNNING" PROVE FALSE
    OBVIOUS
  <1>1. op = "run" /\ root \in Roots /\ root \in Step
    BY ActiveFacts DEF BuiltInv, IInv, CallInv, TypeOK
  <1>2. s \in Reach[root] /\ root \in Reach[root]
    BY <1>1, ReachClosed DEF Calm, RunningBelow
  <1>3. s = root
    BY <1>1, <1>2, BelowExecuted DEF BuiltInv
  <1>4. Type[s] = "CMD"
    BY DEF BuiltInv, OnlyCommandsRun, Calm, NoError
  <1>5. QED
    BY <1>1, <1>3, <1>4 DEF WellMade

LEMMA CalmQuiet ==
    ASSUME WellMade, BuiltInv, Calm,
           \/ EarlyReturn \/ Enter \/ RunDep \/ Resume \/ PropagateError
           \/ BeginWait \/ SkipWait
    PROVE  Calm'
  <1>1. UNCHANGED <<state, pid, failed, proc, fs, todo, op, root>> /\ TypeOK /\ TypeOK'
    <2>1. TypeOK /\ [RetryNext]_vars
      BY DEF RetryNext, Others, Run, BuiltInv, IInv, CallInv
    <2>2. QED
      BY <2>1, NextTypeOK DEF EarlyReturn, Enter, RunDep, Resume, PropagateError,
         BeginWait, SkipWait
  <1>2. ret' = "BUSY" \/ EarlyReturn
    BY DEF Calm, NoError, Enter, RunDep, Resume, PropagateError, BeginWait, SkipWait,
       LoopEnded, InLoop, Executing
  <1>3. ret' \notin RunError
    BY <1>2 DEF EarlyReturn, Return, RunError
  <1>4. RunningBelow'
    <2>1. CASE frames' # <<>>
      BY <1>1, <2>1 DEF Calm, RunningBelow
    <2>2. CASE frames' = <<>>
      <3>1. EarlyReturn
        BY <1>1, <1>2, <2>2 DEF TypeOK
      <3>2. /\ frames # <<>> /\ ret = "BUSY" /\ Front(frames) = <<>>
            /\ state[Top.step] # "NONE"
        BY <2>2, <3>1 DEF EarlyReturn, Executing, ToRun, Return
      <3>3. \A s \in Step : state[s] # "RUNNING"
        BY <3>2, OneFrame, RootIsLast DEF BuiltInv, IInv
      <3>4. QED
        BY <1>1, <3>3 DEF RunningBelow
    <2>3. QED
      BY <2>1, <2>2
  <1>5. QED
    BY <1>1, <1>3, <1>4, CalmStill DEF Calm

\* A client may call the library when nothing runs.
LEMMA CalmCallRun ==
    ASSUME BuiltInv, Calm, NEW r \in Roots, CallRun(r)
    PROVE  Calm'
  <1>1. /\ UNCHANGED <<state, pid, failed, proc, fs, todo>> /\ op' = "run" /\ ret' = "BUSY"
        /\ \A s \in Step : state[s] # "RUNNING"
    BY NothingRuns DEF CallRun, Idle, BuiltInv, IInv, CallInv
  <1>2. RunningBelow'
    BY <1>1 DEF RunningBelow
  <1>3. QED
    BY <1>1, <1>2, CalmStill DEF Calm, RunError

LEMMA CalmCallClean ==
    ASSUME BuiltInv, Calm, NEW r \in Roots, CallClean(r)
    PROVE  Calm'
  <1>1. /\ UNCHANGED <<state, pid, failed, proc, fs, ret, frames>>
        /\ frames = <<>> /\ todo = <<>> /\ root' = r /\ todo' = <<r>>
        /\ \A s \in Step : state[s] # "RUNNING"
    BY NothingRuns DEF CallClean, Idle, BuiltInv, IInv, CallInv
  <1>2. NoError' /\ OwnProcesses' /\ RunningBelow'
    BY <1>1 DEF Calm, NoError, OwnProcesses, RunningBelow
  <1>3. KindsKept' /\ SourcesThere' /\ InUse'
    BY <1>1 DEF Calm, KindsKept, SourcesThere, InUse, IsDir, Makers, Products, Needs,
       NeedsFile, NeedsDir
  <1>4. Provided'
    <2>1. \A t \in Step : Made(t)' => Made(t) /\ ~ ToVisit(t)
      BY <1>1 DEF Made, ToVisit
    <2>2. QED
      BY <1>1, <2>1 DEF Calm, Provided, Products, Needs, NeedsFile, NeedsDir
  <1>5. Cleaned'
    BY <1>1 DEF Cleaned, ToVisit
  <1>6. QED
    BY <1>2, <1>3, <1>4, <1>5 DEF Calm

\* What a reset forgets to have made, it forgets to have used.
LEMMA CalmCallReset ==
    ASSUME WellMade, BuiltInv, Calm, NEW r \in Roots, CallReset(r)
    PROVE  Calm'
  <1>1. /\ UNCHANGED <<pid, proc, fs, ret, frames, todo>> /\ op' = "reset"
        /\ failed' = failed \ Reach[r] /\ failed = {}
        /\ frames = <<>> /\ r \in Step
        /\ \A s \in Step : state'[s] = IF s \in Reach[r] THEN "NONE" ELSE state[s]
        /\ \A s \in Step : state[s] # "RUNNING"
        /\ \A p \in Pid : proc[p].st = "free"
    BY NothingRuns, GraphAssumption DEF CallReset, ResetState, Idle, BuiltInv, IInv, CallInv,
       Calm, NoError
  <1>2. NoError' /\ OwnProcesses' /\ RunningBelow' /\ Cleaned'
    BY <1>1 DEF Calm, NoError, OwnProcesses, RunningBelow, Cleaned
  <1>3. KindsKept' /\ SourcesThere' /\ InUse'
    BY <1>1 DEF Calm, KindsKept, SourcesThere, InUse, IsDir, Makers, Products, Needs,
       NeedsFile, NeedsDir
  <1>4. ASSUME NEW t \in Step, Made(t)', ~ ToVisit(t)', NEW p \in Products(t),
               NEW s \in Step, p \in Needs(s), state'[s] = "NONE"
        PROVE  fs'[p] # "none"
    <2>1. t \notin Reach[r] /\ Made(t) /\ ~ ToVisit(t)
      BY <1>1, <1>4 DEF Made, ToVisit
    <2>2. t \in Reach[s]
      BY <1>4 DEF WellMade, Supplied, Makers
    <2>3. s \notin Reach[r]
      BY <1>1, <2>1, <2>2, ReachTransitive
    <2>4. QED
      BY <1>1, <1>4, <2>1, <2>3 DEF Calm, Provided
  <1>5. Provided'
    BY <1>4 DEF Provided, Products, Needs, NeedsFile, NeedsDir
  <1>6. QED
    BY <1>2, <1>3, <1>5 DEF Calm

LEMMA CalmRestart ==
    ASSUME Fault = {}, BuiltInv, Calm, Restart
    PROVE  Calm'
  <1>1. /\ UNCHANGED fs /\ op' = "none" /\ ret' = "OK" /\ failed' = {}
        /\ frames = <<>>
        /\ \A s \in Step : state'[s] = "NONE"
        /\ proc' = [p \in Pid |->
                    IF proc[p].st = "live" THEN [proc[p] EXCEPT !.st = "orphan"]
                    ELSE IF proc[p].st = "orphan" THEN proc[p] ELSE P!Free]
    BY DEF Restart, Idle
  <1>2. \A p \in Pid : proc'[p].st = "free"
    BY <1>1, NothingRuns DEF P!Free, BuiltInv, IInv, CallInv
  <1>3. NoError' /\ OwnProcesses' /\ RunningBelow' /\ Cleaned'
    BY <1>1, <1>2 DEF NoError, RunError, OwnProcesses, RunningBelow, Cleaned
  <1>4. KindsKept' /\ SourcesThere'
    BY <1>1 DEF Calm, KindsKept, SourcesThere, IsDir, Makers, Products, Needs,
       NeedsFile, NeedsDir
  <1>5. Provided' /\ InUse'
    BY <1>1 DEF Provided, InUse, Made
  <1>6. QED
    BY <1>3, <1>4, <1>5 DEF Calm
-----------------------------------------------------------------------------
(* The steps that execute, clean and end *)

\* A wait finds that the command has exited with 0.
LEMMA CalmWaitDep ==
    ASSUME Fault = {}, BuiltInv, BuiltInv', Calm, WaitDep
    PROVE  Calm'
  <1> DEFINE c == Current
             q == pid[Current]
  <1>1. /\ InLoop("wait") /\ c \in Step /\ state[c] = "RUNNING" /\ state'[c] = "DONE"
        /\ \A s \in Step \ {c} : state'[s] = state[s]
        /\ UNCHANGED <<pid, op, root, todo, fs>>
        /\ frames # <<>> /\ ret = "BUSY" /\ op = "run"
    BY WaitDepFacts, ActiveFacts DEF BuiltInv, IInv, WaitDep
  <1>2. /\ q \in Pid /\ P!IsChild(proc, q) /\ proc[q].cmd = c
        /\ P!Target(proc, q) = {q}
    BY <1>1, WaitsOwn DEF BuiltInv
  <1>3. proc[q].st \in {"live", "ok"}
    BY <1>2 DEF P!IsChild, P!Ended, Calm, OwnProcesses
  <1>4. PICK o \in P!aven_proc_wait(proc, q) :
            proc' = o.proc /\ Waited(o.err) /\ Blame(c, o.err)
    BY DEF WaitDep
  <1>5. o.proc = [proc EXCEPT ![q] = P!Free] /\ o.err = "OK"
    BY <1>2, <1>3, <1>4 DEF P!aven_proc_wait, P!Status, P!Ended
  <1>6. ret' = "BUSY" /\ failed' = failed /\ frames' # <<>>
    BY <1>1, <1>4, <1>5 DEF Waited, Blame, BuiltInv, IInv, CallInv, TypeOK
  <1>7. proc' = [proc EXCEPT ![q] = P!Free] /\ proc \in P!ProcType
    BY <1>4, <1>5 DEF BuiltInv, IInv, CallInv, TypeOK
  <1> HIDE DEF q, c
  <1>8. proc'[q] = P!Free /\ \A p \in Pid \ {q} : proc'[p] = proc[p]
    BY <1>2, <1>7 DEF P!ProcType
  <1>9. pid[c] = q
    BY DEF q, c
  <1>10. NoError' /\ RunningBelow'
    BY <1>1, <1>6 DEF Calm, NoError, RunError, RunningBelow
  <1>11. OwnProcesses'
    BY <1>1, <1>8, <1>9 DEF Calm, OwnProcesses, P!Free
  <1>12. KindsKept' /\ SourcesThere'
    BY <1>1 DEF Calm, KindsKept, SourcesThere, IsDir, Makers, Products, Needs,
       NeedsFile, NeedsDir
  <1>13. Provided'
    <2>1. \A t \in Step : Made(t)' => Made(t)
      BY WaitedWasMade
    <2>2. QED
      BY <1>1, <2>1 DEF Calm, Provided, ToVisit, Products, Needs, NeedsFile, NeedsDir
  <1>14. InUse'
    <2>1. ASSUME NEW s \in Step, state'[s] = "RUNNING", proc'[pid[s]].st = "live"
          PROVE  state[s] = "RUNNING" /\ proc[pid[s]].st = "live"
      <3>1. s # c /\ state[s] = "RUNNING"
        BY <1>1, <2>1
      <3>2. pid[s] \in Pid
        BY <3>1 DEF BuiltInv, IInv, OwnChild, Calm, NoError
      <3>3. QED
        BY <1>8, <2>1, <3>1, <3>2 DEF P!Free
    <2>2. QED
      BY <1>1, <2>1 DEF Calm, InUse, Needs, NeedsFile, NeedsDir, Products
  <1>15. Cleaned'
    BY <1>1 DEF Cleaned
  <1>16. QED
    BY <1>10, <1>11, <1>12, <1>13, <1>14, <1>15 DEF Calm

\* When a command is about to be started, a process id is free for it.
LEMMA PidFree ==
    ASSUME WellMade, BuiltInv, Calm, LoopEnded("wait"), Type[Top.step] = "CMD"
    PROVE  \E p \in Pid : proc[p].st = "free"
  <1> SUFFICES ASSUME \A p \in Pid : proc[p].st # "free" PROVE FALSE
    OBVIOUS
  <1> DEFINE t == Top.step
             Cmds == {s \in Step : Type[s] = "CMD"}
             f == [p \in Pid |-> proc[p].cmd]
  <1>1. /\ t \in Cmds /\ state[t] = "NONE" /\ op = "run" /\ ret = "BUSY" /\ root \in Step
        /\ \A s \in Reach[t] \ {t} : state[s] = "DONE"
    BY BelowTop DEF BuiltInv
  <1>2. \A p \in Pid : /\ f[p] \in Step /\ state[f[p]] = "RUNNING" /\ pid[f[p]] = p
                       /\ f[p] \in Reach[root] /\ Type[f[p]] = "CMD"
    BY DEF Calm, OwnProcesses, RunningBelow, NoError, BuiltInv, OnlyCommandsRun
  <1>3. \A p \in Pid : \A s \in Reach[f[p]] \ {f[p]} : state[s] = "DONE"
    BY <1>1, <1>2, BelowExecuted DEF BuiltInv
  <1>4. f \in [Pid -> Cmds]
    BY <1>2
  <1> HIDE DEF t, f
  <1>5. \/ \E p \in Pid : f[p] \in Reach[t] \/ t \in Reach[f[p]]
        \/ \E p, q \in Pid : p # q /\ f[p] \in Reach[f[q]]
    BY <1>1, <1>4 DEF WellMade, EnoughPids
  <1>6. QED
    BY <1>1, <1>2, <1>3, <1>5

LEMMA CalmExecCmd ==
    ASSUME Fault = {}, WellMade, BuiltInv, Calm, ExecCmd
    PROVE  Calm'
  <1> DEFINE t == Top.step
  <1>1. /\ LoopEnded("wait") /\ Type[t] = "CMD"
        /\ state' = [state EXCEPT ![t] = "RUNNING"]
        /\ UNCHANGED <<op, root, todo, fs>>
    BY DEF ExecCmd
  <1>2. /\ frames # <<>> /\ op = "run" /\ root \in Roots /\ root \in Step
        /\ t \in Step /\ t \in Reach[root] /\ state[t] = "NONE" /\ proc \in P!ProcType
        /\ pid \in [Step -> Pid \cup {NoPid}] /\ state \in [Step -> StepState]
    BY <1>1, BelowTop DEF BuiltInv, IInv, CallInv, TypeOK
  <1>3. state'[t] = "RUNNING" /\ \A s \in Step \ {t} : state'[s] = state[s]
    BY <1>1, <1>2
  <1>4. PICK o \in P!aven_proc_cmd(proc, t) :
            /\ proc' = o.proc
            /\ pid' = IF o.err = "OK" THEN [pid EXCEPT ![t] = o.pid] ELSE pid
            /\ Return(CmdError(o.err)) /\ Blame(t, o.err)
    BY DEF ExecCmd
  <1>5. {p \in Pid : proc[p].st = "free"} # {}
    BY <1>1, PidFree
  <1>6. PICK p \in Pid : /\ proc[p].st = "free" /\ o.err = "OK" /\ o.pid = p
                         /\ o.proc = [proc EXCEPT ![p] = [st |-> "live", cmd |-> t]]
    BY SMTT(30), <1>4, <1>5 DEF P!aven_proc_cmd
  <1>7. /\ proc' = [proc EXCEPT ![p] = [st |-> "live", cmd |-> t]]
        /\ pid' = [pid EXCEPT ![t] = p]
        /\ frames' = Front(frames) /\ ret' = "OK" /\ failed' = failed
    BY <1>4, <1>6 DEF Return, CmdError, Blame
  <1> HIDE DEF t
  <1>8. /\ proc'[p].st = "live" /\ proc'[p].cmd = t
        /\ \A q \in Pid \ {p} : proc'[q] = proc[q]
        /\ pid'[t] = p /\ \A s \in Step \ {t} : pid'[s] = pid[s]
    BY <1>2, <1>7 DEF P!ProcType
  <1>9. NoError'
    BY <1>7 DEF Calm, NoError, RunError
  <1>10. OwnProcesses'
    BY <1>2, <1>3, <1>8 DEF Calm, OwnProcesses
  <1>11. RunningBelow'
    <2>1. frames' # <<>>
      BY <1>1, <1>2, <1>7, OneFrame DEF WellMade, BuiltInv, IInv, t
    <2>2. QED
      BY <1>1, <1>2, <1>3, <2>1 DEF Calm, RunningBelow
  <1>12. KindsKept' /\ SourcesThere'
    BY <1>1 DEF Calm, KindsKept, SourcesThere, IsDir, Makers, Products, Needs,
       NeedsFile, NeedsDir
  <1>13. Provided'
    <2>1. \A s \in Step : Made(s)' => Made(s)
      BY StartedWasMade
    <2>2. \A s \in Step : state'[s] = "NONE" => state[s] = "NONE"
      BY <1>2, <1>3
    <2>3. QED
      BY <1>1, <2>1, <2>2 DEF Calm, Provided, ToVisit, Products, Needs, NeedsFile, NeedsDir
  <1>14. InUse'
    <2>1. \A q \in Needs(t) : fs[q] # "none"
      BY <1>1, NeedsThere DEF t, BuiltInv
    <2>2. ASSUME NEW s \in Step, s # t, state'[s] = "RUNNING", proc'[pid'[s]].st = "live"
          PROVE  state[s] = "RUNNING" /\ proc[pid[s]].st = "live"
      <3>1. state[s] = "RUNNING" /\ pid'[s] = pid[s]
        BY <1>3, <1>8, <2>2
      <3>2. pid[s] \in Pid /\ P!IsChild(proc, pid[s])
        BY <3>1 DEF BuiltInv, IInv, OwnChild, Calm, NoError
      <3>3. pid[s] # p
        BY <1>6, <3>2 DEF P!IsChild, P!Ended
      <3>4. QED
        BY <1>8, <2>2, <3>1, <3>2, <3>3
    <2>3. QED
      BY <1>1, <2>1, <2>2 DEF Calm, InUse, Needs, NeedsFile, NeedsDir, Products
  <1>15. Cleaned'
    BY <1>1, <1>2 DEF Cleaned
  <1>16. QED
    BY <1>9, <1>10, <1>11, <1>12, <1>13, <1>14, <1>15 DEF Calm
\* A step that is over at once succeeds, and takes away only what is no longer
\* used.
LEMMA CalmExecFs ==
    ASSUME Fault = {}, WellMade, BuiltInv, FilesFormATree, Calm, ExecFs
    PROVE  Calm'
  <1> DEFINE t == Top.step
  <1>1. LoopEnded("wait") /\ Type[t] # "CMD" /\ UNCHANGED <<pid, op, root, todo, proc>>
    BY DEF ExecFs
  <1>2. PICK o \in Effect(t) :
            LET e == StepError(t, o.err)
            IN  /\ fs' = o.fs
                /\ state' = [state EXCEPT ![t] = IF e = "OK" THEN "DONE" ELSE "RUNNING"]
                /\ Return(e) /\ Blame(t, e)
    BY DEF ExecFs
  <1>3. /\ StepError(t, o.err) = "OK"
        /\ fs' = fs \/ Removes(t, fs') \/ Makes(t, fs')
    BY <1>1, <1>2, EffectCalm DEF BuiltInv
  <1>4. /\ frames # <<>> /\ op = "run" /\ ret = "BUSY" /\ root \in Step /\ todo = <<>>
        /\ t \in Step /\ state[t] = "NONE"
        /\ \A s \in Reach[t] \ {t} : state[s] = "DONE" /\ s \notin failed
    BY <1>1, BelowTop DEF BuiltInv
  <1>5. /\ state' = [state EXCEPT ![t] = "DONE"] /\ failed' = failed
        /\ frames' = Front(frames) /\ ret' = "OK"
        /\ fs \in F!FsType /\ state \in [Step -> StepState]
    BY <1>2, <1>3 DEF Return, Blame, BuiltInv, IInv, CallInv, TypeOK
  <1>6. state'[t] = "DONE" /\ \A s \in Step \ {t} : state'[s] = state[s]
    BY <1>4, <1>5
  <1>7. \A p \in Products(t) : fs'[p] # "none"
    BY <1>1, <1>2, <1>3, <1>4, EffectMakes DEF BuiltInv, IInv, CallInv
  <1>8. ASSUME NEW p \in Path, fs[p] # "none", fs'[p] = "none"
        PROVE  Type[t] \in {"RM", "RMDIR"} /\ Arg[t] = p
    BY <1>3, <1>5, <1>8 DEF Removes, Makes, F!Put, F!FsType
  <1>9. ASSUME NEW p \in Path, fs'[p] # fs[p], fs'[p] # "none"
        PROVE  /\ p \in Products(t) /\ p = Out[t] /\ fs'[p] \in {"file", "dir"}
               /\ (fs'[p] = "dir") <=> (Type[t] = "MKDIR")
    BY <1>3, <1>5, <1>9 DEF Removes, Makes, F!Put, F!FsType
  <1>10. ASSUME NEW p \in Path, NEW s \in Step, p \in Needs(s), fs[p] # "none", fs'[p] = "none"
         PROVE  /\ p \notin Source /\ state'[s] = "DONE"
    <2>1. s \in Reach[t] /\ p \notin Source
      BY <1>4, <1>8, <1>10 DEF WellMade, Supplied
    <2>2. QED
      BY <1>4, <1>6, <2>1
  <1> HIDE DEF t
  <1>11. NoError'
    BY <1>5 DEF Calm, NoError, RunError
  <1>12. KindsKept'
    <2> SUFFICES ASSUME NEW p \in Path
                 PROVE  /\ fs'[p] = "dir" => IsDir(p)
                        /\ fs'[p] = "file" => p \in Source \/ \E s \in Makers(p) : Type[s] # "MKDIR"
      BY DEF KindsKept, IsDir, Makers, Products
    <2>1. CASE fs'[p] = fs[p]
      BY <2>1 DEF Calm, KindsKept
    <2>2. CASE fs'[p] # fs[p] /\ fs'[p] # "none"
      BY <1>4, <1>9, <2>2 DEF IsDir, Makers
    <2>3. QED
      BY <2>1, <2>2
  <1>13. OwnProcesses'
    BY <1>1, <1>4, <1>6 DEF Calm, OwnProcesses
  <1>14. RunningBelow'
    <2>1. ASSUME frames' = <<>>, NEW s \in Step
          PROVE  state'[s] # "RUNNING"
      <3>1. t = root
        BY <1>4, <1>5, <2>1, OneFrame DEF BuiltInv, IInv, t
      <3>2. state[s] = "RUNNING" => s \in Reach[t]
        BY <3>1 DEF Calm, RunningBelow
      <3>3. QED
        BY <1>4, <1>6, <3>2
    <2>2. ASSUME NEW s \in Step, state'[s] = "RUNNING"
          PROVE  s \in Reach[root]'
      BY <1>1, <1>6, <2>2 DEF Calm, RunningBelow
    <2>3. QED
      BY <2>1, <2>2 DEF RunningBelow
  <1>15. SourcesThere'
    <2> SUFFICES ASSUME NEW p \in Source, NEW s \in Step, p \in Needs(s)
                 PROVE  fs'[p] # "none"
      BY DEF SourcesThere, Needs, NeedsFile, NeedsDir, Products
    <2>1. p \in Path /\ fs[p] # "none"
      BY PathAssumption DEF Calm, SourcesThere
    <2>2. QED
      BY <1>10, <2>1
  <1>16. Provided'
    <2> SUFFICES ASSUME NEW s \in Step, Made(s)', ~ ToVisit(s)', NEW p \in Products(s),
                        NEW u \in Step, p \in Needs(u), state'[u] = "NONE"
                 PROVE  fs'[p] # "none"
      BY DEF Provided, Products, Needs, NeedsFile, NeedsDir
    <2>1. CASE s = t
      BY <1>7, <2>1
    <2>2. CASE s # t
      <3>1. Made(s) /\ ~ ToVisit(s)
        BY <1>1, <1>4, <1>5, <1>6, <2>2 DEF Made, ToVisit
      <3>2. state[u] = "NONE" /\ p \in Path
        BY <1>6 DEF Products
      <3>3. fs[p] # "none"
        BY <3>1, <3>2 DEF Calm, Provided
      <3>4. QED
        BY <1>10, <3>2, <3>3
    <2>3. QED
      BY <2>1, <2>2
  <1>17. InUse'
    <2> SUFFICES ASSUME NEW s \in Step, state'[s] = "RUNNING", proc'[pid'[s]].st = "live",
                        NEW p \in Needs(s)
                 PROVE  fs'[p] # "none"
      BY DEF InUse, Products, Needs, NeedsFile, NeedsDir
    <2>1. state[s] = "RUNNING" /\ p \in Path
      BY <1>6 DEF Needs, NeedsFile, NeedsDir
    <2>2. fs[p] # "none"
      BY <1>1, <2>1 DEF Calm, InUse
    <2>3. QED
      BY <1>10, <2>1, <2>2
  <1>18. Cleaned'
    BY <1>1, <1>4 DEF Cleaned
  <1>19. QED
    BY <1>11, <1>12, <1>13, <1>14, <1>15, <1>16, <1>17, <1>18 DEF Calm

\* A clean removes what nothing that is still made needs, and finds a directory
\* it has left behind emptier than before, never fuller.
LEMMA CalmCleanVisit ==
    ASSUME Fault = {}, WellMade, BuiltInv, Calm, CleanVisit
    PROVE  Calm'
  <1>1. /\ TypeOK /\ op = "clean" /\ frames = <<>> /\ root \in Step
        /\ \A s \in Step : state[s] # "RUNNING"
        /\ \A p \in Pid : proc[p].st = "free"
    BY CleaningIsQuiet, NothingRuns DEF CleanVisit, BuiltInv, IInv, CallInv, TypeOK
  <1>2. PICK h \in Step : h = Head(todo)
    BY <1>1, HeadTailProperties DEF CleanVisit, TypeOK
  <1>3. /\ todo # <<>> /\ todo \in Seq(Step) /\ todo' = Dep[h] \o Tail(todo)
        /\ fs' \in Removed(Out[h]) /\ fs \in F!FsType
        /\ state' = [state EXCEPT ![h] = "NONE"] /\ failed' = failed \ {h}
        /\ UNCHANGED <<pid, proc, op, root, frames, ret>>
    BY <1>1, <1>2 DEF CleanVisit, VisitNext, CleanState, TypeOK
  <1>4. state'[h] = "NONE" /\ \A s \in Step \ {h} : state'[s] = state[s]
    BY <1>1, <1>3 DEF TypeOK
  <1>5. \A s \in Step \ {h} : ToVisit(s) => ToVisit(s)'
    BY <1>1, <1>2, <1>3, VisitKept
  <1>6. \A s \in Reach[h] : ToVisit(s)
    BY <1>2, <1>3, EmptySeq, HeadTailProperties DEF ToVisit
  <1>7. \/ fs' = fs
        \/ Out[h] \in Path /\ fs' = F!Put(fs, Out[h], "none")
    BY <1>1, <1>3, RemovedCalm, PathAssumption DEF Removed
  <1>8. ASSUME Out[h] \in Path
        PROVE  fs'[Out[h]] = "none" \/ (fs' = fs /\ ~ F!IsEmpty(fs, Out[h]))
    BY <1>1, <1>3, <1>8, RemovedCalm DEF F!Put, F!FsType
  <1>9. /\ \A p \in Path : fs'[p] = fs[p] \/ (p = Out[h] /\ fs'[p] = "none")
        /\ \A p \in Path : fs[p] = "none" => fs'[p] = "none"
    BY <1>3, <1>7 DEF F!Put, F!FsType
  <1>10. NoError' /\ OwnProcesses' /\ RunningBelow' /\ InUse'
    BY <1>1, <1>3, <1>4 DEF Calm, NoError, OwnProcesses, RunningBelow, InUse
  <1>11. KindsKept'
    BY <1>9 DEF Calm, KindsKept, IsDir, Makers, Products
  <1>12. SourcesThere'
    <2> SUFFICES ASSUME NEW p \in Source, NEW s \in Step, p \in Needs(s)
                 PROVE  fs'[p] # "none"
      BY DEF SourcesThere, Needs, NeedsFile, NeedsDir, Products
    <2>1. p \in Path /\ fs[p] # "none"
      BY PathAssumption DEF Calm, SourcesThere
    <2>2. Out[h] # p
      BY DEF WellMade, Supplied
    <2>3. QED
      BY <1>9, <2>1, <2>2
  <1>13. Provided'
    <2> SUFFICES ASSUME NEW s \in Step, Made(s)', ~ ToVisit(s)', NEW p \in Products(s),
                        NEW u \in Step, p \in Needs(u), state'[u] = "NONE"
                 PROVE  fs'[p] # "none"
      BY DEF Provided, Products, Needs, NeedsFile, NeedsDir
    <2>1. s # h /\ Made(s)
      BY <1>1, <1>3, <1>4 DEF Made
    <2>2. ~ ToVisit(s) /\ s \notin Reach[h]
      BY <1>5, <1>6, <2>1
    <2>3. s \in Reach[u] /\ p \in Path
      BY DEF WellMade, Supplied, Makers, Products
    <2>4. state[u] = "NONE"
      BY <1>4, <2>2, <2>3
    <2>5. fs[p] # "none"
      BY <2>1, <2>2, <2>3, <2>4 DEF Calm, Provided
    <2>6. Out[h] # p
      <3> SUFFICES ASSUME Out[h] = p PROVE FALSE
        OBVIOUS
      <3>1. Type[h] # "PATH" /\ Out[h] # NoPath
        BY <2>3, PathAssumption DEF WellMade, Supplied
      <3>2. s \in Reach[h]
        BY <3>1, OutputAssumption
      <3>3. QED
        BY <2>2, <3>2
    <2>7. QED
      BY <1>9, <2>3, <2>5, <2>6
  <1>14. Cleaned'
    <2> SUFFICES ASSUME NEW s \in Reach[root], Out[s] # NoPath, ~ ToVisit(s)',
                        fs'[Out[s]] # "none"
                 PROVE  ~ F!IsEmpty(fs', Out[s])
      BY <1>3 DEF Cleaned, F!IsEmpty
    <2>1. s \in Step /\ Out[s] \in Path
      BY <1>1, ReachTransitive, PathAssumption
    <2>2. CASE s = h
      BY <1>8, <2>1, <2>2 DEF F!IsEmpty
    <2>3. CASE s # h
      <3>1. ~ ToVisit(s) /\ s \notin Reach[h]
        BY <1>5, <1>6, <2>1, <2>3
      <3>2. fs[Out[s]] # "none"
        BY <1>9, <2>1
      <3>3. ~ F!IsEmpty(fs, Out[s])
        BY <1>1, <3>1, <3>2 DEF Calm, Cleaned
      <3>4. PICK q \in Path : In[q] = Out[s] /\ fs[q] # "none"
        BY <3>3 DEF F!IsEmpty
      <3>5. q # Out[h]
        <4> SUFFICES ASSUME q = Out[h] PROVE FALSE
          OBVIOUS
        <4>1. Out[h] # NoPath /\ In[Out[h]] # NoPath /\ Out[s] = In[Out[h]]
          BY <2>1, <3>4, PathAssumption
        <4>2. s \in Reach[h]
          BY <2>1, <4>1 DEF WellMade, DirsBelow
        <4>3. QED
          BY <3>1, <4>2
      <3>6. fs'[q] # "none"
        BY <1>9, <3>4, <3>5
      <3>7. QED
        BY <3>4, <3>6 DEF F!IsEmpty
    <2>4. QED
      BY <2>2, <2>3
  <1>15. QED
    BY <1>10, <1>11, <1>12, <1>13, <1>14 DEF Calm
\* A command finds what it needs, and so succeeds.
LEMMA CalmCommandEnds ==
    ASSUME Fault = {}, WellMade, BuiltInv, Calm, NEW p \in Pid, CommandEnds(p)
    PROVE  Calm'
  <1> DEFINE c == proc[p].cmd
  <1>1. /\ TypeOK /\ KindsKept /\ Running(p) /\ proc \in P!ProcType /\ fs \in F!FsType
        /\ UNCHANGED prog
    BY DEF CommandEnds, ExitOk, ExitError, Killed, Fail, BuiltInv, IInv, CallInv, Calm, TypeOK
  <1>2. proc[p].st = "live" /\ c \in Step /\ state[c] = "RUNNING" /\ pid[c] = p
    BY <1>1 DEF Running, Calm, OwnProcesses
  <1>3. Type[c] = "CMD"
    BY <1>2 DEF BuiltInv, OnlyCommandsRun, Calm, NoError
  <1>4. \A q \in Needs(c) : fs[q] # "none"
    BY <1>2 DEF Calm, InUse
  <1>5. \A q \in Reads[c] : fs[q] = "file"
    <2> SUFFICES ASSUME NEW q \in Reads[c] PROVE fs[q] = "file"
      OBVIOUS
    <2>1. q \in NeedsFile(c) /\ q \in Needs(c)
      BY <1>2, <1>3, PathAssumption DEF NeedsFile, Needs
    <2>2. QED
      BY <1>1, <1>2, <1>4, <2>1, KindOfNeed
  <1>6. Writes[c] \subseteq Products(c) /\ Products(c) \subseteq Path
    BY <1>2, <1>3, PathAssumption DEF Products
  <1>7. \A w \in Writes[c] : F!CanCreate(fs, w)
    <2> SUFFICES ASSUME NEW w \in Writes[c] PROVE F!CanCreate(fs, w)
      OBVIOUS
    <2>1. w \in Products(c)
      BY <1>6
    <2>2. F!ParentThere(fs, w)
      BY <1>1, <1>2, <1>4, <2>1, ParentNeeded
    <2>3. fs[w] # "dir"
      BY <1>1, <1>2, <1>3, <2>1, NoDirMade
    <2>4. QED
      BY <2>2, <2>3 DEF F!CanCreate
  <1>8. CanSucceed(c)
    BY <1>5, <1>7 DEF CanSucceed, Creatable
  <1>9. fs' = Make(Writes[c]) /\ Leave(p, "ok")
    BY <1>8 DEF CommandEnds, ExitOk, ExitError, Killed
  <1>10. \A q \in Path : fs'[q] = IF q \in Writes[c] THEN "file" ELSE fs[q]
    BY <1>9 DEF Make
  <1>11. proc'[p].st = "ok" /\ proc'[p].cmd = c /\ \A q \in Pid \ {p} : proc'[q] = proc[q]
    BY <1>1, <1>2, <1>9 DEF Leave, P!ProcType
  <1>12. UNCHANGED <<state, pid, op, root, frames, ret, todo, failed>>
    BY <1>1 DEF prog
  <1> HIDE DEF c
  <1>13. NoError' /\ RunningBelow'
    BY <1>12 DEF Calm, NoError, RunningBelow
  <1>14. OwnProcesses'
    BY <1>2, <1>11, <1>12 DEF Calm, OwnProcesses
  <1>15. KindsKept'
    <2> SUFFICES ASSUME NEW q \in Path
                 PROVE  /\ fs'[q] = "dir" => IsDir(q)
                        /\ fs'[q] = "file" => q \in Source \/ \E t \in Makers(q) : Type[t] # "MKDIR"
      BY DEF KindsKept, IsDir, Makers, Products
    <2>1. CASE q \in Writes[c]
      BY <1>2, <1>3, <1>6, <1>10, <2>1 DEF Makers
    <2>2. CASE q \notin Writes[c]
      BY <1>1, <1>10, <2>2 DEF KindsKept
    <2>3. QED
      BY <2>1, <2>2
  <1>16. \A q \in Path : fs[q] # "none" => fs'[q] # "none"
    BY <1>10
  <1>17. SourcesThere'
    BY <1>16, PathAssumption DEF Calm, SourcesThere, Needs, NeedsFile, NeedsDir, Products
  <1>18. Provided'
    <2> SUFFICES ASSUME NEW t \in Step, Made(t)', ~ ToVisit(t)', NEW q \in Products(t),
                        NEW u \in Step, q \in Needs(u), state'[u] = "NONE"
                 PROVE  fs'[q] # "none"
      BY DEF Provided, Products, Needs, NeedsFile, NeedsDir
    <2>1. q \in Path
      BY DEF Products
    <2>2. CASE t = c
      <3>1. q \in Writes[c]
        BY <1>3, <2>2 DEF Products
      <3>2. QED
        BY <1>10, <2>1, <3>1
    <2>3. CASE t # c
      <3>1. Made(t)
        <4>1. CASE state[t] = "RUNNING"
          <5>1. t \notin failed
            BY <1>12 DEF Made
          <5>2. pid[t] \in Pid /\ proc[pid[t]].cmd = t
            BY <4>1, <5>1 DEF BuiltInv, IInv, OwnChild
          <5>3. pid[t] # p
            BY <2>3, <5>2 DEF c
          <5>4. QED
            BY <1>11, <1>12, <5>2, <5>3 DEF Made
        <4>2. CASE state[t] # "RUNNING"
          BY <1>12, <4>2 DEF Made
        <4>3. QED
          BY <4>1, <4>2
      <3>2. ~ ToVisit(t) /\ state[u] = "NONE"
        BY <1>12 DEF ToVisit
      <3>3. fs[q] # "none"
        BY <3>1, <3>2 DEF Calm, Provided
      <3>4. QED
        BY <1>16, <2>1, <3>3
    <2>4. QED
      BY <2>2, <2>3
  <1>19. InUse'
    <2> SUFFICES ASSUME NEW s \in Step, state[s] = "RUNNING", proc'[pid[s]].st = "live",
                        NEW q \in Needs(s)
                 PROVE  fs'[q] # "none"
      BY <1>12 DEF InUse, Products, Needs, NeedsFile, NeedsDir
    <2>1. pid[s] \in Pid /\ q \in Path
      BY DEF BuiltInv, IInv, OwnChild, Calm, NoError, Needs, NeedsFile, NeedsDir
    <2>2. proc[pid[s]].st = "live"
      BY <1>2, <1>11, <2>1
    <2>3. QED
      BY <1>16, <2>1, <2>2 DEF Calm, InUse
  <1>20. Cleaned'
    <2>1. op # "clean"
      BY <1>1, <1>2, CleaningIsQuiet, NothingRuns
    <2>2. QED
      BY <1>12, <2>1 DEF Cleaned
  <1>21. QED
    BY <1>13, <1>14, <1>15, <1>17, <1>18, <1>19, <1>20 DEF Calm
-----------------------------------------------------------------------------
(* The theorems *)

LEMMA InitCalm == Init => CalmInv
  <1> SUFFICES ASSUME Init PROVE CalmInv
    OBVIOUS
  <1>1. BuiltInv
    BY InitIInv DEF Init, BuiltInv, OnlyCommandsRun, MadeIsThere, Made
  <1>2. FilesFormATree
    BY PathAssumption DEF Init, FilesFormATree, F!IsTree, F!ParentThere
  <1>3. NoError /\ OwnProcesses /\ RunningBelow /\ Cleaned
    BY DEF Init, NoError, RunError, OwnProcesses, RunningBelow, Cleaned, P!Free
  <1>4. KindsKept /\ SourcesThere
    BY PathAssumption DEF Init, KindsKept, SourcesThere
  <1>5. Provided /\ InUse
    BY DEF Init, Provided, InUse, Made
  <1>6. QED
    BY <1>1, <1>2, <1>3, <1>4, <1>5 DEF CalmInv, Calm

LEMMA NextCalm ==
    ASSUME Fault = {}, WellMade, CalmInv, [Next]_vars
    PROVE  CalmInv'
  <1>1. BuiltInv /\ FilesFormATree /\ Calm
    BY DEF CalmInv
  <1>2. [RetryNext]_vars
    BY DEF Next, RetryNext
  <1>3. BuiltInv' /\ FilesFormATree'
    BY <1>1, <1>2, NextBuiltInv, NextTree DEF BuiltInv, IInv, CallInv
  <1> SUFFICES Calm'
    BY <1>3 DEF CalmInv
  <1>4. CASE Run
    BY <1>1, <1>3, <1>4, CalmQuiet, CalmWaitDep, CalmExecCmd, CalmExecFs DEF Run
  <1>5. CASE CleanVisit
    BY <1>1, <1>5, CalmCleanVisit
  <1>6. CASE Restart
    BY <1>1, <1>6, CalmRestart
  <1>7. CASE \E r \in Roots : CallRun(r) \/ CallClean(r) \/ CallReset(r)
    BY <1>1, <1>7, CalmCallRun, CalmCallClean, CalmCallReset
  <1>8. CASE \E p \in Pid : CommandEnds(p)
    BY <1>1, <1>8, CalmCommandEnds
  <1>9. CASE UNCHANGED vars
    <2>1. UNCHANGED <<state, pid, failed, proc, fs, todo, op, root, frames, ret>>
      BY <1>9 DEF vars, prog
    <2>2. ret' \notin RunError /\ RunningBelow'
      BY <1>1, <2>1 DEF Calm, NoError, RunningBelow
    <2>3. QED
      BY <1>1, <2>1, <2>2, CalmStill DEF Calm
  <1>10. QED
    BY <1>4, <1>5, <1>6, <1>7, <1>8, <1>9 DEF Next, Others

\* The files of a faultless build: what a step is yet to use is there, and no
\* file is taken away while something uses it.
THEOREM CalmInvariant ==
    ASSUME Fault = {}, WellMade
    PROVE  Spec => []CalmInv
  <1>1. CalmInv /\ [Next]_vars => CalmInv'
    BY NextCalm
  <1>2. QED
    BY <1>1, InitCalm, PTL DEF Spec

\* Where nothing fails no run does: the order of the loops is enough for every
\* command to find its inputs and every operation its directory, after any runs,
\* resets, cleans and restarts between them.
THEOREM FaultlessRunsSucceed ==
    ASSUME Fault = {}, WellMade
    PROVE  Spec => []NoSpuriousError
  <1>1. CalmInv => NoSpuriousError
    BY DEF CalmInv, Calm, NoError, NoSpuriousError
  <1>2. QED
    BY <1>1, CalmInvariant, PTL

\* A clean removes all outputs below its root, except for the directories that
\* hold what no step below that root makes.
THEOREM FaultlessCleanRemovesAll ==
    ASSUME Fault = {}, WellMade
    PROVE  Spec => []CleanRemovesAll
  <1>1. CalmInv => CleanRemovesAll
    <2> SUFFICES ASSUME CalmInv, op = "clean", todo = <<>>
                 PROVE  LET outs == {Out[s] : s \in Reach[root]} \ {NoPath}
                        IN  \A p \in outs : \/ fs[p] = "none"
                                            \/ \E q \in Within[p] \ outs : fs[q] # "none"
      BY DEF CleanRemovesAll
    <2> DEFINE outs == {Out[s] : s \in Reach[root]} \ {NoPath}
    <2> SUFFICES ASSUME NEW p \in outs, fs[p] # "none"
                 PROVE  \E q \in Within[p] \ outs : fs[q] # "none"
      OBVIOUS
    <2>1. /\ TypeOK /\ root \in Step /\ Cleaned
          /\ \A s \in Step : ~ ToVisit(s)
      BY CleaningIsQuiet DEF CalmInv, Calm, BuiltInv, IInv, CallInv, ToVisit
    <2>2. outs \subseteq Path
      BY <2>1, ReachTransitive, PathAssumption
    <2>3. \A q \in outs : fs[q] # "none" => \E x \in Path : In[x] = q /\ fs[x] # "none"
      BY <2>1, ReachTransitive DEF Cleaned, F!IsEmpty
    <2> HIDE DEF outs
    <2> DEFINE S == {q \in Within[p] : fs[q] # "none"}
    <2>4. p \in Within[p] /\ Within[p] \subseteq Path
      BY <2>2 DEF Within
    <2>5. \A q \in Within[p], x \in Path : In[x] = q => x \in Within[p]
      BY <2>2 DEF Within
    <2>6. S \in SUBSET Path /\ S # {}
      BY <2>4
    <2> HIDE DEF S
    <2>7. PICK q \in S : \A x \in S : In[x] # q
      BY <2>6 DEF WellMade, DirsBelow
    <2>8. q \in Within[p] /\ fs[q] # "none"
      BY DEF S
    <2>9. q \notin outs
      <3> SUFFICES ASSUME q \in outs PROVE FALSE
        OBVIOUS
      <3>1. PICK x \in Path : In[x] = q /\ fs[x] # "none"
        BY <2>3, <2>8
      <3>2. x \in S
        BY <2>5, <2>8, <3>1 DEF S
      <3>3. QED
        BY <2>7, <3>1, <3>2
    <2>10. QED
      BY <2>8, <2>9
  <1>2. QED
    BY <1>1, CalmInvariant, PTL
=============================================================================
