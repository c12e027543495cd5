------------------------------ MODULE ProcWindows ------------------------------
(***************************************************************************)
(* include/aven/proc.h on Windows, where AvenProcId is a handle.  The      *)
(* table maps every value a handle can have to the process it is open on:  *)
(* an ended process is kept by its handle, and the value of a closed one   *)
(* may be that of a later handle.  An "orphan" is a process that another   *)
(* part of the program has opened.                                         *)
(***************************************************************************)
CONSTANTS Pid, NoPid, Cmd, NoCmd, Fault

P == INSTANCE Proc

\* The handle of the thread is closed at once, that of the process is kept.
aven_proc_cmd(proc, c) == P!aven_proc_cmd(proc, c)

\* Mutant of Waited: the handle is closed after the wait.
WaitedCloses(proc, h) == [proc EXCEPT ![h] = P!Free]
Waited(proc, h) == proc

\* The call blocks until the process ends, and fails if the handle is closed.
\* A killed process has the exit code it was killed with, 1.
aven_proc_wait(proc, h) ==
    {[proc |-> Waited(proc, g), err |-> IF proc[g].st = "ok" THEN "OK" ELSE "PROCESS"] :
        g \in {g \in {h} : proc[g].st \in P!Ended}} \cup
    {[proc |-> proc, err |-> "WAIT"] : g \in {g \in {h} : proc[g].st = "free"}}

\* Mutant of Killed: a process that cannot be killed keeps its handle.
KilledIfLive(proc, h) ==
    IF proc[h].st \in P!Ended THEN proc ELSE [proc EXCEPT ![h] = P!Free]
\* The handle is closed whether the process could be killed or not.
Killed(proc, h) == [proc EXCEPT ![h] = P!Free]

\* A process that has ended cannot be killed, nor can one without a handle.
aven_proc_kill(proc, h) ==
    {[proc |-> Killed(proc, h),
      err |-> IF proc[h].st \in {"live", "orphan"} THEN "OK" ELSE "KILL",
      hit |-> {proc[g].cmd : g \in {g \in {h} : proc[g].st \in {"live", "orphan"}}}]}
=============================================================================
