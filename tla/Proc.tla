-------------------------------- MODULE Proc --------------------------------
(***************************************************************************)
(* include/aven/proc.h on POSIX: starting a command, waiting for it, and   *)
(* killing it.                                                             *)
(* The table maps every process id the system can hand out to the process  *)
(* that holds it.  A process that has ended keeps its id until it is       *)
(* reaped; a reaped id is free and may name a later process.  An "orphan"  *)
(* still runs, but was started by an earlier invocation of the program and *)
(* is no child of this one.                                                *)
(***************************************************************************)
CONSTANTS
    Pid,        \* the process ids, a bound on the processes alive at once
    NoPid,      \* the pid of a step whose command was never started: 0
    Cmd,        \* the commands
    NoCmd,      \* the command of a free process id
    Fault       \* the faults the environment may inject

Ended == {"ok", "err", "sig"}   \* exited with 0, with another status, killed
ProcType == [Pid -> [st : {"free", "live", "orphan"} \cup Ended,
                     cmd : Cmd \cup {NoCmd}]]

Free == [st |-> "free", cmd |-> NoCmd]
IsChild(proc, p) == proc[p].st \in {"live"} \cup Ended
Children(proc) == {p \in Pid : IsChild(proc, p)}
-----------------------------------------------------------------------------
\* A command that cannot be executed is a child that exits with errno, so the
\* only error is that of fork.
aven_proc_cmd(proc, c) ==
    LET free == {p \in Pid : proc[p].st = "free"}
    IN  {[proc |-> [proc EXCEPT ![p] = [st |-> "live", cmd |-> c]],
          pid |-> p, err |-> "OK"] : p \in free} \cup
        IF free = {} \/ "fork" \in Fault
        THEN {[proc |-> proc, pid |-> NoPid, err |-> "FORK"]}
        ELSE {}

\* The children waitpid(p) waits for: waitpid(0) takes any child.
Target(proc, p) == IF p = NoPid THEN Children(proc) ELSE Children(proc) \cap {p}

Status(st) == CASE st = "ok"  -> "OK"
                [] st = "err" -> "PROCESS"
                [] st = "sig" -> "SIGNAL"

\* The call blocks (it has no outcome yet) while every target is alive.  With
\* no target, or when a signal handler ran, waitpid fails and nothing is
\* reaped.
aven_proc_wait(proc, p) ==
    {[proc |-> [proc EXCEPT ![q] = Free], err |-> Status(proc[q].st)] :
        q \in {t \in Target(proc, p) : proc[t].st \in Ended}} \cup
    IF Target(proc, p) = {} \/ "eintr" \in Fault
    THEN {[proc |-> proc, err |-> "WAIT"]}
    ELSE {}

\* SIGTERM ends a process, at once or when it has handled the signal, or is
\* ignored.  A process that has ended but is not reaped takes the signal, and
\* a process of another user refuses it.  `hit' are the commands it ended.
aven_proc_kill(proc, p) ==
    LET Hit(st) == {q \in {p} : proc[q].st = st}
    IN  {[proc |-> [proc EXCEPT ![q].st = "sig"], err |-> "OK", hit |-> {proc[q].cmd}] :
            q \in Hit("live")} \cup
        {[proc |-> [proc EXCEPT ![q] = Free], err |-> "OK", hit |-> {proc[q].cmd}] :
            q \in Hit("orphan")} \cup
        {[proc |-> proc, err |-> "KILL", hit |-> {}] : q \in Hit("free") \cup Hit("orphan")} \cup
        {[proc |-> proc, err |-> "OK", hit |-> {}] : q \in {p} \ Hit("free")}
=============================================================================
