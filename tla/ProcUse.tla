-------------------------------- MODULE ProcUse --------------------------------
(***************************************************************************)
(* A client of include/aven/proc.h that starts jobs, kills some of them    *)
(* and waits for them, on either system, while others use the same process *)
(* ids or handles.  The two systems release a job differently: on POSIX a  *)
(* wait reaps the process and a kill does not, on Windows a kill closes    *)
(* the handle and a wait does not.  A client that is careful therefore     *)
(* waits for every job on POSIX, last of all, and kills every job on       *)
(* Windows, last of all: no order of calls would do on both.               *)
(***************************************************************************)
CONSTANTS
    Own, Others,                        \* the jobs of the client and of others
    Pid, NoPid, NoCmd, Fault, System

ASSUME JobsApart == Own \cap Others = {} /\ NoPid \notin Pid

VARIABLES
    os,
    proc,       \* the processes, or handles, as in Proc and ProcWindows
    id,         \* what aven_proc_cmd returned for each job
    fate, asked, told   \* see Jobs

vars == <<os, proc, id, fate, asked, told>>

Cmd == Own \cup Others
Posix == INSTANCE Proc
Windows == INSTANCE ProcWindows
J == INSTANCE Jobs

On(posix, windows) == IF os = "posix" THEN posix ELSE windows

Init ==
    /\ os \in System
    /\ proc = [p \in Pid |-> Posix!Free]
    /\ id = [c \in Own |-> NoPid]
    /\ J!Init

Started(c) == fate[c] # "none"
Released(c) == On(told[c] # "NONE", c \in asked)
Open(c) == Started(c) /\ ~ Released(c)

Start(c) ==
    /\ ~ Started(c)
    /\ \E r \in On(Posix!aven_proc_cmd(proc, c), Windows!aven_proc_cmd(proc, c)) :
        /\ proc' = r.proc
        /\ id' = [id EXCEPT ![c] = r.pid]
        /\ fate' = IF r.err = "OK" THEN [fate EXCEPT ![c] = "live"] ELSE fate
    /\ UNCHANGED <<os, asked, told>>

\* A wait that fails tells the client nothing, and may be tried again.
Wait(c) ==
    /\ Open(c)
    /\ \E r \in On(Posix!aven_proc_wait(proc, id[c]), Windows!aven_proc_wait(proc, id[c])) :
        /\ proc' = r.proc
        /\ told' = IF r.err = "WAIT" THEN told ELSE [told EXCEPT ![c] = r.err]
    /\ UNCHANGED <<os, id, fate, asked>>

Kill(c) ==
    /\ Open(c)
    /\ \E r \in On(Posix!aven_proc_kill(proc, id[c]), Windows!aven_proc_kill(proc, id[c])) :
        /\ proc' = r.proc
        /\ fate' = [d \in Cmd |-> IF d \in r.hit THEN "sig" ELSE fate[d]]
        /\ asked' = asked \cup {c}
    /\ UNCHANGED <<os, id, told>>

\* A process of the client ends by itself.
Ends(p, st) ==
    /\ proc[p].st = "live"
    /\ proc' = [proc EXCEPT ![p].st = st]
    /\ fate' = [fate EXCEPT ![proc[p].cmd] = st]
    /\ UNCHANGED <<os, id, asked, told>>

\* Others take a process id, or a value of a handle, that is free.
OtherStarts(c, p) ==
    /\ ~ Started(c) /\ proc[p].st = "free"
    /\ proc' = [proc EXCEPT ![p] = [st |-> "orphan", cmd |-> c]]
    /\ fate' = [fate EXCEPT ![c] = "live"]
    /\ UNCHANGED <<os, id, asked, told>>

\* Others reap it, or close the handle.
OtherEnds(p, st) ==
    /\ proc[p].st = "orphan"
    /\ proc' = [proc EXCEPT ![p] = Posix!Free]
    /\ fate' = [fate EXCEPT ![proc[p].cmd] = st]
    /\ UNCHANGED <<os, id, asked, told>>

Next ==
    \/ \E c \in Own : Start(c) \/ Wait(c) \/ Kill(c)
    \/ \E p \in Pid, st \in {"ok", "err"} : Ends(p, st) \/ OtherEnds(p, st)
    \/ \E p \in Pid, c \in Others : OtherStarts(c, p)

Spec == Init /\ [][Next]_vars
-----------------------------------------------------------------------------
\* A process id that was reaped, or a handle that was closed, may name
\* something else: a careful client kills and hears of its own jobs only.
ImplementsJobs == J!Spec

\* Once a job is released the system keeps nothing of it, neither a process
\* that has ended nor a handle, and before that what it keeps is under the id
\* the client was given.
KeepsNothing == \A p \in Pid : Posix!IsChild(proc, p) =>
    ~ Released(proc[p].cmd) /\ id[proc[p].cmd] = p
=============================================================================
