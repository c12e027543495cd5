------------------------------- MODULE DagBuild -------------------------------
(***************************************************************************)
(* What a build promises, without calls, loops, processes or files: a job  *)
(* starts at most once until it is forgotten, and only when everything it  *)
(* depends on has succeeded and not been forgotten since.                  *)
(***************************************************************************)
CONSTANTS
    Job,
    Needs       \* Needs[j], the jobs j depends on

VARIABLE st

JobState == {"idle", "running", "ok", "failed"}

Init == st = [j \in Job |-> "idle"]

\* A job may be over as soon as it has started.
Start(j, result) ==
    /\ st[j] = "idle"
    /\ \A d \in Needs[j] : st[d] = "ok"
    /\ st' = [st EXCEPT ![j] = result]

Finish(j, result) ==
    /\ st[j] = "running"
    /\ st' = [st EXCEPT ![j] = result]

Forget(S) == st' = [j \in Job |-> IF j \in S THEN "idle" ELSE st[j]]

Next ==
    \/ \E j \in Job : \/ \E result \in {"running", "ok", "failed"} : Start(j, result)
                      \/ \E result \in {"ok", "failed"} : Finish(j, result)
    \/ \E S \in SUBSET Job : Forget(S)

Spec == Init /\ [][Next]_st
=============================================================================
