---------------------------------- MODULE Jobs ----------------------------------
(***************************************************************************)
(* What include/aven/proc.h promises a client that starts jobs: a job is   *)
(* killed only if the client asks for it, whatever process ids or handles  *)
(* are handed out again, what the client is told of a job is how that job  *)
(* ended, and nothing is done to the jobs of others.                       *)
(***************************************************************************)
CONSTANTS Own, Others

VARIABLES
    fate,       \* how each job is doing: "none" before it is started
    asked,      \* the jobs the client has asked to be killed
    told        \* what the client was told of the end of each

Ended == {"ok", "err", "sig"}

Init ==
    /\ fate = [c \in Own \cup Others |-> "none"]
    /\ asked = {}
    /\ told = [c \in Own |-> "NONE"]

Start(c) == fate[c] = "none" /\ fate' = [fate EXCEPT ![c] = "live"] /\ UNCHANGED <<asked, told>>

End(c) ==
    /\ fate[c] = "live"
    /\ \E st \in {"ok", "err"} : fate' = [fate EXCEPT ![c] = st]
    /\ UNCHANGED <<asked, told>>

\* The job may also ignore it.
Kill(c) ==
    /\ fate[c] # "none"
    /\ asked' = asked \cup {c}
    /\ \/ UNCHANGED fate
       \/ fate[c] = "live" /\ fate' = [fate EXCEPT ![c] = "sig"]
    /\ UNCHANGED told

\* Only POSIX tells a job that was killed from one that failed.
Tell(c) ==
    /\ fate[c] \in Ended
    /\ told' \in [Own -> {"NONE", "OK", "PROCESS", "SIGNAL"}]
    /\ told'[c] \in CASE fate[c] = "ok"  -> {"OK"}
                      [] fate[c] = "err" -> {"PROCESS"}
                      [] fate[c] = "sig" -> {"SIGNAL", "PROCESS"}
    /\ \A d \in Own \ {c} : told'[d] = told[d]
    /\ UNCHANGED <<fate, asked>>

Next == \/ \E c \in Own \cup Others : Start(c) \/ End(c)
        \/ \E c \in Own : Kill(c) \/ Tell(c)

Spec == Init /\ [][Next]_<<fate, asked, told>>
=============================================================================
