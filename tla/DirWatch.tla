------------------------------- MODULE DirWatch -------------------------------
(***************************************************************************)
(* What include/aven/watch.h promises a client that watches directories:   *)
(* a check tells it which of them have changed, each change is told        *)
(* sooner or later, and only a check that fails may forget any.            *)
(***************************************************************************)
CONSTANT Dir

VARIABLES
    watched,    \* the directories the client has handles for
    unseen,     \* the directories with a change that has not been told
    told,       \* the directories the last check named
    failed      \* the last check reported an error

Init == watched = {} /\ unseen = {} /\ told = {} /\ failed = FALSE

Watch(d) == watched' = watched \cup {d} /\ UNCHANGED <<unseen, told, failed>>

\* What has not been told by now never will be.
Unwatch(d) ==
    /\ watched' = watched \ {d} /\ unseen' = unseen \ {d}
    /\ UNCHANGED <<told, failed>>

Change(d) ==
    /\ d \in watched
    /\ unseen' = unseen \cup {d}
    /\ UNCHANGED <<watched, told, failed>>

Ask == told' = {} /\ failed' = FALSE /\ UNCHANGED <<watched, unseen>>

\* A change that comes during the check may be told now or later.
Tell(S) ==
    /\ S \subseteq unseen
    /\ told' = S
    /\ unseen \ S \subseteq unseen' /\ unseen' \subseteq unseen
    /\ UNCHANGED <<watched, failed>>

Fail ==
    /\ failed' = TRUE /\ unseen' \subseteq unseen
    /\ UNCHANGED <<watched, told>>

Next ==
    \/ \E d \in Dir : Watch(d) \/ Unwatch(d) \/ Change(d)
    \/ Ask \/ Fail
    \/ \E S \in SUBSET Dir : Tell(S)

Spec == Init /\ [][Next]_<<watched, unseen, told, failed>>
=============================================================================
