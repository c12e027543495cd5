------------------------------ MODULE WatchLinux ------------------------------
(***************************************************************************)
(* A check on Linux: one poll, then one read from every handle that was    *)
(* ready.  The handles block, and a read that is interrupted is repeated.  *)
(***************************************************************************)
EXTENDS Watch

\* An invalid handle is never ready.
Ready == {i \in DOMAIN handles : Holds(i)}

Poll ==
    /\ pc = "WAIT" /\ Ready # {}
    /\ pc' = "READ" /\ found' = Ready
    /\ UNCHANGED <<open, held, handles, timeout, at, signaled, error>>

PollTimesOut ==
    /\ pc = "WAIT" /\ Ready = {} /\ timeout
    /\ Return /\ UNCHANGED <<held, signaled>>

PollFails == pc = "WAIT" /\ "poll" \in Fault /\ ReturnError

\* Mutants of More: the loop ends too late, and too early.
MoreLate == at <= Len(handles) + 1
MoreEarly == at < Len(handles)
More == at <= Len(handles)

\* Mutant of WasReady: the answer of the poll is not looked at.
WasReadyAny(i) == i \in DOMAIN handles
WasReady(i) == i \in found

Skip ==
    /\ pc = "READ" /\ More /\ ~ WasReady(at)
    /\ at' = at + 1
    /\ UNCHANGED <<open, held, pc, handles, timeout, found, signaled, error>>

\* Mutant of Signaled: the bits of the earlier handles are lost.
SignaledLast == {at}
Signaled == signaled \cup {at}

Read ==
    /\ pc = "READ" /\ More /\ WasReady(at)
    /\ Take(handles[at])
    /\ signaled' = Signaled /\ at' = at + 1
    /\ UNCHANGED <<open, pc, handles, timeout, found, error>>

ReadFails ==
    /\ pc = "READ" /\ More /\ WasReady(at)
    /\ "read" \in Fault /\ ReturnError

Finish ==
    /\ pc = "READ" /\ ~ More
    /\ Return /\ UNCHANGED <<held, signaled>>

Advance == Poll \/ PollTimesOut \/ Skip \/ Read \/ Finish
Check == Advance \/ PollFails \/ ReadFails

Next == Client \/ Check \/ \E d \in Dir : Change(d)

Spec == Init /\ [][Next]_vars
=============================================================================
