----------------------------- MODULE WatchWindows -----------------------------
(***************************************************************************)
(* A check on Windows: it waits for the first handle that is signaled,     *)
(* arms it again, and goes on with the handles that come after it without  *)
(* waiting, until none is signaled or left.                                *)
(***************************************************************************)
EXTENDS Watch

Rest == at..Len(handles)
Hits == {i \in Rest : Holds(i)}
Waits == pc = "WAIT" /\ \A i \in Rest : handles[i] \in open

\* The system numbers the handles it was given, which are the rest.
Bit(i) == i - at + 1

\* Mutant of Wait: the bit is not set.
WaitNoBit == \E i \in Hits :
    /\ Waits /\ \A j \in Hits : i <= j
    /\ pc' = "NEXT" /\ found' = {i} /\ timeout' = TRUE
    /\ UNCHANGED <<open, held, handles, at, signaled, error>>
Wait == \E i \in Hits :
    /\ Waits /\ \A j \in Hits : i <= j
    /\ pc' = "NEXT" /\ found' = {i} /\ timeout' = TRUE
    /\ signaled' = signaled \cup {Bit(i)}
    /\ UNCHANGED <<open, held, handles, at, error>>

WaitTimesOut ==
    /\ Waits /\ Hits = {} /\ timeout
    /\ Return /\ UNCHANGED <<held, signaled>>

\* The wait fails if a handle is invalid.
WaitRefused == pc = "WAIT" /\ ~ Waits /\ ReturnError

WaitFails == pc = "WAIT" /\ "poll" \in Fault /\ ReturnError

After(i) == i + 1

Rearm == \E i \in found :
    /\ pc = "NEXT" /\ Take(handles[i])
    /\ at' = After(i)
    /\ pc' = IF at' > Len(handles) THEN "IDLE" ELSE "WAIT"
    /\ UNCHANGED <<open, handles, timeout, found, signaled, error>>

RearmFails == pc = "NEXT" /\ "read" \in Fault /\ ReturnError

Advance == Wait \/ WaitTimesOut \/ WaitRefused \/ Rearm
Check == Advance \/ WaitFails \/ RearmFails

Next == Client \/ Check \/ \E d \in Dir : Change(d)

Spec == Init /\ [][Next]_vars
=============================================================================
