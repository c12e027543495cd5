--------------------------------- MODULE Watch ---------------------------------
(***************************************************************************)
(* Directory watching, include/aven/watch.h: the handles, the changes the  *)
(* system holds for them, the client, and what a check has done so far.    *)
(* WatchLinux and WatchWindows add the two implementations of a check.     *)
(***************************************************************************)
EXTENDS Integers, Sequences, FiniteSets

CONSTANTS
    Dir,        \* the directories, each watched through a handle of its own
    Lists,      \* the sequences of handles a client checks at once
    MaxHeld,    \* a bound on the changes the system holds for a handle
    MaxTaken,   \* a bound on those one call takes
    Fault       \* which of the system's calls may fail: "init", "poll", "read"

ASSUME ListsAssumption ==
    /\ Lists \subseteq Seq(Dir)
    /\ \A list \in Lists : \A i, j \in DOMAIN list : list[i] = list[j] => i = j

ASSUME BoundsAssumption == MaxHeld \in Nat /\ MaxTaken \in Nat

VARIABLES
    open,       \* the directories whose handle is valid
    held,       \* how many changes the system holds for each
    pc,         \* what the check is about to do
    handles,    \* its arguments
    timeout,    \* whether it waits for a limited time only
    at,         \* the next place in handles
    found,      \* the places the system said are ready
    signaled,   \* the bits of the result
    error       \* whether the last check returned an error

vars == <<open, held, pc, handles, timeout, at, found, signaled, error>>
check == <<pc, handles, timeout, at, found, signaled, error>>

TypeOK ==
    /\ open \subseteq Dir /\ held \in [Dir -> 0..MaxHeld]
    /\ pc \in {"IDLE", "WAIT", "READ", "NEXT"} /\ handles \in Lists \cup {<<>>}
    /\ timeout \in BOOLEAN /\ error \in BOOLEAN
    /\ at \in 1..(Len(handles) + 1)
    /\ found \subseteq DOMAIN handles /\ signaled \subseteq DOMAIN handles

Init ==
    /\ open = {} /\ held = [d \in Dir |-> 0]
    /\ pc = "IDLE" /\ handles = <<>> /\ timeout = FALSE /\ at = 1
    /\ found = {} /\ signaled = {} /\ error = FALSE

\* The client's handle is invalid when it fails.
aven_watch_init(d) ==
    /\ pc = "IDLE" /\ d \notin open
    /\ \/ open' = open \cup {d}
       \/ "init" \in Fault /\ UNCHANGED open
    /\ UNCHANGED <<held, check>>

aven_watch_deinit(d) ==
    /\ pc = "IDLE" /\ d \in open
    /\ open' = open \ {d} /\ held' = [held EXCEPT ![d] = 0]
    /\ UNCHANGED check

\* The system adds a change to those it holds, or to one it holds already.
Changed(n) == {n + 1, n} \cap 1..MaxHeld
Change(d) ==
    /\ d \in open
    /\ \E n \in Changed(held[d]) : held' = [held EXCEPT ![d] = n]
    /\ UNCHANGED <<open, check>>

Take(d) == \E n \in 1..MaxTaken :
    n <= held[d] /\ held' = [held EXCEPT ![d] = @ - n]

Call(list, t) ==
    /\ pc = "IDLE"
    /\ pc' = "WAIT" /\ handles' = list /\ timeout' = t /\ at' = 1
    /\ found' = {} /\ signaled' = {} /\ error' = FALSE
    /\ UNCHANGED <<open, held>>

Return == pc' = "IDLE" /\ UNCHANGED <<open, handles, timeout, at, found, error>>
ReturnError ==
    /\ pc' = "IDLE" /\ error' = TRUE /\ signaled' = {}
    /\ UNCHANGED <<open, held, handles, timeout, at, found>>

Client ==
    \/ \E d \in Dir : aven_watch_init(d) \/ aven_watch_deinit(d)
    \/ \E list \in Lists, t \in BOOLEAN : Call(list, t)
Holds(i) == handles[i] \in open /\ held[handles[i]] > 0
-----------------------------------------------------------------------------
\* Bit i of the result stands for handle i.  A change the check has taken is
\* still to be told until it returns.
Told == {handles[i] : i \in signaled}
Unseen == {d \in open : held[d] > 0} \cup (IF pc = "IDLE" THEN {} ELSE Told)

Promise == INSTANCE DirWatch WITH
    watched <- open, unseen <- Unseen, told <- IF pc = "IDLE" THEN Told ELSE {}, failed <- error

\* A check names exactly the directories whose changes it has taken, and loses
\* none unless it reports an error, whatever changes while it runs.
ImplementsDirWatch == Promise!Spec

\* A check that has taken a change does not report that there was none.
WakesClient == [][
    (\E d \in Dir : held'[d] < held[d]) /\ pc # "IDLE" => signaled' # {}]_vars

\* A check with a time limit returns: no read waits for what is not there.
CheckReturns == pc # "IDLE" /\ timeout ~> pc = "IDLE"
=============================================================================
