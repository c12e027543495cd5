------------------------------- MODULE WatchUse -------------------------------
(***************************************************************************)
(* The watch on both systems: a client that on Linux checks several        *)
(* handles at once, and on Windows one at a time ("alone") or several      *)
(* ("together").                                                           *)
(***************************************************************************)
EXTENDS Watch

CONSTANTS
    LinuxLists, WindowsLists    \* what is checked on Linux, and together on Windows

OneByOne == {<<d>> : d \in Dir}

ASSUME UseAssumption == LinuxLists \cup WindowsLists \cup OneByOne \subseteq Lists

VARIABLE os

Linux == INSTANCE WatchLinux WITH Lists <- LinuxLists
Alone == INSTANCE WatchWindows WITH Lists <- OneByOne
Together == INSTANCE WatchWindows WITH Lists <- WindowsLists

UseInit == Init /\ os \in {"linux", "alone", "together"}

UseNext == UNCHANGED os /\
    \/ os = "linux" /\ Linux!Next
    \/ os = "alone" /\ Alone!Next
    \/ os = "together" /\ Together!Next

UseSafety == UseInit /\ [][UseNext]_<<vars, os>>

\* The program runs.  No call of the system has to fail, and a check that waits
\* for a change may wait for ever.  On Linux the client keeps checking.
CheckAdvances == UNCHANGED os /\
    \/ os = "linux" /\ Linux!Advance
    \/ os # "linux" /\ Together!Advance
Asks == os = "linux" /\ UNCHANGED os /\ \E list \in LinuxLists, t \in BOOLEAN : Call(list, t)

Fairness == WF_<<vars, os>>(CheckAdvances) /\ WF_<<vars, os>>(Asks)
UseSpec == UseSafety /\ Fairness
-----------------------------------------------------------------------------
\* What the promise is about; of several handles on Windows it says nothing.
Watched == IF os = "together" THEN {} ELSE open
ToTell == IF os = "together" THEN {} ELSE Unseen
Named == IF os = "together" \/ pc # "IDLE" THEN {} ELSE Told
Failed == os # "together" /\ error

Kept == INSTANCE DirWatch WITH
    watched <- Watched, unseen <- ToTell, told <- Named, failed <- Failed

\* A check names exactly the directories whose changes it has taken, and loses
\* none unless it reports an error, whatever changes while it runs: of several
\* handles on Linux, of one on Windows (of several there it does not).
KeepsPromise == Kept!Spec

\* A change to a directory that stays watched, and that the client never leaves
\* out of a check, is told in the end, or a check reports an error.
ChangeIsTold == \A d \in Dir :
    (\A list \in LinuxLists : d \in {list[i] : i \in DOMAIN list}) =>
        (os = "linux" /\ d \in Unseen ~> (d \notin open \/ error \/ (pc = "IDLE" /\ d \in Told)))
-----------------------------------------------------------------------------
\* The inductive invariant behind WakesClient and KeepsPromise.
UseInv ==
    /\ TypeOK /\ os \in {"linux", "alone", "together"}
    /\ \A d \in Dir \ open : held[d] = 0
    /\ pc = "NEXT" => signaled # {}
    /\ os = "alone" => handles \in OneByOne \cup {<<>>}
=============================================================================
