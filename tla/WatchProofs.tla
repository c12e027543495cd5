------------------------------ MODULE WatchProofs ------------------------------
(***************************************************************************)
(* Proofs about the watch on both systems, for any directories, any lists  *)
(* of handles, any number of changes and every set of faults.              *)
(***************************************************************************)
EXTENDS WatchUse, SequenceTheorems, TLAPS

\* What the client and the system do is the same on all systems.
LEMMA SameOnLinux ==
    ASSUME Linux!Next
    PROVE  \/ \E d \in Dir : aven_watch_init(d) \/ aven_watch_deinit(d) \/ Change(d)
           \/ \E list \in LinuxLists, t \in BOOLEAN : Call(list, t)
           \/ Linux!Check
  <1>1. ASSUME NEW d \in Dir, Linux!aven_watch_init(d) \/ Linux!aven_watch_deinit(d)
        PROVE  aven_watch_init(d) \/ aven_watch_deinit(d)
    BY <1>1 DEF Linux!aven_watch_init, Linux!aven_watch_deinit, Linux!check,
       aven_watch_init, aven_watch_deinit, check
  <1>2. ASSUME NEW d \in Dir, Linux!Change(d)
        PROVE  Change(d)
    BY <1>2 DEF Linux!Change, Linux!Changed, Linux!check, Change, Changed, check
  <1>3. ASSUME NEW list \in LinuxLists, NEW t \in BOOLEAN, Linux!Call(list, t)
        PROVE  Call(list, t)
    BY <1>3 DEF Linux!Call, Call
  <1>4. QED
    BY <1>1, <1>2, <1>3 DEF Linux!Next, Linux!Client

LEMMA SameTogether ==
    ASSUME Together!Next
    PROVE  \/ \E d \in Dir : aven_watch_init(d) \/ aven_watch_deinit(d) \/ Change(d)
           \/ \E list \in WindowsLists, t \in BOOLEAN : Call(list, t)
           \/ Together!Check
  <1>1. ASSUME NEW d \in Dir, Together!aven_watch_init(d) \/ Together!aven_watch_deinit(d)
        PROVE  aven_watch_init(d) \/ aven_watch_deinit(d)
    BY <1>1 DEF Together!aven_watch_init, Together!aven_watch_deinit, Together!check,
       aven_watch_init, aven_watch_deinit, check
  <1>2. ASSUME NEW d \in Dir, Together!Change(d)
        PROVE  Change(d)
    BY <1>2 DEF Together!Change, Together!Changed, Together!check, Change, Changed, check
  <1>3. ASSUME NEW list \in WindowsLists, NEW t \in BOOLEAN, Together!Call(list, t)
        PROVE  Call(list, t)
    BY <1>3 DEF Together!Call, Call
  <1>4. QED
    BY <1>1, <1>2, <1>3 DEF Together!Next, Together!Client

LEMMA SameAlone ==
    ASSUME Alone!Next
    PROVE  \/ \E d \in Dir : aven_watch_init(d) \/ aven_watch_deinit(d) \/ Change(d)
           \/ \E list \in OneByOne, t \in BOOLEAN : Call(list, t)
           \/ Together!Check
  <1>1. ASSUME NEW d \in Dir, Alone!aven_watch_init(d) \/ Alone!aven_watch_deinit(d)
        PROVE  aven_watch_init(d) \/ aven_watch_deinit(d)
    BY <1>1 DEF Alone!aven_watch_init, Alone!aven_watch_deinit, Alone!check,
       aven_watch_init, aven_watch_deinit, check
  <1>2. ASSUME NEW d \in Dir, Alone!Change(d)
        PROVE  Change(d)
    BY <1>2 DEF Alone!Change, Alone!Changed, Alone!check, Change, Changed, check
  <1>3. ASSUME NEW list \in OneByOne, NEW t \in BOOLEAN, Alone!Call(list, t)
        PROVE  Call(list, t)
    BY <1>3 DEF Alone!Call, Call
  <1>4. Alone!Check => Together!Check
    BY DEF Alone!Check, Alone!Advance, Alone!Wait, Alone!WaitTimesOut, Alone!WaitRefused,
       Alone!Rearm, Alone!WaitFails, Alone!RearmFails, Alone!Waits, Alone!Rest, Alone!Hits,
       Alone!Bit, Alone!After, Alone!Holds, Alone!Take, Alone!Return, Alone!ReturnError,
       Together!Check, Together!Advance, Together!Wait, Together!WaitTimesOut,
       Together!WaitRefused, Together!Rearm, Together!WaitFails, Together!RearmFails,
       Together!Waits, Together!Rest, Together!Hits, Together!Bit, Together!After,
       Together!Holds, Together!Take, Together!Return, Together!ReturnError
  <1>5. QED
    BY <1>1, <1>2, <1>3, <1>4 DEF Alone!Next, Alone!Client

LEMMA Steps ==
    ASSUME [UseNext]_<<vars, os>>
    PROVE  /\ os' = os
           /\ \/ \E d \in Dir : aven_watch_init(d) \/ aven_watch_deinit(d) \/ Change(d)
              \/ \E list \in Lists, t \in BOOLEAN :
                    Call(list, t) /\ (os = "alone" => list \in OneByOne)
              \/ os = "linux" /\ Linux!Check
              \/ os \in {"alone", "together"} /\ Together!Check
              \/ UNCHANGED vars
  <1>1. os' = os
    BY DEF UseNext
  <1>2. /\ LinuxLists \subseteq Lists /\ WindowsLists \subseteq Lists
        /\ OneByOne \subseteq Lists
    BY UseAssumption
  <1>3. CASE os = "linux" /\ Linux!Next
    BY <1>1, <1>2, <1>3, SameOnLinux
  <1>4. CASE os = "alone" /\ Alone!Next
    BY <1>1, <1>2, <1>4, SameAlone
  <1>5. CASE os = "together" /\ Together!Next
    BY <1>1, <1>2, <1>5, SameTogether
  <1>6. QED
    BY <1>1, <1>3, <1>4, <1>5 DEF UseNext

\* The places of the handles of a check.
LEMMA Places ==
    ASSUME TypeOK
    PROVE  /\ handles \in Seq(Dir) /\ Len(handles) \in Nat
           /\ DOMAIN handles = 1..Len(handles)
           /\ \A i \in DOMAIN handles : handles[i] \in Dir
           /\ at \in Nat \ {0} /\ at <= Len(handles) + 1
  <1>1. handles \in Seq(Dir)
    BY ListsAssumption, EmptySeq DEF TypeOK
  <1>2. QED
    BY <1>1, LenProperties, ElementOfSeq DEF TypeOK

\* What taking changes leaves.
LEMMA Taken ==
    ASSUME TypeOK, NEW d \in Dir, Linux!Take(d) \/ Together!Take(d)
    PROVE  /\ held' \in [Dir -> 0..MaxHeld]
           /\ held[d] > 0 /\ held'[d] < held[d]
           /\ \A e \in Dir \ {d} : held'[e] = held[e]
  <1>1. PICK n \in 1..MaxTaken : n <= held[d] /\ held' = [held EXCEPT ![d] = @ - n]
    BY DEF Linux!Take, Together!Take
  <1>2. held \in [Dir -> 0..MaxHeld] /\ held[d] \in 0..MaxHeld
    BY DEF TypeOK
  <1>3. held[d] - n \in 0..MaxHeld /\ held[d] > 0 /\ held[d] - n < held[d]
    BY <1>1, <1>2, BoundsAssumption
  <1>4. QED
    BY <1>1, <1>2, <1>3
-----------------------------------------------------------------------------
(* The invariant *)

LEMMA InvClient ==
    ASSUME UseInv, os' = os,
           \/ \E d \in Dir : aven_watch_init(d) \/ aven_watch_deinit(d) \/ Change(d)
           \/ \E list \in Lists, t \in BOOLEAN :
                Call(list, t) /\ (os = "alone" => list \in OneByOne)
    PROVE  UseInv'
  <1> USE DEF UseInv
  <1>1. held \in [Dir -> 0..MaxHeld] /\ 0 \in 0..MaxHeld
    BY BoundsAssumption DEF TypeOK
  <1>2. ASSUME NEW d \in Dir, aven_watch_init(d)
        PROVE  UseInv'
    BY <1>1, <1>2 DEF aven_watch_init, check, TypeOK
  <1>3. ASSUME NEW d \in Dir, aven_watch_deinit(d)
        PROVE  UseInv'
    BY <1>1, <1>3 DEF aven_watch_deinit, check, TypeOK
  <1>4. ASSUME NEW d \in Dir, Change(d)
        PROVE  UseInv'
    <2>1. PICK n \in 1..MaxHeld : held' = [held EXCEPT ![d] = n]
      BY <1>4 DEF Change, Changed
    <2>2. held' \in [Dir -> 0..MaxHeld] /\ \A e \in Dir \ {d} : held'[e] = held[e]
      BY <1>1, <2>1, BoundsAssumption
    <2>3. d \in open /\ UNCHANGED <<open, pc, handles, timeout, at, found, signaled, error>>
      BY <1>4 DEF Change, check
    <2>4. QED
      BY <1>1, <2>2, <2>3 DEF TypeOK
  <1>5. ASSUME NEW list \in Lists, NEW t \in BOOLEAN, Call(list, t),
               os = "alone" => list \in OneByOne
        PROVE  UseInv'
    <2>1. 1 \in 1..(Len(list) + 1)
      BY ListsAssumption, LenProperties
    <2>2. QED
      BY <1>1, <1>5, <2>1 DEF Call, TypeOK
  <1>6. QED
    BY <1>2, <1>3, <1>4, <1>5

\* A check that returns, with or without an error, leaves what it found.
LEMMA InvReturn ==
    ASSUME UseInv, os' = os, pc' = "IDLE", signaled' \in {signaled, {}},
           UNCHANGED <<open, held, handles, timeout, at, found>>, error' \in BOOLEAN
    PROVE  UseInv'
  BY DEF UseInv, TypeOK

LEMMA InvLinux ==
    ASSUME UseInv, os' = os, os = "linux", Linux!Check
    PROVE  UseInv'
  <1>1. TypeOK
    BY DEF UseInv
  <1>2. CASE Linux!Poll
    BY <1>2 DEF Linux!Poll, Linux!Ready, UseInv, TypeOK
  <1>3. CASE Linux!Skip \/ Linux!Read
    <2>1. at \in 1..Len(handles) /\ at + 1 \in 1..(Len(handles) + 1)
      BY <1>1, <1>3, Places DEF Linux!Skip, Linux!Read, Linux!More
    <2>2. CASE Linux!Skip
      BY <2>1, <2>2 DEF Linux!Skip, UseInv, TypeOK
    <2>3. CASE Linux!Read
      <3>1. /\ at \in DOMAIN handles /\ Linux!Take(handles[at]) /\ handles[at] \in Dir
            /\ signaled' = signaled \cup {at} /\ at' = at + 1 /\ pc = "READ"
            /\ UNCHANGED <<open, pc, handles, timeout, found, error>>
        BY <1>1, <2>1, <2>3, Places DEF Linux!Read, Linux!Signaled
      <3>2. /\ held' \in [Dir -> 0..MaxHeld]
            /\ held[handles[at]] > 0
            /\ \A e \in Dir \ {handles[at]} : held'[e] = held[e]
        BY <1>1, <3>1, Taken
      <3>3. handles[at] \in open
        BY <3>1, <3>2 DEF UseInv
      <3>4. QED
        BY <2>1, <3>1, <3>2, <3>3 DEF UseInv, TypeOK
    <2>4. QED
      BY <1>3, <2>2, <2>3
  <1>4. CASE Linux!PollTimesOut \/ Linux!PollFails \/ Linux!ReadFails \/ Linux!Finish
    BY <1>1, <1>4, InvReturn DEF Linux!PollTimesOut, Linux!PollFails, Linux!ReadFails,
       Linux!Finish, Linux!Return, Linux!ReturnError, TypeOK
  <1>5. QED
    BY <1>2, <1>3, <1>4 DEF Linux!Check, Linux!Advance

LEMMA InvWindows ==
    ASSUME UseInv, os' = os, Together!Check
    PROVE  UseInv'
  <1>1. TypeOK
    BY DEF UseInv
  <1>2. CASE Together!Wait
    <2>1. PICK i \in Together!Hits :
            /\ pc' = "NEXT" /\ found' = {i} /\ timeout' = TRUE
            /\ signaled' = signaled \cup {Together!Bit(i)}
            /\ UNCHANGED <<open, held, handles, at, error>>
      BY <1>2 DEF Together!Wait
    <2>2. i \in at..Len(handles)
      BY <2>1 DEF Together!Hits, Together!Rest
    <2>3. i \in 1..Len(handles) /\ i - at + 1 \in 1..Len(handles)
      BY <1>1, <2>2, Places
    <2>4. i \in DOMAIN handles /\ Together!Bit(i) \in DOMAIN handles
      BY <1>1, <2>3, Places DEF Together!Bit
    <2>5. QED
      BY <2>1, <2>4 DEF UseInv, TypeOK
  <1>3. CASE Together!Rearm
    <2>1. PICK i \in found :
            /\ Together!Take(handles[i]) /\ at' = i + 1 /\ pc' \in {"IDLE", "WAIT"}
            /\ UNCHANGED <<open, handles, timeout, found, signaled, error>>
      BY <1>3 DEF Together!Rearm, Together!After
    <2>2. i \in DOMAIN handles /\ handles[i] \in Dir
      BY <1>1, <2>1, Places DEF TypeOK
    <2>3. i + 1 \in 1..(Len(handles) + 1)
      BY <1>1, <2>2, Places
    <2>4. /\ held' \in [Dir -> 0..MaxHeld]
          /\ held[handles[i]] > 0
          /\ \A e \in Dir \ {handles[i]} : held'[e] = held[e]
      BY <1>1, <2>1, <2>2, Taken
    <2>5. handles[i] \in open
      BY <2>2, <2>4 DEF UseInv
    <2>6. QED
      BY <2>1, <2>3, <2>4, <2>5 DEF UseInv, TypeOK
  <1>4. CASE \/ Together!WaitTimesOut \/ Together!WaitRefused
             \/ Together!WaitFails \/ Together!RearmFails
    BY <1>1, <1>4, InvReturn DEF Together!WaitTimesOut, Together!WaitRefused,
       Together!WaitFails, Together!RearmFails, Together!Return, Together!ReturnError, TypeOK
  <1>5. QED
    BY <1>2, <1>3, <1>4 DEF Together!Check, Together!Advance

LEMMA InitUseInv == UseInit => UseInv
  <1> SUFFICES ASSUME UseInit PROVE UseInv
    OBVIOUS
  <1>1. Len(<<>>) = 0 /\ 0 \in 0..MaxHeld /\ 1 \in 1..(0 + 1)
    BY EmptySeq, BoundsAssumption
  <1>2. QED
    BY <1>1 DEF UseInit, Init, UseInv, TypeOK

LEMMA NextUseInv == UseInv /\ [UseNext]_<<vars, os>> => UseInv'
  <1> SUFFICES ASSUME UseInv, [UseNext]_<<vars, os>> PROVE UseInv'
    OBVIOUS
  <1>1. CASE UNCHANGED vars
    BY <1>1, Steps DEF vars, UseInv, TypeOK
  <1>2. QED
    BY <1>1, Steps, InvClient, InvLinux, InvWindows

THEOREM UseInvariant == UseSafety => []UseInv
  BY InitUseInv, NextUseInv, PTL DEF UseSafety

\* Every variable of the watch keeps its type: in particular the loop of a check
\* never leaves its list, and the bits of a result stand for handles of it.
THEOREM WatchTypes == UseSafety => []TypeOK
  <1>1. UseInv => TypeOK
    BY DEF UseInv
  <1>2. QED
    BY <1>1, UseInvariant, PTL
-----------------------------------------------------------------------------
(* What a check takes, it tells *)

\* What each step of a check on Linux does to what the client is told.
LEMMA LinuxTells ==
    ASSUME UseInv, os = "linux", Linux!Check
    PROVE  /\ pc # "IDLE" /\ UNCHANGED <<open, handles>>
           /\ \/ /\ pc' # "IDLE" /\ UNCHANGED <<held, signaled, error>>
              \/ /\ pc' # "IDLE" /\ UNCHANGED error
                 /\ \E i \in DOMAIN handles :
                        /\ Linux!Take(handles[i])
                        /\ signaled' = signaled \cup {i}
              \/ pc' = "IDLE" /\ UNCHANGED <<held, signaled, error>>
              \/ pc' = "IDLE" /\ UNCHANGED held /\ signaled' = {} /\ error'
  <1>1. CASE Linux!Poll \/ Linux!Skip
    BY <1>1 DEF Linux!Poll, Linux!Skip
  <1>2. CASE Linux!Read
    <2>1. at \in DOMAIN handles
      BY <1>2, Places DEF Linux!Read, Linux!More, UseInv
    <2>2. QED
      BY <1>2, <2>1 DEF Linux!Read, Linux!Signaled
  <1>3. CASE Linux!PollTimesOut \/ Linux!Finish
    BY <1>3 DEF Linux!PollTimesOut, Linux!Finish, Linux!Return
  <1>4. CASE Linux!PollFails \/ Linux!ReadFails
    BY <1>4 DEF Linux!PollFails, Linux!ReadFails, Linux!ReturnError
  <1>5. QED
    BY <1>1, <1>2, <1>3, <1>4 DEF Linux!Check, Linux!Advance

\* The same for a check on Windows.
LEMMA WindowsTells ==
    ASSUME UseInv, Together!Check
    PROVE  /\ pc # "IDLE" /\ UNCHANGED <<open, handles>>
           /\ \/ /\ pc' # "IDLE" /\ UNCHANGED <<held, error>>
                 /\ \E i \in Together!Hits : signaled' = signaled \cup {Together!Bit(i)}
              \/ /\ pc = "NEXT" /\ UNCHANGED <<signaled, error>>
                 /\ pc' = IF at' > Len(handles) THEN "IDLE" ELSE "WAIT"
                 /\ \E i \in DOMAIN handles : Together!Take(handles[i]) /\ at' = i + 1
              \/ pc' = "IDLE" /\ UNCHANGED <<held, signaled, error>>
              \/ pc' = "IDLE" /\ UNCHANGED held /\ signaled' = {} /\ error'
  <1>1. CASE Together!Wait
    BY <1>1 DEF Together!Wait, Together!Waits
  <1>2. CASE Together!Rearm
    BY <1>2 DEF Together!Rearm, Together!After, UseInv, TypeOK
  <1>3. CASE Together!WaitTimesOut
    BY <1>3 DEF Together!WaitTimesOut, Together!Waits, Together!Return
  <1>4. CASE Together!WaitRefused \/ Together!WaitFails \/ Together!RearmFails
    BY <1>4 DEF Together!WaitRefused, Together!WaitFails, Together!RearmFails,
       Together!ReturnError
  <1>5. QED
    BY <1>1, <1>2, <1>3, <1>4 DEF Together!Check, Together!Advance

\* A check that takes a change reports that there was one.
THEOREM TakenIsTold == UseSafety => WakesClient
  <1>1. ASSUME UseInv, [UseNext]_<<vars, os>>
        PROVE  [(\E d \in Dir : held'[d] < held[d]) /\ pc # "IDLE" => signaled' # {}]_vars
    <2> SUFFICES ASSUME NEW d \in Dir, held'[d] < held[d], pc # "IDLE", ~ UNCHANGED vars
                 PROVE  signaled' # {}
      OBVIOUS
    <2>1. TypeOK /\ held[d] \in Int /\ ~ (held[d] < held[d])
      BY <1>1, BoundsAssumption DEF UseInv, TypeOK
    <2>2. ~ UNCHANGED held
      BY <2>1
    <2>3. ASSUME NEW e \in Dir
          PROVE  ~ Change(e)
      <3> SUFFICES ASSUME Change(e) PROVE FALSE
        OBVIOUS
      <3>1. PICK n \in {held[e] + 1, held[e]} : held' = [held EXCEPT ![e] = n]
        BY DEF Change, Changed
      <3>2. held \in [Dir -> 0..MaxHeld]
        BY <2>1 DEF TypeOK
      <3>3. held'[d] = held[d] \/ held'[d] = held[d] + 1
        BY <3>1, <3>2
      <3>4. QED
        BY <2>1, <3>3
    <2>4. \/ os = "linux" /\ Linux!Check
          \/ Together!Check
      BY <1>1, <2>2, <2>3, Steps DEF aven_watch_init, aven_watch_deinit, Call
    <2>5. CASE os = "linux" /\ Linux!Check
      BY <1>1, <2>2, <2>5, LinuxTells
    <2>6. CASE Together!Check
      BY <1>1, <2>2, <2>6, WindowsTells DEF UseInv
    <2>7. QED
      BY <2>4, <2>5, <2>6
  <1>2. UseInv /\ [UseNext]_<<vars, os>> =>
            [(\E d \in Dir : held'[d] < held[d]) /\ pc # "IDLE" => signaled' # {}]_vars
    BY <1>1
  <1>3. QED
    BY <1>2, UseInvariant, PTL DEF UseSafety, WakesClient
-----------------------------------------------------------------------------
(* The promise *)

Promised == <<Watched, ToTell, Named, Failed>>

\* The promise reads the handles that are open, the changes not told, the
\* directories named and the error.
LEMMA Reads ==
    ASSUME os' = os, os # "together"
    PROVE  /\ Watched = open /\ Watched' = open'
           /\ ToTell = Unseen /\ ToTell' = Unseen'
           /\ Named = IF pc = "IDLE" THEN Told ELSE {}
           /\ Named' = IF pc' = "IDLE" THEN Told' ELSE {}
           /\ Failed = (TRUE /\ error) /\ Failed' = (TRUE /\ error')
  BY DEF Watched, ToTell, Named, Failed

LEMMA PromiseClient ==
    ASSUME UseInv, os' = os, os # "together",
           \/ \E d \in Dir : aven_watch_init(d) \/ aven_watch_deinit(d) \/ Change(d)
           \/ \E list \in Lists, t \in BOOLEAN : Call(list, t)
    PROVE  Kept!Next \/ UNCHANGED Promised
  <1>1. TypeOK /\ held \in [Dir -> 0..MaxHeld] /\ \A d \in Dir : held[d] \in Int
    BY BoundsAssumption DEF UseInv, TypeOK
  <1>2. ASSUME NEW d \in Dir, aven_watch_init(d)
        PROVE  Kept!Watch(d) \/ UNCHANGED Promised
    <2>1. UNCHANGED <<held, pc, handles, signaled, error>> /\ pc = "IDLE" /\ d \notin open
      BY <1>2 DEF aven_watch_init, check
    <2>2. UNCHANGED <<Named, Failed>>
      BY <2>1, Reads DEF Told
    <2>3. open' = open \/ open' = open \cup {d}
      BY <1>2 DEF aven_watch_init
    <2>4. Unseen' = Unseen
      BY <2>1, <2>3 DEF Unseen, UseInv
    <2>5. QED
      BY <2>2, <2>3, <2>4, Reads DEF Kept!Watch, Promised
  <1>3. ASSUME NEW d \in Dir, aven_watch_deinit(d)
        PROVE  Kept!Unwatch(d)
    <2>1. /\ UNCHANGED <<pc, handles, signaled, error>> /\ pc = "IDLE"
          /\ open' = open \ {d} /\ held' = [held EXCEPT ![d] = 0]
      BY <1>3 DEF aven_watch_deinit, check
    <2>2. UNCHANGED <<Named, Failed>>
      BY <2>1, Reads DEF Told
    <2>3. \A e \in Dir \ {d} : held'[e] = held[e]
      BY <1>1, <2>1
    <2>4. Unseen' = Unseen \ {d}
      BY <1>1, <2>1, <2>3 DEF Unseen, TypeOK
    <2>5. QED
      BY <2>1, <2>2, <2>4, Reads DEF Kept!Unwatch
  <1>4. ASSUME NEW d \in Dir, Change(d)
        PROVE  Kept!Change(d)
    <2>1. PICK n \in 1..MaxHeld : held' = [held EXCEPT ![d] = n]
      BY <1>4 DEF Change, Changed
    <2>2. d \in open /\ UNCHANGED <<open, pc, handles, signaled, error>>
      BY <1>4 DEF Change, check
    <2>3. held'[d] > 0 /\ \A e \in Dir \ {d} : held'[e] = held[e]
      BY <1>1, <2>1, BoundsAssumption
    <2>4. UNCHANGED <<Watched, Named, Failed>>
      BY <2>2, Reads DEF Told
    <2>5. Told' = Told
      BY <2>2 DEF Told
    <2>6. Unseen' = Unseen \cup {d}
      BY <1>1, <2>2, <2>3, <2>5 DEF Unseen, TypeOK
    <2>7. QED
      BY <2>2, <2>4, <2>6, Reads DEF Kept!Change
  <1>5. ASSUME NEW list \in Lists, NEW t \in BOOLEAN, Call(list, t)
        PROVE  Kept!Ask
    <2>1. /\ pc = "IDLE" /\ pc' = "WAIT" /\ signaled' = {} /\ error' = FALSE
          /\ UNCHANGED <<open, held>>
      BY <1>5 DEF Call
    <2>2. Unseen' = Unseen
      BY <2>1 DEF Unseen, Told
    <2>3. UNCHANGED <<Watched, ToTell>> /\ Named' = {} /\ Failed' = FALSE
      BY <2>1, <2>2, Reads
    <2>4. QED
      BY <2>3 DEF Kept!Ask
  <1>6. QED
    BY <1>2, <1>3, <1>4, <1>5 DEF Kept!Next

\* The three things a step of a check may do: go on, return, or fail.
LEMMA PromiseCheck ==
    ASSUME UseInv, os' = os, os # "together", pc # "IDLE", UNCHANGED <<open, handles>>,
           \/ pc' # "IDLE" /\ UNCHANGED error /\ Unseen' = Unseen
           \/ /\ pc' = "IDLE" /\ UNCHANGED <<error, signaled>>
              /\ Unseen \ Told \subseteq Unseen' /\ Unseen' \subseteq Unseen
           \/ pc' = "IDLE" /\ UNCHANGED held /\ signaled' = {} /\ error'
    PROVE  Kept!Next \/ UNCHANGED Promised
  <1>1. UNCHANGED Watched /\ Named = {}
    BY Reads
  <1>2. CASE pc' # "IDLE" /\ UNCHANGED error /\ Unseen' = Unseen
    BY <1>1, <1>2, Reads DEF Promised
  <1>3. CASE /\ pc' = "IDLE" /\ UNCHANGED <<error, signaled>>
             /\ Unseen \ Told \subseteq Unseen' /\ Unseen' \subseteq Unseen
    <2>1. Told \subseteq Unseen /\ Told' = Told
      BY <1>3 DEF Unseen, Told
    <2>2. Told \in SUBSET Dir
      BY Places DEF Told, UseInv, TypeOK
    <2>3. Kept!Tell(Told)
      BY <1>1, <1>3, <2>1, Reads DEF Kept!Tell
    <2>4. QED
      BY <2>2, <2>3 DEF Kept!Next
  <1>4. CASE pc' = "IDLE" /\ UNCHANGED held /\ signaled' = {} /\ error'
    <2>1. Told' = {} /\ Unseen' \subseteq Unseen
      BY <1>4 DEF Told, Unseen
    <2>2. Failed' = TRUE
      BY <1>4, Reads
    <2>3. Kept!Fail
      BY <1>1, <1>4, <2>1, <2>2, Reads DEF Kept!Fail
    <2>4. QED
      BY <2>3 DEF Kept!Next
  <1>5. QED
    BY <1>2, <1>3, <1>4
LEMMA PromiseLinux ==
    ASSUME UseInv, os' = os, os = "linux", Linux!Check
    PROVE  Kept!Next \/ UNCHANGED Promised
  <1>1. pc # "IDLE" /\ UNCHANGED <<open, handles>> /\ TypeOK
    BY LinuxTells DEF UseInv
  <1>2. CASE pc' # "IDLE" /\ UNCHANGED <<held, signaled, error>>
    <2>1. Unseen' = Unseen
      BY <1>1, <1>2 DEF Unseen, Told
    <2>2. QED
      BY <1>1, <1>2, <2>1, PromiseCheck
  <1>3. ASSUME pc' # "IDLE", UNCHANGED error, NEW i \in DOMAIN handles,
               Linux!Take(handles[i]), signaled' = signaled \cup {i}
        PROVE  Kept!Next \/ UNCHANGED Promised
    <2> DEFINE h == handles[i]
    <2>1. h \in Dir
      BY <1>1, Places
    <2>2. held[h] > 0 /\ \A e \in Dir \ {h} : held'[e] = held[e]
      BY <1>1, <1>3, <2>1, Taken
    <2>3. Told' = Told \cup {h}
      BY <1>1, <1>3 DEF Told
    <2> HIDE DEF h
    <2>4. h \in open /\ open \subseteq Dir
      BY <1>1, <2>1, <2>2 DEF UseInv, TypeOK
    <2>5. Unseen' = Unseen
      BY <1>1, <1>3, <2>2, <2>3, <2>4 DEF Unseen
    <2>6. QED
      BY <1>1, <1>3, <2>5, PromiseCheck
  <1>4. CASE pc' = "IDLE" /\ UNCHANGED <<held, signaled, error>>
    <2>1. Unseen \ Told \subseteq Unseen' /\ Unseen' \subseteq Unseen
      BY <1>1, <1>4 DEF Unseen
    <2>2. QED
      BY <1>1, <1>4, <2>1, PromiseCheck
  <1>5. CASE pc' = "IDLE" /\ UNCHANGED held /\ signaled' = {} /\ error'
    BY <1>1, <1>5, PromiseCheck
  <1>6. QED
    BY <1>2, <1>3, <1>4, <1>5, LinuxTells

\* With one handle on Windows the first wait finds it and the check is over.
LEMMA PromiseAlone ==
    ASSUME UseInv, os' = os, os = "alone", Together!Check
    PROVE  Kept!Next \/ UNCHANGED Promised
  <1>1. pc # "IDLE" /\ UNCHANGED <<open, handles>> /\ TypeOK
    BY WindowsTells DEF UseInv
  <1>2. Len(handles) <= 1 /\ DOMAIN handles \subseteq {1} /\ at \in Nat \ {0}
    <2>1. handles \in OneByOne \cup {<<>>}
      BY DEF UseInv
    <2>2. Len(handles) <= 1
      <3>1. Len(<<>>) = 0 /\ \A d : Len(<<d>>) = 1
        OBVIOUS
      <3>2. handles = <<>> \/ \E d \in Dir : handles = <<d>>
        BY <2>1 DEF OneByOne
      <3>3. Len(handles) \in 0..1
        BY <3>1, <3>2
      <3>4. \A n \in 0..1 : n <= 1
        OBVIOUS
      <3>5. QED
        BY <3>3, <3>4
    <2>3. QED
      BY <1>1, <2>2, Places
  <1>3. ASSUME pc' # "IDLE", UNCHANGED <<held, error>>, NEW i \in Together!Hits,
               signaled' = signaled \cup {Together!Bit(i)}
        PROVE  Kept!Next \/ UNCHANGED Promised
    <2>1. i \in at..Len(handles)
      BY DEF Together!Hits, Together!Rest
    <2>2. i = 1 /\ i - at + 1 = 1 /\ Len(handles) \in Nat
      BY <1>1, <1>2, <2>1, Places
    <2>3. Told' = Told \cup {handles[1]}
      BY <1>1, <1>3, <2>2 DEF Told, Together!Bit
    <2>4. handles[1] \in open /\ held[handles[1]] > 0
      BY <2>2 DEF Together!Hits, Together!Holds
    <2>5. Unseen' = Unseen
      BY <1>1, <1>3, <2>3, <2>4 DEF Unseen
    <2>6. QED
      BY <1>1, <1>3, <2>5, PromiseCheck
  <1>4. ASSUME pc = "NEXT", UNCHANGED <<signaled, error>>, NEW i \in DOMAIN handles,
               pc' = IF at' > Len(handles) THEN "IDLE" ELSE "WAIT",
               Together!Take(handles[i]), at' = i + 1
        PROVE  Kept!Next \/ UNCHANGED Promised
    <2> DEFINE h == handles[i]
    <2>1. i = 1 /\ h \in Dir
      BY <1>1, <1>2, Places
    <2>2. pc' = "IDLE"
      <3>1. Len(handles) \in Nat /\ Len(handles) <= 1 /\ at' = 2
        BY <1>1, <1>2, <1>4, <2>1, Places
      <3>2. at' > Len(handles)
        BY <3>1
      <3>3. QED
        BY <1>4, <3>2
    <2>3. held[h] > 0 /\ \A e \in Dir \ {h} : held'[e] = held[e]
      BY <1>1, <1>4, <2>1, Taken
    <2>4. Told = {h}
      BY <1>1, <1>2, <1>4, <2>1 DEF Told, UseInv, TypeOK
    <2> HIDE DEF h
    <2>5. h \in open /\ open \subseteq Dir
      BY <1>1, <2>1, <2>3 DEF UseInv, TypeOK
    <2>6. Unseen \ Told \subseteq Unseen' /\ Unseen' \subseteq Unseen
      BY <1>1, <2>2, <2>3, <2>4, <2>5 DEF Unseen
    <2>7. QED
      BY <1>1, <1>4, <2>2, <2>6, PromiseCheck
  <1>5. CASE pc' = "IDLE" /\ UNCHANGED <<held, signaled, error>>
    <2>1. Unseen \ Told \subseteq Unseen' /\ Unseen' \subseteq Unseen
      BY <1>1, <1>5 DEF Unseen
    <2>2. QED
      BY <1>1, <1>5, <2>1, PromiseCheck
  <1>6. CASE pc' = "IDLE" /\ UNCHANGED held /\ signaled' = {} /\ error'
    BY <1>1, <1>6, PromiseCheck
  <1>7. QED
    BY <1>3, <1>4, <1>5, <1>6, WindowsTells

LEMMA PromiseStep ==
    UseInv /\ [UseNext]_<<vars, os>> => [Kept!Next]_<<Watched, ToTell, Named, Failed>>
  <1> SUFFICES ASSUME UseInv, [UseNext]_<<vars, os>>
               PROVE  Kept!Next \/ UNCHANGED Promised
    BY DEF Promised
  <1>1. os' = os /\ os \in {"linux", "alone", "together"}
    BY Steps DEF UseInv
  <1>2. CASE os = "together"
    BY <1>1, <1>2 DEF Promised, Watched, ToTell, Named, Failed
  <1>3. CASE os # "together" /\ UNCHANGED vars
    <2>1. UNCHANGED <<open, held, pc, handles, signaled, error>>
      BY <1>3 DEF vars
    <2>2. UNCHANGED <<Told, Unseen>>
      BY <2>1 DEF Told, Unseen
    <2>3. QED
      BY <1>1, <1>3, <2>1, <2>2, Reads DEF Promised
  <1>4. CASE os # "together" /\ ~ UNCHANGED vars
    BY <1>1, <1>4, Steps, PromiseClient, PromiseLinux, PromiseAlone
  <1>5. QED
    BY <1>2, <1>3, <1>4

\* What a check of several handles on Linux tells the client, and what a check of
\* one handle does on Windows, is what DirWatch promises.
THEOREM PromiseIsKept == UseSafety => KeepsPromise
  <1>1. UseInit => Kept!Init
    BY DEF UseInit, Init, Kept!Init, Watched, ToTell, Named, Failed, Told, Unseen
  <1>2. QED
    BY <1>1, PromiseStep, UseInvariant, PTL DEF UseSafety, KeepsPromise, Kept!Spec
=============================================================================
