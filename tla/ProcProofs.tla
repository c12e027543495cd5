------------------------------- MODULE ProcProofs -------------------------------
(***************************************************************************)
(* That a careful client of proc.h never strikes or hears of anything but  *)
(* its own jobs, and leaves nothing behind, for any number of jobs and of  *)
(* process ids or handles, on either system.                               *)
(***************************************************************************)
EXTENDS ProcUse, TLAPS

\* What is known of an id that is in use, and of a job that is not released.
IdInv(p) ==
    /\ proc[p].st \in {"free", "live", "orphan", "ok", "err", "sig"}
    /\ proc[p].st = "orphan" => proc[p].cmd \in Others /\ fate[proc[p].cmd] = "live"
    /\ Posix!IsChild(proc, p) =>
        /\ proc[p].cmd \in Own /\ id[proc[p].cmd] = p
        /\ Open(proc[p].cmd) /\ fate[proc[p].cmd] = proc[p].st

JobInv(c) ==
    /\ Open(c) => id[c] \in Pid /\ Posix!IsChild(proc, id[c]) /\ proc[id[c]].cmd = c
    /\ ~ Started(c) => c \notin asked /\ told[c] = "NONE"

ProcInv ==
    /\ proc \in [Pid -> [st : {"free", "live", "orphan", "ok", "err", "sig"},
                         cmd : Own \cup Others \cup {NoCmd}]]
    /\ id \in [Own -> Pid \cup {NoPid}]
    /\ fate \in [Own \cup Others -> {"none", "live", "ok", "err", "sig"}]
    /\ asked \subseteq Own
    /\ told \in [Own -> {"NONE", "OK", "PROCESS", "SIGNAL"}]
    /\ \A p \in Pid : IdInv(p)
    /\ \A c \in Own : JobInv(c)
    /\ \A p, q \in Pid : /\ proc[p].st = "orphan" /\ proc[q].st = "orphan"
                         /\ proc[p].cmd = proc[q].cmd
                         => p = q

USE DEF Cmd, On, Started, Released, Open, Posix!IsChild, Posix!Ended, Windows!P!Ended,
        Posix!Free, Windows!P!Free, J!Ended

LEMMA InitInv == Init => ProcInv
BY DEF Init, J!Init, ProcInv, IdInv, JobInv

LEMMA CmdOutcome ==
    ASSUME NEW table, NEW c, NEW r \in Posix!aven_proc_cmd(table, c)
    PROVE  IF r.err = "OK"
           THEN /\ r.pid \in Pid /\ table[r.pid].st = "free"
                /\ r.proc = [table EXCEPT ![r.pid] = [st |-> "live", cmd |-> c]]
           ELSE r.proc = table /\ r.pid = NoPid
BY DEF Posix!aven_proc_cmd

\* Each action keeps the invariant and is a step of Jobs, or none.
LEMMA StartStep ==
    ASSUME ProcInv, NEW c \in Own, Start(c)
    PROVE  ProcInv' /\ (J!Start(c) \/ UNCHANGED <<fate, asked, told>>)
<1>1. PICK r \in Posix!aven_proc_cmd(proc, c) :
        /\ proc' = r.proc /\ id' = [id EXCEPT ![c] = r.pid]
        /\ fate' = IF r.err = "OK" THEN [fate EXCEPT ![c] = "live"] ELSE fate
  BY DEF Start, Windows!aven_proc_cmd, Posix!aven_proc_cmd, Windows!P!aven_proc_cmd
<1>2. fate[c] = "none" /\ UNCHANGED <<os, asked, told>>
  BY DEF Start
<1>3. CASE r.err = "OK"
  <2> DEFINE p == r.pid
  <2>1. /\ p \in Pid /\ proc[p].st = "free"
        /\ r.proc = [proc EXCEPT ![p] = [st |-> "live", cmd |-> c]]
    BY <1>3, CmdOutcome
  <2>2. /\ proc' = [proc EXCEPT ![p] = [st |-> "live", cmd |-> c]]
        /\ id' = [id EXCEPT ![c] = p] /\ fate' = [fate EXCEPT ![c] = "live"]
    BY <1>1, <1>3, <2>1
  <2> HIDE DEF p
  <2>3. ProcInv'
    BY <1>2, <2>1, <2>2, JobsApart DEF ProcInv, IdInv, JobInv
  <2> QED  BY <1>2, <2>2, <2>3 DEF J!Start
<1>4. CASE r.err # "OK"
  <2>1. proc' = proc /\ fate' = fate /\ id' = [id EXCEPT ![c] = NoPid]
    BY <1>1, <1>4, CmdOutcome
  <2> QED  BY <1>2, <2>1 DEF ProcInv, IdInv, JobInv
<1> QED  BY <1>3, <1>4

LEMMA EndsStep ==
    ASSUME ProcInv, NEW p \in Pid, NEW st \in {"ok", "err"}, Ends(p, st)
    PROVE  ProcInv' /\ \E c \in Own \cup Others : J!End(c)
<1>1. /\ proc[p].st = "live" /\ proc[p].cmd \in Own /\ fate[proc[p].cmd] = "live"
      /\ proc' = [proc EXCEPT ![p].st = st] /\ fate' = [fate EXCEPT ![proc[p].cmd] = st]
      /\ UNCHANGED <<os, id, asked, told>>
  BY DEF Ends, ProcInv, IdInv
<1>2. ProcInv'
  BY SMTT(30), <1>1, JobsApart DEF ProcInv, IdInv, JobInv
<1> QED  BY <1>1, <1>2 DEF J!End

LEMMA OtherStartsStep ==
    ASSUME ProcInv, NEW p \in Pid, NEW c \in Others, OtherStarts(c, p)
    PROVE  ProcInv' /\ J!Start(c)
<1>1. ProcInv'
  BY JobsApart DEF OtherStarts, ProcInv, IdInv, JobInv
<1> QED  BY <1>1 DEF OtherStarts, J!Start

LEMMA OtherEndsStep ==
    ASSUME ProcInv, NEW p \in Pid, NEW st \in {"ok", "err"}, OtherEnds(p, st)
    PROVE  ProcInv' /\ \E c \in Own \cup Others : J!End(c)
<1>1. /\ proc[p].st = "orphan" /\ proc[p].cmd \in Others /\ fate[proc[p].cmd] = "live"
      /\ proc' = [proc EXCEPT ![p] = [st |-> "free", cmd |-> NoCmd]]
      /\ fate' = [fate EXCEPT ![proc[p].cmd] = st]
      /\ UNCHANGED <<os, id, asked, told>>
  BY DEF OtherEnds, ProcInv, IdInv
<1>2. ProcInv'
  BY <1>1, JobsApart DEF ProcInv, IdInv, JobInv
<1> QED  BY <1>1, <1>2 DEF J!End

\* What a wait for an open job does: it fails, or finds the job ended.
LEMMA WaitOutcome ==
    ASSUME ProcInv, NEW c \in Own, Wait(c)
    PROVE  /\ Open(c) /\ UNCHANGED <<os, id, fate, asked>>
           /\ \/ UNCHANGED <<proc, told>>
              \/ /\ proc[id[c]].st \in {"ok", "err", "sig"} /\ id[c] \in Pid
                 /\ \E e \in {"OK", "PROCESS", "SIGNAL"} :
                        /\ told' = [told EXCEPT ![c] = e]
                        /\ proc[id[c]].st = "ok" <=> e = "OK"
                        /\ proc[id[c]].st = "err" => e = "PROCESS"
                 /\ proc' = IF os = "posix"
                            THEN [proc EXCEPT ![id[c]] = [st |-> "free", cmd |-> NoCmd]]
                            ELSE proc
<1>1. Open(c) /\ UNCHANGED <<os, id, fate, asked>>
  BY DEF Wait
<1>2. /\ id[c] \in Pid /\ id[c] # NoPid /\ proc[id[c]].st # "free"
      /\ proc[id[c]].st \in {"live", "ok", "err", "sig"}
  BY <1>1, JobsApart DEF ProcInv, JobInv
<1>3. CASE os = "posix"
  <2>1. PICK r \in Posix!aven_proc_wait(proc, id[c]) :
            /\ proc' = r.proc
            /\ told' = IF r.err = "WAIT" THEN told ELSE [told EXCEPT ![c] = r.err]
    BY <1>3 DEF Wait
  <2>2. \/ r = [proc |-> proc, err |-> "WAIT"]
        \/ /\ proc[id[c]].st \in {"ok", "err", "sig"}
           /\ r = [proc |-> [proc EXCEPT ![id[c]] = [st |-> "free", cmd |-> NoCmd]],
                   err |-> Posix!Status(proc[id[c]].st)]
    BY <1>2 DEF Posix!aven_proc_wait, Posix!Target, Posix!Children
  <2>3. CASE r = [proc |-> proc, err |-> "WAIT"]
    <3>1. UNCHANGED <<proc, told>>
      BY <2>1, <2>3
    <3> QED  BY <1>1, <3>1
  <2>4. CASE /\ proc[id[c]].st \in {"ok", "err", "sig"}
             /\ r = [proc |-> [proc EXCEPT ![id[c]] = [st |-> "free", cmd |-> NoCmd]],
                     err |-> Posix!Status(proc[id[c]].st)]
    <3> DEFINE e == Posix!Status(proc[id[c]].st)
    <3>1. /\ e \in {"OK", "PROCESS", "SIGNAL"}
          /\ proc[id[c]].st = "ok" <=> e = "OK"
          /\ proc[id[c]].st = "err" => e = "PROCESS"
      BY <2>4 DEF Posix!Status
    <3>2. r.err = e /\ r.proc = [proc EXCEPT ![id[c]] = [st |-> "free", cmd |-> NoCmd]]
      BY <2>4
    <3> HIDE DEF e
    <3>3. told' = [told EXCEPT ![c] = e]
      BY <2>1, <3>1, <3>2
    <3> QED  BY <1>1, <1>2, <1>3, <2>1, <2>4, <3>1, <3>2, <3>3
  <2> QED  BY <2>2, <2>3, <2>4
<1>4. CASE os # "posix"
  <2>1. PICK r \in Windows!aven_proc_wait(proc, id[c]) :
            /\ proc' = r.proc
            /\ told' = IF r.err = "WAIT" THEN told ELSE [told EXCEPT ![c] = r.err]
    BY <1>4 DEF Wait
  <2>2. /\ proc[id[c]].st \in {"ok", "err", "sig"}
        /\ r = [proc |-> proc,
                err |-> IF proc[id[c]].st = "ok" THEN "OK" ELSE "PROCESS"]
    BY <1>2, <2>1 DEF Windows!aven_proc_wait, Windows!Waited
  <2> QED  BY <1>1, <1>2, <1>4, <2>1, <2>2
<1> QED  BY <1>3, <1>4

LEMMA WaitStep ==
    ASSUME ProcInv, NEW c \in Own, Wait(c)
    PROVE  ProcInv' /\ (J!Tell(c) \/ UNCHANGED <<fate, asked, told>>)
<1>1. Open(c) /\ UNCHANGED <<os, id, fate, asked>>
  BY WaitOutcome
<1>2. CASE UNCHANGED <<proc, told>>
  BY <1>1, <1>2 DEF ProcInv, IdInv, JobInv
<1>3. ASSUME proc[id[c]].st \in {"ok", "err", "sig"}, id[c] \in Pid,
             NEW e \in {"OK", "PROCESS", "SIGNAL"},
             told' = [told EXCEPT ![c] = e],
             proc[id[c]].st = "ok" <=> e = "OK",
             proc[id[c]].st = "err" => e = "PROCESS",
             proc' = IF os = "posix"
                     THEN [proc EXCEPT ![id[c]] = [st |-> "free", cmd |-> NoCmd]]
                     ELSE proc
      PROVE  ProcInv' /\ J!Tell(c)
  <2>1. proc[id[c]].cmd = c /\ fate[c] = proc[id[c]].st
    BY <1>1, <1>3 DEF ProcInv, IdInv, JobInv
  <2>2. J!Tell(c)
    <3>1. told' \in [Own -> {"NONE", "OK", "PROCESS", "SIGNAL"}] /\ told'[c] = e
          /\ \A d \in Own \ {c} : told'[d] = told[d]
      BY <1>3 DEF ProcInv
    <3> QED  BY <1>1, <1>3, <2>1, <3>1 DEF J!Tell
  <2>3. CASE os = "posix"
    <3>1. /\ proc' = [proc EXCEPT ![id[c]] = [st |-> "free", cmd |-> NoCmd]]
          /\ told' = [told EXCEPT ![c] = e]
      BY <1>3, <2>3
    <3> QED  BY <1>1, <1>3, <2>1, <2>2, <2>3, <3>1, JobsApart DEF ProcInv, IdInv, JobInv
  <2>4. CASE os # "posix"
    <3>1. proc' = proc /\ told' = [told EXCEPT ![c] = e]
      BY <1>3, <2>4
    <3> QED  BY <1>1, <1>3, <2>1, <2>2, <2>4, <3>1, JobsApart DEF ProcInv, IdInv, JobInv
  <2> QED  BY <2>2, <2>3, <2>4
<1> QED  BY <1>2, <1>3, WaitOutcome

\* What a kill of an open job does: the job takes the signal, or is not hit.
LEMMA KillOutcome ==
    ASSUME ProcInv, NEW c \in Own, Kill(c)
    PROVE  /\ Open(c) /\ UNCHANGED <<os, id, told>> /\ asked' = asked \cup {c}
           /\ id[c] \in Pid
           /\ \/ fate' = fate /\ (os = "posix" => proc' = proc)
              \/ /\ fate[c] = "live" /\ fate' = [fate EXCEPT ![c] = "sig"]
                 /\ os = "posix" => proc' = [proc EXCEPT ![id[c]].st = "sig"]
           /\ os # "posix" => proc' = [proc EXCEPT ![id[c]] = [st |-> "free", cmd |-> NoCmd]]
<1>1. Open(c) /\ UNCHANGED <<os, id, told>> /\ asked' = asked \cup {c}
  BY DEF Kill
<1>2. /\ id[c] \in Pid /\ proc[id[c]].cmd = c /\ fate[c] = proc[id[c]].st
      /\ proc[id[c]].st \in {"live", "ok", "err", "sig"}
  BY <1>1 DEF ProcInv, IdInv, JobInv
<1>3. ASSUME NEW hit, fate' = [d \in Own \cup Others |-> IF d \in hit THEN "sig" ELSE fate[d]]
      PROVE  /\ hit = {} => fate' = fate
             /\ hit = {c} => fate' = [fate EXCEPT ![c] = "sig"]
  BY <1>3 DEF ProcInv
<1>4. CASE os = "posix"
  <2>1. PICK r \in Posix!aven_proc_kill(proc, id[c]) :
            /\ proc' = r.proc
            /\ fate' = [d \in Own \cup Others |-> IF d \in r.hit THEN "sig" ELSE fate[d]]
    BY <1>4 DEF Kill
  <2>2. \/ r.proc = proc /\ r.hit = {}
        \/ /\ proc[id[c]].st = "live" /\ r.hit = {c}
           /\ r.proc = [proc EXCEPT ![id[c]].st = "sig"]
    BY <1>2, <2>1 DEF Posix!aven_proc_kill
  <2> QED  BY <1>1, <1>2, <1>3, <1>4, <2>1, <2>2
<1>5. CASE os # "posix"
  <2>1. PICK r \in Windows!aven_proc_kill(proc, id[c]) :
            /\ proc' = r.proc
            /\ fate' = [d \in Own \cup Others |-> IF d \in r.hit THEN "sig" ELSE fate[d]]
    BY <1>5 DEF Kill
  <2>2. /\ r.proc = [proc EXCEPT ![id[c]] = [st |-> "free", cmd |-> NoCmd]]
        /\ \/ r.hit = {}
           \/ proc[id[c]].st = "live" /\ r.hit = {c}
    BY <1>2, <2>1 DEF Windows!aven_proc_kill, Windows!Killed
  <2> QED  BY <1>1, <1>2, <1>3, <1>5, <2>1, <2>2
<1> QED  BY <1>4, <1>5

LEMMA KillStep ==
    ASSUME ProcInv, NEW c \in Own, Kill(c)
    PROVE  ProcInv' /\ J!Kill(c)
<1>1. /\ Open(c) /\ UNCHANGED <<os, id, told>> /\ asked' = asked \cup {c}
      /\ id[c] \in Pid
      /\ \/ fate' = fate /\ (os = "posix" => proc' = proc)
         \/ /\ fate[c] = "live" /\ fate' = [fate EXCEPT ![c] = "sig"]
            /\ os = "posix" => proc' = [proc EXCEPT ![id[c]].st = "sig"]
      /\ os # "posix" => proc' = [proc EXCEPT ![id[c]] = [st |-> "free", cmd |-> NoCmd]]
  BY KillOutcome
<1>2. /\ proc[id[c]].cmd = c /\ fate[c] = proc[id[c]].st
      /\ proc[id[c]].st \in {"live", "ok", "err", "sig"}
  BY <1>1 DEF ProcInv, IdInv, JobInv
<1>3. J!Kill(c)
  BY <1>1 DEF J!Kill
<1>4. /\ id' \in [Own -> Pid \cup {NoPid}] /\ asked' \subseteq Own
      /\ told' \in [Own -> {"NONE", "OK", "PROCESS", "SIGNAL"}]
      /\ fate' \in [Own \cup Others -> {"none", "live", "ok", "err", "sig"}]
  BY <1>1 DEF ProcInv
<1>5. CASE os = "posix"
  <2>1. CASE proc' = proc /\ fate' = fate
    <3>1. \A q \in Pid : IdInv(q)'
      BY <1>1, <1>5, <2>1 DEF ProcInv, IdInv
    <3>2. \A d \in Own : JobInv(d)'
      BY <1>1, <1>5, <2>1 DEF ProcInv, JobInv
    <3> QED  BY <1>3, <1>4, <2>1, <3>1, <3>2 DEF ProcInv
  <2>2. CASE /\ fate[c] = "live" /\ fate' = [fate EXCEPT ![c] = "sig"]
             /\ proc' = [proc EXCEPT ![id[c]].st = "sig"]
    <3> DEFINE p == id[c]
    <3>1. proc' = [proc EXCEPT ![p].st = "sig"] /\ p \in Pid
      BY <1>1, <2>2
    <3>2. \A q \in Pid : IdInv(q)'
      BY <1>1, <1>2, <1>5, <2>2, <3>1, JobsApart DEF ProcInv, IdInv, JobInv
    <3>3. \A d \in Own : JobInv(d)'
      BY <1>1, <1>2, <1>5, <2>2, <3>1, JobsApart DEF ProcInv, IdInv, JobInv
    <3>4. /\ proc' \in [Pid -> [st : {"free", "live", "orphan", "ok", "err", "sig"},
                              cmd : Own \cup Others \cup {NoCmd}]]
          /\ \A q \in Pid : proc'[q].cmd = proc[q].cmd
          /\ \A q \in Pid : proc'[q].st = "orphan" => proc[q].st = "orphan"
      BY <3>1 DEF ProcInv
    <3> QED  BY <1>3, <1>4, <3>2, <3>3, <3>4 DEF ProcInv
  <2> QED  BY <1>1, <1>3, <1>5, <2>1, <2>2
<1>6. CASE os # "posix"
  <2> DEFINE p == id[c]
  <2>1. /\ proc' = [proc EXCEPT ![p] = [st |-> "free", cmd |-> NoCmd]]
        /\ p \in Pid
    BY <1>1, <1>6
  <2>2. \A d \in Own \cup Others : d # c => fate'[d] = fate[d]
    BY <1>1 DEF ProcInv
  <2>3. /\ fate' \in [Own \cup Others -> {"none", "live", "ok", "err", "sig"}]
        /\ fate'[c] # "none"
    BY <1>1 DEF ProcInv
  <2>4. \A q \in Pid : IdInv(q)'
    BY <1>1, <1>2, <1>6, <2>1, <2>2, JobsApart DEF ProcInv, IdInv, JobInv
  <2>5. \A d \in Own : JobInv(d)'
    BY <1>1, <1>2, <1>6, <2>1, <2>2, <2>3, JobsApart DEF ProcInv, IdInv, JobInv
  <2> QED  BY <1>1, <1>3, <2>1, <2>3, <2>4, <2>5 DEF ProcInv
<1> QED  BY <1>5, <1>6

LEMMA NextStep ==
    ASSUME ProcInv, [Next]_vars
    PROVE  ProcInv' /\ [J!Next]_<<fate, asked, told>>
<1>1. ASSUME NEW c \in Own, Start(c) \/ Wait(c) \/ Kill(c)
      PROVE  ProcInv' /\ [J!Next]_<<fate, asked, told>>
  BY <1>1, StartStep, WaitStep, KillStep DEF J!Next
<1>2. ASSUME NEW p \in Pid, NEW st \in {"ok", "err"}, Ends(p, st) \/ OtherEnds(p, st)
      PROVE  ProcInv' /\ [J!Next]_<<fate, asked, told>>
  BY <1>2, EndsStep, OtherEndsStep DEF J!Next
<1>3. ASSUME NEW p \in Pid, NEW c \in Others, OtherStarts(c, p)
      PROVE  ProcInv' /\ [J!Next]_<<fate, asked, told>>
  BY <1>3, OtherStartsStep DEF J!Next
<1>4. CASE UNCHANGED vars
  BY <1>4 DEF vars, ProcInv, IdInv, JobInv
<1> QED  BY <1>1, <1>2, <1>3, <1>4 DEF Next

\* For any jobs, ids and faults, on POSIX and on Windows: what the client kills
\* and hears of is what it asked for, although ids are handed out again.
THEOREM JobsImplemented == Spec => ImplementsJobs
<1>1. Init => ProcInv /\ J!Init
  BY InitInv DEF Init
<1>2. ProcInv /\ [Next]_vars => ProcInv' /\ [J!Next]_<<fate, asked, told>>
  BY NextStep
<1> QED  BY <1>1, <1>2, PTL DEF Spec, ImplementsJobs, J!Spec

\* No process that has ended and no handle is left of a job that is released.
THEOREM NothingKept == Spec => []KeepsNothing
<1>1. Init => ProcInv
  BY InitInv
<1>2. ProcInv /\ [Next]_vars => ProcInv'
  BY NextStep
<1>3. ProcInv => KeepsNothing
  BY DEF ProcInv, IdInv, KeepsNothing
<1> QED  BY <1>1, <1>2, <1>3, PTL DEF Spec
=============================================================================
