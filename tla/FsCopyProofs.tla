------------------------------ MODULE FsCopyProofs ------------------------------
(***************************************************************************)
(* That the copy made call by call is the copy Fs makes in one step, which *)
(* the model of the build engine uses, for all paths and contents, however *)
(* the calls of the system fall short or fail.                             *)
(***************************************************************************)
EXTENDS FsCopy, SequenceTheorems, TLAPS

\* The output is made once, over what was there when the copy was called, and
\* from then on the input is what it was then.
CopyInv ==
    /\ kind \in F!FsType /\ before \in F!FsType
    /\ fds \in Int /\ held \in Int
    /\ pc \in {"IDLE", "OPENI", "OPENO", "READ", "WRITE"}
    /\ pc # "IDLE" => ipath \in Path /\ opath \in Path
    /\ pc = "OPENI" => kind = before /\ fds = held
    /\ pc = "OPENO" => kind = before /\ kind[ipath] # "none" /\ fds = held + 1
    /\ pc \in {"READ", "WRITE"} =>
        /\ F!CanCreate(before, opath) /\ kind = F!Put(before, opath, "file")
        /\ before[ipath] # "none" /\ kind[ipath] = before[ipath]
        /\ fds = held + 2
    /\ pc = "WRITE" => kind[ipath] = "file"

LEMMA InitInv == Init => CopyInv
BY DEF Init, CopyInv

LEMMA CallKeepsInv ==
    ASSUME CopyInv, NEW i \in Path, NEW o \in Path, Call(i, o)
    PROVE  CopyInv'
BY DEF CopyInv, Call, files

LEMMA ReturnKeepsInv ==
    ASSUME CopyInv, NEW e, Return(e), fds' \in Int
    PROVE  CopyInv'
BY DEF CopyInv, Return, files

LEMMA CopyingKeepsInv ==
    ASSUME CopyInv, Copying
    PROVE  CopyInv'
<1>1. CASE OpenInput
  BY <1>1 DEF CopyInv, OpenInput, MayOpenInput, files, args, history
<1>2. CASE OpenOutput
  <2>1. kind \in [Path -> {"none", "file", "dir"}] /\ opath \in Path /\ ipath \in Path
    BY <1>2 DEF CopyInv, OpenOutput, F!FsType, F!Kind
  <2>2. kind' = F!Put(kind, opath, "file") /\ kind' \in F!FsType
    BY <1>2, <2>1 DEF OpenOutput, F!Put, F!FsType, F!Kind
  <2>3. kind[opath] # "dir" /\ kind[ipath] # "none" /\ kind = before
    BY <1>2 DEF CopyInv, OpenOutput, MayOpenOutput, F!CanCreate
  <2>4. kind'[ipath] = kind[ipath]
    BY <2>1, <2>2, <2>3 DEF F!Put
  <2> QED  BY <1>2, <2>2, <2>3, <2>4
           DEF CopyInv, OpenOutput, MayOpenOutput, args, history
<1>3. CASE Read
  BY <1>3 DEF CopyInv, Read, files, args, history
<1>4. CASE Write
  BY <1>4 DEF CopyInv, Write, args, history
<1>5. CASE Finish
  <2>1. fds' \in Int
    BY <1>5 DEF Finish, Closed, CopyInv
  <2> QED  BY <1>5, <2>1, ReturnKeepsInv DEF Finish
<1>6. ASSUME NEW e, ReturnError(e)
      PROVE  CopyInv'
  <2>1. fds' \in Int
    BY <1>6 DEF ReturnError, CopyInv
  <2> QED  BY <1>6, <2>1, ReturnKeepsInv DEF ReturnError
<1>7. CASE OpenInputFails \/ OpenOutputFails \/ ReadFails \/ WriteFails
  BY <1>6, <1>7 DEF OpenInputFails, OpenOutputFails, ReadFails, WriteFails
<1> QED  BY <1>1, <1>2, <1>3, <1>4, <1>5, <1>7 DEF Copying

LEMMA NextKeepsInv == CopyInv /\ [Next]_vars => CopyInv'
<1> SUFFICES ASSUME CopyInv, [Next]_vars
             PROVE  CopyInv'
  OBVIOUS
<1>1. ASSUME NEW i \in Path, NEW o \in Path, Call(i, o)
      PROVE  CopyInv'
  BY <1>1, CallKeepsInv
<1>2. CASE Restart
  BY <1>2 DEF CopyInv, Restart, files, args, history
<1>3. ASSUME NEW p \in Path, NEW b \in Byte, Grow(p, b)
      PROVE  CopyInv'
  BY <1>3 DEF CopyInv, Grow, args, history
<1>4. CASE UNCHANGED vars
  BY <1>4 DEF CopyInv, vars, files, args, history
<1> QED  BY <1>1, <1>2, <1>3, <1>4, CopyingKeepsInv DEF Next

LEMMA CopyInvariant == FairSpec => []CopyInv
<1>1. Init => CopyInv
  BY InitInv
<1>2. CopyInv /\ [Next]_vars => CopyInv'
  BY NextKeepsInv
<1> QED  BY <1>1, <1>2, PTL DEF FairSpec

-----------------------------------------------------------------------------
\* Only the actions of the copy return from it.
LEMMA OnlyCopyingReturns ==
    ASSUME CopyInv, [Next]_vars, pc # "IDLE", pc' = "IDLE"
    PROVE  Copying
<1>1. ASSUME NEW i \in Path, NEW o \in Path, Call(i, o)
      PROVE  FALSE
  BY <1>1 DEF Call
<1>2. CASE Restart
  BY <1>2 DEF Restart
<1>3. ASSUME NEW p \in Path, NEW b \in Byte, Grow(p, b)
      PROVE  FALSE
  BY <1>3 DEF Grow
<1>4. CASE UNCHANGED vars
  BY <1>4 DEF vars
<1> QED  BY <1>1, <1>2, <1>3, <1>4 DEF Next

\* What a return leaves and reports, by the step that returns.
LEMMA ReturnIsOutcome ==
    ASSUME "fs" \in Fault, CopyInv, Copying, pc # "IDLE", pc' = "IDLE"
    PROVE  F!Outcome(kind', result') \in F!aven_fs_copy(before, ipath, opath)
<1> USE DEF F!Outcome, F!aven_fs_copy, F!CopyPosix, F!Refused
<1>1. CASE OpenInputFails
  BY <1>1 DEF OpenInputFails, ReturnError, Return, files, CopyInv
<1>2. CASE OpenOutputFails
  BY <1>2 DEF OpenOutputFails, ReturnError, Return, files, CopyInv
<1>3. CASE ReadFails
  <2>1. /\ kind' = F!Put(before, opath, "file") /\ result' = "IFREAD"
        /\ F!CanCreate(before, opath) /\ before[ipath] # "none"
    BY <1>3 DEF ReadFails, ReturnError, Return, files, CopyInv
  <2> QED  BY <2>1
<1>4. CASE WriteFails
  <2>1. /\ kind' = F!Put(before, opath, "file") /\ result' = "OFWRITE"
        /\ F!CanCreate(before, opath) /\ before[ipath] = "file"
    BY <1>4 DEF WriteFails, ReturnError, Return, files, CopyInv
  <2> QED  BY <2>1
<1>5. CASE Finish
  <2>1. /\ kind' = F!Put(before, opath, "file") /\ result' = "OK"
        /\ F!CanCreate(before, opath) /\ before[ipath] = "file"
    BY <1>5 DEF Finish, Return, files, CopyInv
  <2> QED  BY <2>1
<1>6. ~ OpenInput /\ ~ OpenOutput /\ ~ Read /\ ~ Write
  BY DEF OpenInput, OpenOutput, Read, Write
<1> QED  BY <1>1, <1>2, <1>3, <1>4, <1>5, <1>6 DEF Copying

\* With both descriptors closed, or with an error.
LEMMA ReturnCloses ==
    ASSUME CopyInv, Copying, pc # "IDLE", pc' = "IDLE"
    PROVE  result' = "OK" => fds' = held
<1>1. CASE Finish
  BY <1>1 DEF Finish, Closed, CopyInv
<1>2. CASE OpenInputFails \/ OpenOutputFails \/ ReadFails \/ WriteFails
  BY <1>2 DEF OpenInputFails, OpenOutputFails, ReadFails, WriteFails, ReturnError, Return
<1>3. ~ OpenInput /\ ~ OpenOutput /\ ~ Read /\ ~ Write
  BY DEF OpenInput, OpenOutput, Read, Write
<1> QED  BY <1>1, <1>2, <1>3 DEF Copying

\* Whatever the sizes of the reads and writes, whichever of them fails and
\* whatever other processes append, aven_fs_copy leaves and reports what the
\* engine takes it to leave and report in one step.  An open fails when there is
\* no descriptor left, which Fs knows only as a fault.
THEOREM CopyIsOneStep ==
    ASSUME "fs" \in Fault
    PROVE  FairSpec => ImplementsFs
<1>1. CopyInv /\ [Next]_vars =>
        [\A e \in {"OK", "IFOPEN", "OFOPEN", "IFREAD", "OFWRITE"} :
            Returns(e) => F!Outcome(kind', e) \in F!aven_fs_copy(before, ipath, opath)]_vars
  BY OnlyCopyingReturns, ReturnIsOutcome DEF Returns
<1> QED  BY <1>1, CopyInvariant, PTL DEF FairSpec, ImplementsFs

\* A copy that succeeds leaves no descriptor open, with faults or without.
THEOREM CopyKeepsNoDescriptor == FairSpec => KeepsNoDescriptor
<1>1. CopyInv /\ [Next]_vars => [Returns("OK") => fds' = held]_vars
  BY OnlyCopyingReturns, ReturnCloses DEF Returns
<1> QED  BY <1>1, CopyInvariant, PTL DEF FairSpec, KeepsNoDescriptor
-----------------------------------------------------------------------------
\* While one file is copied to another, what was asked for is still at the
\* front of the input; the output holds what was read except what is left in
\* the buffer, in the order of the input.  S are the bytes there are.
Agree(s, t, n) == \A k \in 1..n : s[k] = t[k]

BytesInv(S) ==
    /\ bytes \in [Path -> Seq(S)] /\ asked \in Seq(S) /\ buffer \in Seq(S)
    /\ offset \in Nat
    /\ pc # "WRITE" => buffer = <<>>
    /\ pc \in {"IDLE", "OPENI", "OPENO"} => offset = 0
    /\ pc # "IDLE" /\ ipath # opath =>
        /\ Len(asked) <= Len(bytes[ipath]) /\ Agree(asked, bytes[ipath], Len(asked))
        /\ pc \in {"READ", "WRITE"} =>
            /\ offset <= Len(bytes[ipath])
            /\ offset = Len(bytes[opath]) + Len(buffer)
            /\ Agree(bytes[opath], bytes[ipath], Len(bytes[opath]))
            /\ \A k \in 1..Len(buffer) : buffer[k] = bytes[ipath][Len(bytes[opath]) + k]

LEMMA EmptyFacts == \A S : <<>> \in Seq(S) /\ Len(<<>>) = 0
OBVIOUS

LEMMA BytesInit ==
    ASSUME NEW S, Contents \subseteq Seq(S), Init
    PROVE  BytesInv(S)
BY EmptyFacts DEF Init, BytesInv

LEMMA BytesCall ==
    ASSUME NEW S, CopyInv, BytesInv(S), NEW i \in Path, NEW o \in Path, Call(i, o)
    PROVE  BytesInv(S)'
<1>1. /\ pc = "IDLE" /\ pc' = "OPENI" /\ ipath' = i /\ opath' = o
      /\ asked' = bytes[i] /\ bytes' = bytes /\ offset' = offset /\ buffer' = buffer
  BY DEF Call, files
<1>2. bytes[i] \in Seq(S)
  BY DEF BytesInv
<1> QED  BY <1>1, <1>2 DEF BytesInv, Agree

LEMMA BytesReturn ==
    ASSUME NEW S, BytesInv(S), NEW e, Return(e)
    PROVE  BytesInv(S)'
BY EmptyFacts DEF BytesInv, Return, files

\* The output is another file, made empty.
LEMMA BytesOpenOutput ==
    ASSUME NEW S, CopyInv, BytesInv(S), OpenOutput
    PROVE  BytesInv(S)'
<1>1. /\ pc = "OPENO" /\ pc' = "READ" /\ UNCHANGED <<ipath, opath, offset, buffer, asked>>
      /\ bytes' = [bytes EXCEPT ![opath] = <<>>]
      /\ ipath \in Path /\ opath \in Path
  BY DEF OpenOutput, Truncated, args, history, CopyInv
<1>2. /\ bytes' \in [Path -> Seq(S)] /\ bytes'[opath] = <<>>
      /\ ipath # opath => bytes'[ipath] = bytes[ipath]
  BY <1>1, EmptyFacts DEF BytesInv
<1>3. buffer = <<>> /\ offset = 0 /\ bytes[ipath] \in Seq(S) /\ Len(bytes[ipath]) \in Nat
  BY <1>1, LenProperties DEF BytesInv
<1> QED  BY <1>1, <1>2, <1>3, EmptyFacts DEF BytesInv, Agree

LEMMA BytesRead ==
    ASSUME NEW S, CopyInv, BytesInv(S), Read
    PROVE  BytesInv(S)'
<1> DEFINE in == bytes[ipath]
           out == bytes[opath]
<1>1. PICK n \in 1..BufferLen :
        /\ pc = "READ" /\ pc' = "WRITE" /\ n <= Len(in) - offset /\ offset' = offset + n
        /\ buffer' = SubSeq(in, offset + 1, offset + n)
        /\ UNCHANGED <<bytes, ipath, opath, asked>>
  BY DEF Read, Left, files, args, history
<1>2. /\ in \in Seq(S) /\ out \in Seq(S) /\ offset \in Nat /\ n \in Int /\ n >= 1
      /\ Len(in) \in Nat /\ Len(out) \in Nat /\ buffer = <<>>
  BY <1>1, LenProperties DEF BytesInv, CopyInv
<1>3. \A k \in (offset + 1)..(offset + n) : in[k] \in S
  BY <1>1, <1>2, ElementOfSeq
<1>4. /\ buffer' \in Seq(S) /\ Len(buffer') = n
      /\ \A k \in 1..n : buffer'[k] = in[offset + k]
  <2>1. /\ SubSeq(in, offset + 1, offset + n) \in Seq(S)
        /\ Len(SubSeq(in, offset + 1, offset + n)) =
              IF offset + 1 <= offset + n THEN offset + n - (offset + 1) + 1 ELSE 0
        /\ \A k \in 1..(offset + n - (offset + 1) + 1) :
              SubSeq(in, offset + 1, offset + n)[k] = in[offset + 1 + k - 1]
    BY <1>2, <1>3, SubSeqProperties
  <2> QED  BY <1>1, <1>2, <2>1
<1> DEFINE new == buffer'
<1>5. ASSUME ipath # opath
      PROVE  /\ offset' <= Len(in) /\ offset' = Len(out) + Len(new)
             /\ \A k \in 1..Len(new) : new[k] = in[Len(out) + k]
  <2>1. offset = Len(out)
    BY <1>1, <1>2, <1>5, EmptyFacts DEF BytesInv
  <2> HIDE DEF new
  <2> QED  BY <1>1, <1>2, <1>4, <2>1 DEF new
<1>6. /\ ipath # opath => Agree(out, in, Len(out))
      /\ ipath # opath => Len(asked) <= Len(in) /\ Agree(asked, in, Len(asked))
      /\ bytes \in [Path -> Seq(S)] /\ asked \in Seq(S) /\ offset' \in Nat
  BY <1>1, <1>2 DEF BytesInv
<1> QED  BY <1>1, <1>4, <1>5, <1>6 DEF BytesInv, Agree

LEMMA BytesWrite ==
    ASSUME NEW S, CopyInv, BytesInv(S), Write
    PROVE  BytesInv(S)'
<1> DEFINE in == bytes[ipath]
           out == bytes[opath]
           len == Len(buffer)
<1>1. PICK n \in 1..len :
        /\ pc = "WRITE" /\ bytes' = [bytes EXCEPT ![opath] = out \o SubSeq(buffer, 1, n)]
        /\ buffer' = SubSeq(buffer, n + 1, len)
        /\ pc' = IF buffer' = <<>> THEN "READ" ELSE "WRITE"
        /\ UNCHANGED <<ipath, opath, offset, asked>>
  BY DEF Write, Unwritten, args, history
<1>2. /\ in \in Seq(S) /\ out \in Seq(S) /\ offset \in Nat /\ buffer \in Seq(S)
      /\ Len(in) \in Nat /\ Len(out) \in Nat /\ len \in Nat /\ n \in 1..len
      /\ ipath \in Path /\ opath \in Path
  BY <1>1, LenProperties DEF BytesInv, CopyInv
<1>3. \A k \in 1..len : buffer[k] \in S
  BY <1>2, ElementOfSeq
<1> DEFINE done == SubSeq(buffer, 1, n)
           rest == SubSeq(buffer, n + 1, len)
<1>4. done \in Seq(S) /\ Len(done) = n /\ \A k \in 1..n : done[k] = buffer[k]
  <2>1. \A k \in 1..n : buffer[k] \in S
    BY <1>2, <1>3
  <2>2. /\ done \in Seq(S) /\ Len(done) = IF 1 <= n THEN n - 1 + 1 ELSE 0
        /\ \A k \in 1..(n - 1 + 1) : done[k] = buffer[1 + k - 1]
    BY <1>2, <2>1, SubSeqProperties
  <2> HIDE DEF done
  <2> QED  BY <1>2, <2>2
<1>5. rest \in Seq(S) /\ Len(rest) = len - n /\ \A k \in 1..(len - n) : rest[k] = buffer[n + k]
  <2>1. \A k \in (n + 1)..len : buffer[k] \in S
    BY <1>2, <1>3
  <2>2. /\ rest \in Seq(S) /\ Len(rest) = IF n + 1 <= len THEN len - (n + 1) + 1 ELSE 0
        /\ \A k \in 1..(len - (n + 1) + 1) : rest[k] = buffer[n + 1 + k - 1]
    BY <1>2, <2>1, SubSeqProperties
  <2> HIDE DEF rest
  <2> QED  BY <1>2, <2>2
<1> HIDE DEF in, out, len
<1>6. /\ out \o done \in Seq(S) /\ Len(out \o done) = Len(out) + n
      /\ \A k \in 1..(Len(out) + n) :
            (out \o done)[k] = IF k <= Len(out) THEN out[k] ELSE done[k - Len(out)]
  BY <1>2, <1>4, ConcatProperties
<1>7. /\ bytes' \in [Path -> Seq(S)] /\ bytes'[opath] = out \o done /\ buffer' = rest
      /\ ipath # opath => bytes'[ipath] = in
  BY <1>1, <1>2, <1>6 DEF BytesInv, in
<1> HIDE DEF done, rest
<1>8. ASSUME ipath # opath
      PROVE  /\ offset = Len(out \o done) + Len(rest)
             /\ Agree(out \o done, in, Len(out \o done))
             /\ \A k \in 1..Len(rest) : rest[k] = in[Len(out \o done) + k]
  <2>1. /\ offset = Len(out) + len /\ Agree(out, in, Len(out))
        /\ \A k \in 1..len : buffer[k] = in[Len(out) + k]
    BY <1>1, <1>8 DEF BytesInv, in, out, len
  <2>2. offset = Len(out \o done) + Len(rest)
    BY <1>2, <1>5, <1>6, <2>1
  <2>3. ASSUME NEW k \in 1..(Len(out) + n)
        PROVE  (out \o done)[k] = in[k]
    <3>1. CASE k <= Len(out)
      BY <1>2, <1>6, <2>1, <2>3, <3>1 DEF Agree
    <3>2. CASE ~ (k <= Len(out))
      <4>1. k - Len(out) \in 1..n /\ k - Len(out) \in 1..len
        BY <1>2, <2>3, <3>2
      <4>2. (out \o done)[k] = buffer[k - Len(out)]
        BY <1>4, <1>6, <2>3, <3>2, <4>1
      <4>3. buffer[k - Len(out)] = in[Len(out) + (k - Len(out))]
        BY <2>1, <4>1
      <4>4. Len(out) + (k - Len(out)) = k
        BY <1>2, <2>3
      <4> QED  BY <4>2, <4>3, <4>4
    <3> QED  BY <3>1, <3>2
  <2>4. ASSUME NEW k \in 1..(len - n)
        PROVE  rest[k] = in[Len(out) + n + k]
    <3>1. n + k \in 1..len /\ Len(out) + (n + k) = Len(out) + n + k
      BY <1>2, <2>4
    <3>2. rest[k] = buffer[n + k] /\ buffer[n + k] = in[Len(out) + (n + k)]
      BY <1>5, <2>1, <2>4, <3>1
    <3> QED  BY <3>1, <3>2
  <2> QED  BY <1>5, <1>6, <2>2, <2>3, <2>4 DEF Agree
<1>9. pc' # "WRITE" => buffer' = <<>>
  BY <1>1
<1>10. /\ ipath # opath => offset <= Len(in) /\ Len(asked) <= Len(in)
                            /\ Agree(asked, in, Len(asked))
       /\ asked \in Seq(S) /\ rest \in Seq(S) /\ pc' \in {"READ", "WRITE"}
  BY <1>1, <1>5 DEF BytesInv, in
<1>11. ASSUME ipath # opath
       PROVE  /\ bytes'[ipath'] = in /\ bytes'[opath'] = out \o done /\ buffer' = rest
              /\ offset' = offset /\ asked' = asked
  BY <1>1, <1>7, <1>11
<1> DEFINE out2 == out \o done
<1> HIDE DEF out2
<1>12. ASSUME ipath # opath
       PROVE  /\ bytes'[ipath'] = in /\ bytes'[opath'] = out2 /\ buffer' = rest
              /\ offset = Len(out2) + Len(rest) /\ Agree(out2, in, Len(out2))
              /\ \A k \in 1..Len(rest) : rest[k] = in[Len(out2) + k]
  BY <1>8, <1>11, <1>12 DEF out2
<1>13. /\ bytes' \in [Path -> Seq(S)] /\ asked' \in Seq(S) /\ buffer' \in Seq(S)
       /\ offset' \in Nat /\ offset' = offset /\ asked' = asked
       /\ ipath' = ipath /\ opath' = opath
  BY <1>1, <1>2, <1>7, <1>10
<1>14. ASSUME ipath' # opath'
       PROVE  /\ Len(asked') <= Len(bytes'[ipath'])
              /\ Agree(asked', bytes'[ipath'], Len(asked'))
              /\ offset' <= Len(bytes'[ipath'])
              /\ offset' = Len(bytes'[opath']) + Len(buffer')
              /\ Agree(bytes'[opath'], bytes'[ipath'], Len(bytes'[opath']))
              /\ \A k \in 1..Len(buffer') :
                    buffer'[k] = bytes'[ipath'][Len(bytes'[opath']) + k]
  BY <1>10, <1>12, <1>13, <1>14
<1> QED  BY <1>9, <1>10, <1>13, <1>14 DEF BytesInv, Agree

\* What another process appends comes after all that was there.
LEMMA BytesGrow ==
    ASSUME NEW S, Byte \subseteq S, CopyInv, BytesInv(S),
           NEW p \in Path, NEW b \in Byte, Grow(p, b)
    PROVE  BytesInv(S)'
<1>1. /\ bytes' = [bytes EXCEPT ![p] = Append(bytes[p], b)]
      /\ pc # "IDLE" => p # opath
      /\ UNCHANGED <<pc, ipath, opath, offset, buffer, asked>>
  BY DEF Grow, args, history
<1>2. bytes[p] \in Seq(S) /\ b \in S /\ Len(bytes[p]) \in Nat /\ offset \in Nat
      /\ Len(asked) \in Nat
  BY LenProperties DEF BytesInv
<1>0. PICK new : new = Append(bytes[p], b)
  OBVIOUS
<1>3. /\ new \in Seq(S) /\ Len(new) = Len(bytes[p]) + 1
      /\ \A k \in 1..Len(bytes[p]) : new[k] = bytes[p][k]
  BY <1>0, <1>2, AppendProperties
<1>7. bytes' = [bytes EXCEPT ![p] = new]
  BY <1>0, <1>1
<1>4. bytes' \in [Path -> Seq(S)] /\ bytes'[p] = new
      /\ \A q \in Path : q # p => bytes'[q] = bytes[q]
  BY <1>3, <1>7 DEF BytesInv
<1>5. CASE pc = "IDLE" \/ p # ipath
  <2>1. pc # "IDLE" => bytes'[ipath] = bytes[ipath] /\ bytes'[opath] = bytes[opath]
    <3>1. pc # "IDLE" => ipath \in Path /\ opath \in Path /\ p # ipath /\ p # opath
      BY <1>1, <1>5 DEF CopyInv
    <3> QED  BY <1>4, <3>1
  <2>2. CASE pc = "IDLE"
    BY <1>1, <1>4, <2>2 DEF BytesInv
  <2>3. CASE pc # "IDLE"
    BY SMTT(30), <1>1, <1>4, <2>1, <2>3 DEF BytesInv
  <2> QED  BY <2>2, <2>3
<1>6. CASE pc # "IDLE" /\ p = ipath
  <2> DEFINE in == bytes[ipath]
             out == bytes[opath]
  <2> HIDE DEF in, out
  <2>1. ASSUME ipath # opath
        PROVE  /\ bytes'[ipath] = new /\ bytes'[opath] = bytes[opath]
               /\ Len(bytes[opath]) \in Nat /\ Len(buffer) \in Nat
    BY <1>4, <1>6, <2>1, LenProperties DEF BytesInv, CopyInv
  <2>0. Len(in) \in Nat /\ Len(new) = Len(in) + 1 /\ \A k \in 1..Len(in) : new[k] = in[k]
    BY <1>2, <1>3, <1>6 DEF in
  <2>2. ASSUME ipath # opath
        PROVE  Len(asked) <= Len(new) /\ Agree(asked, new, Len(asked))
    <3>1. Len(asked) <= Len(in) /\ Agree(asked, in, Len(asked))
      BY <1>6, <2>2 DEF BytesInv, in
    <3> QED  BY <1>2, <2>0, <3>1 DEF Agree
  <2>3. ASSUME ipath # opath, pc \in {"READ", "WRITE"}
        PROVE  /\ offset <= Len(new)
               /\ Agree(bytes[opath], new, Len(bytes[opath]))
               /\ \A k \in 1..Len(buffer) : buffer[k] = new[Len(bytes[opath]) + k]
    <3>1. /\ offset <= Len(in) /\ offset = Len(out) + Len(buffer)
          /\ Agree(out, in, Len(out))
          /\ \A k \in 1..Len(buffer) : buffer[k] = in[Len(out) + k]
      BY <1>6, <2>3 DEF BytesInv, in, out
    <3>2. Len(out) \in Nat /\ Len(buffer) \in Nat
      BY <2>1, <2>3 DEF out
    <3>3. offset <= Len(new) /\ Agree(out, new, Len(out))
      BY <1>2, <2>0, <3>1, <3>2 DEF Agree
    <3>4. ASSUME NEW k \in 1..Len(buffer)
          PROVE  buffer[k] = new[Len(out) + k]
      <4>1. Len(out) + k \in 1..Len(in)
        BY <1>2, <2>0, <3>1, <3>2, <3>4
      <4> QED  BY <2>0, <3>1, <3>4, <4>1
    <3> QED  BY <3>3, <3>4 DEF out
  <2>4. /\ bytes' \in [Path -> Seq(S)] /\ asked' = asked /\ asked \in Seq(S)
        /\ buffer' = buffer /\ buffer \in Seq(S) /\ offset' = offset /\ offset \in Nat
        /\ pc' = pc /\ ipath' = ipath /\ opath' = opath
        /\ pc # "WRITE" => buffer = <<>>
        /\ pc \in {"IDLE", "OPENI", "OPENO"} => offset = 0
    BY <1>1, <1>4 DEF BytesInv
  <2>5. ASSUME ipath # opath, pc \in {"READ", "WRITE"}
        PROVE  offset = Len(bytes[opath]) + Len(buffer)
    BY <1>6, <2>5 DEF BytesInv
  <2>6. ipath' # opath' =>
          /\ Len(asked') <= Len(bytes'[ipath']) /\ Agree(asked', bytes'[ipath'], Len(asked'))
          /\ pc' \in {"READ", "WRITE"} =>
              /\ offset' <= Len(bytes'[ipath'])
              /\ offset' = Len(bytes'[opath']) + Len(buffer')
              /\ Agree(bytes'[opath'], bytes'[ipath'], Len(bytes'[opath']))
              /\ \A k \in 1..Len(buffer') : buffer'[k] = bytes'[ipath'][Len(bytes'[opath']) + k]
    BY <2>1, <2>2, <2>3, <2>4, <2>5
  <2> QED  BY <2>4, <2>6 DEF BytesInv, Agree
<1> QED  BY <1>5, <1>6

LEMMA BytesNext ==
    ASSUME NEW S, Byte \subseteq S, CopyInv, BytesInv(S), [Next]_vars
    PROVE  BytesInv(S)'
<1>1. CASE OpenInput
  BY <1>1 DEF OpenInput, BytesInv, files, args, history
<1>2. ASSUME NEW e, Return(e)
      PROVE  BytesInv(S)'
  BY <1>2, BytesReturn
<1>3. CASE Copying
  <2>1. CASE OpenOutput
    BY <2>1, BytesOpenOutput
  <2>2. CASE Read
    BY <2>2, BytesRead
  <2>3. CASE Write
    BY <2>3, BytesWrite
  <2>4. CASE \E e : Return(e)
    BY <1>2, <2>4
  <2> QED  BY <1>1, <1>3, <2>1, <2>2, <2>3, <2>4
             DEF Copying, OpenInputFails, OpenOutputFails, ReadFails, WriteFails, Finish, ReturnError
<1>4. CASE Restart
  BY <1>4 DEF Restart, BytesInv, files, args, history
<1>5. CASE UNCHANGED vars
  BY <1>5 DEF vars, BytesInv, files, args, history
<1> QED  BY <1>3, <1>4, <1>5, BytesCall, BytesGrow DEF Next

\* Whatever files hold, and whatever is read, written and appended at a time, a
\* copy that returns 0 has copied all that was there when it was called.
THEOREM CopyIsComplete ==
    ASSUME NEW S, Contents \subseteq Seq(S), Byte \subseteq S
    PROVE  FairSpec => CopiesAll
<1>1. Init => CopyInv /\ BytesInv(S)
  BY InitInv, BytesInit
<1>2. CopyInv /\ BytesInv(S) /\ [Next]_vars => (CopyInv /\ BytesInv(S))'
  BY NextKeepsInv, BytesNext
<1>3. ASSUME CopyInv, BytesInv(S), [Next]_vars, Returns("OK"), ipath # opath
      PROVE  IsPrefix(asked, bytes'[opath]) /\ IsPrefix(bytes'[opath], bytes[ipath])
  <2>1. Finish /\ bytes' = bytes
    <3>1. Copying
      BY <1>3, OnlyCopyingReturns DEF Returns
    <3> QED
      BY <1>3, <3>1 DEF Copying, Returns, OpenInput, OpenOutput, Read, Write, Finish, Return,
         OpenInputFails, OpenOutputFails, ReadFails, WriteFails, ReturnError, files
  <2> DEFINE in == bytes[ipath]
             out == bytes[opath]
  <2>2. /\ in \in Seq(S) /\ out \in Seq(S) /\ asked \in Seq(S)
        /\ Len(in) \in Nat /\ Len(out) \in Nat /\ Len(asked) \in Nat
    BY <1>3, <2>1, LenProperties DEF CopyInv, BytesInv, Finish
  <2>3. /\ offset = Len(out) + 0 /\ Len(in) - offset <= 0 /\ offset <= Len(in)
        /\ Agree(out, in, Len(out))
        /\ Len(asked) <= Len(in) /\ Agree(asked, in, Len(asked))
    BY <1>3, <2>1, EmptyFacts DEF BytesInv, Finish, AtEnd, Left
  <2> HIDE DEF in, out
  <2>4. Len(out) = Len(in) /\ \A k \in 1..Len(out) : out[k] = in[k]
    BY <1>3, <2>2, <2>3 DEF Agree, BytesInv
  <2>5. out = in
    BY <2>2, <2>4, SeqEqual
  <2>6. IsPrefix(asked, in)
    <3>1. SubSeq(asked, 1, Len(asked)) = SubSeq(in, 1, Len(asked))
      BY <2>2, <2>3 DEF Agree
    <3> QED  BY <2>2, <2>3, <3>1 DEF IsPrefix
  <2>7. IsPrefix(in, in)
    BY <2>2 DEF IsPrefix
  <2> QED  BY <2>1, <2>5, <2>6, <2>7 DEF in, out
<1>4. CopyInv /\ BytesInv(S) /\ [Next]_vars =>
        [Returns("OK") /\ ipath # opath =>
            IsPrefix(asked, bytes'[opath]) /\ IsPrefix(bytes'[opath], bytes[ipath])]_vars
  BY <1>3
<1> QED  BY <1>1, <1>2, <1>4, PTL DEF FairSpec, CopiesAll
=============================================================================
