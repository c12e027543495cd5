-------------------------------- MODULE FsCopy --------------------------------
(***************************************************************************)
(* aven_fs_copy of include/aven/fs.h on POSIX, call by call of the system: *)
(* both files are opened, then every read is followed by the writes of     *)
(* what was read.  A read or a write may do less than it was asked to, and *)
(* other processes append to files meanwhile.  A call that a signal        *)
(* interrupts, or that writes nothing, is made again and changes nothing,  *)
(* so that it is no step here.                                             *)
(*                                                                         *)
(* `before', `asked' and `held' are history variables: the files, the      *)
(* bytes of the input and the open descriptors when the copy was called.   *)
(***************************************************************************)
EXTENDS Integers, Sequences, SequencesExt

CONSTANTS
    Path, NoPath, In,
    Byte,       \* what other processes append to files
    Contents,   \* what some files hold at first
    MaxLen,     \* a bound on the length of a file
    BufferLen,  \* sizeof(buffer)
    MaxFd,      \* how many descriptors the program may have open
    Fault       \* "fs" when the system may refuse a call for its own reasons

VARIABLES
    kind,       \* the files, as in Fs
    bytes,      \* what they hold
    fds,        \* how many descriptors are open
    pc,         \* what the copy is about to do
    ipath, opath,
    offset,     \* of ifd
    buffer,     \* &buffer[written], up to ilen
    result,     \* what the last copy returned, NONE while one runs
    before, asked, held

files == <<kind, bytes>>
history == <<before, asked, held>>
args == <<ipath, opath>>
vars == <<files, fds, pc, args, offset, buffer, result, history>>

F == INSTANCE Fs WITH Windows <- FALSE

Init ==
    /\ kind \in {f \in F!FsType : F!IsTree(f)}
    /\ bytes \in [Path -> {<<>>} \cup Contents]
    /\ \A p \in Path : kind[p] # "file" => bytes[p] = <<>>
    /\ fds = 0 /\ pc = "IDLE" /\ ipath = NoPath /\ opath = NoPath
    /\ offset = 0 /\ buffer = <<>> /\ result = "NONE"
    /\ before = kind /\ asked = <<>> /\ held = 0

Call(i, o) ==
    /\ pc = "IDLE"
    /\ pc' = "OPENI" /\ ipath' = i /\ opath' = o
    /\ before' = kind /\ asked' = bytes[i] /\ held' = fds
    /\ result' = "NONE"
    /\ UNCHANGED <<files, fds, offset, buffer>>

\* What is local to the call is gone.
Return(e) ==
    /\ pc' = "IDLE" /\ result' = e
    /\ ipath' = NoPath /\ opath' = NoPath /\ offset' = 0 /\ buffer' = <<>>
    /\ before' = kind /\ asked' = <<>> /\ held' = 0
    /\ UNCHANGED files

\* The descriptors that are open stay open.
ReturnError(e) == Return(e) /\ UNCHANGED fds

\* Mutant of MayOpenInput: a path that names nothing is opened.
MayOpenAny == fds < MaxFd
MayOpenInput == kind[ipath] # "none" /\ fds < MaxFd
MayOpenOutput == F!CanCreate(kind, opath) /\ fds < MaxFd

OpenInput ==
    /\ pc = "OPENI" /\ MayOpenInput
    /\ pc' = "OPENO" /\ fds' = fds + 1 /\ offset' = 0
    /\ UNCHANGED <<files, args, buffer, result, history>>

OpenInputFails ==
    /\ pc = "OPENI" /\ (~ MayOpenInput \/ "fs" \in Fault)
    /\ ReturnError("IFOPEN")

Truncated == [bytes EXCEPT ![opath] = <<>>]

OpenOutput ==
    /\ pc = "OPENO" /\ MayOpenOutput
    /\ pc' = "READ" /\ fds' = fds + 1
    /\ kind' = F!Put(kind, opath, "file") /\ bytes' = Truncated
    /\ UNCHANGED <<args, offset, buffer, result, history>>

OpenOutputFails ==
    /\ pc = "OPENO" /\ (~ MayOpenOutput \/ "fs" \in Fault)
    /\ ReturnError("OFOPEN")

Left == Len(bytes[ipath]) - offset

Read == \E n \in 1..BufferLen :
    /\ pc = "READ" /\ kind[ipath] = "file" /\ n <= Left
    /\ pc' = "WRITE" /\ offset' = offset + n
    /\ buffer' = SubSeq(bytes[ipath], offset + 1, offset + n)
    /\ UNCHANGED <<files, fds, args, result, history>>

\* A directory can be opened, but not read.
ReadFails ==
    /\ pc = "READ" /\ (kind[ipath] = "dir" \/ "fs" \in Fault)
    /\ ReturnError("IFREAD")

\* Mutant of Unwritten: what a write leaves over is dropped.
UnwrittenNone(n) == <<>>
Unwritten(n) == SubSeq(buffer, n + 1, Len(buffer))

\* Both offsets are those of the file: the output holds what was written.
Write == \E n \in 1..Len(buffer) :
    /\ pc = "WRITE"
    /\ bytes' = [bytes EXCEPT ![opath] = @ \o SubSeq(buffer, 1, n)]
    /\ buffer' = Unwritten(n)
    /\ pc' = IF buffer' = <<>> THEN "READ" ELSE "WRITE"
    /\ UNCHANGED <<kind, fds, args, offset, result, history>>

WriteFails ==
    /\ pc = "WRITE" /\ "fs" \in Fault
    /\ ReturnError("OFWRITE")

\* Mutant of AtEnd: a read of 0 bytes does not end the loop.
AtEndNever == Left < 0
AtEnd == Left <= 0

\* Mutant of Closed: one of the descriptors stays open.
ClosedOne == fds - 1
Closed == fds - 2

Finish ==
    /\ pc = "READ" /\ kind[ipath] = "file" /\ AtEnd
    /\ Return("OK") /\ fds' = Closed

Copying == \/ OpenInput \/ OpenInputFails \/ OpenOutput \/ OpenOutputFails
           \/ Read \/ ReadFails \/ Write \/ WriteFails \/ Finish

\* Another process appends to a file that no copy writes.
Grow(p, b) ==
    /\ kind[p] = "file" /\ Len(bytes[p]) < MaxLen
    /\ pc # "IDLE" => p # opath
    /\ bytes' = [bytes EXCEPT ![p] = Append(@, b)]
    /\ UNCHANGED <<kind, fds, pc, args, offset, buffer, result, history>>

\* The program ends and is run again.
Restart ==
    /\ pc = "IDLE" /\ fds' = 0
    /\ UNCHANGED <<files, pc, args, offset, buffer, result, history>>

Next ==
    \/ \E i, o \in Path : Call(i, o)
    \/ Copying \/ Restart
    \/ \E p \in Path, b \in Byte : Grow(p, b)

\* What a copy does unless the system refuses a call for reasons of its own.
Advance ==
    \/ OpenInput \/ OpenOutput \/ Read \/ Write \/ Finish
    \/ OpenInputFails /\ ~ MayOpenInput
    \/ OpenOutputFails /\ ~ MayOpenOutput
    \/ ReadFails /\ kind[ipath] = "dir"

\* A call of the system that is interrupted is not interrupted for ever, and
\* none has to fail.
FairSpec == Init /\ [][Next]_vars /\ WF_vars(Advance)
-----------------------------------------------------------------------------
Returns(e) == pc # "IDLE" /\ pc' = "IDLE" /\ result' = e

\* A copy of one file to another that returns 0 leaves in the output what the
\* input held when it was called, and some of what was appended since: the
\* order of the bytes survives short reads and short writes.
CopiesAll == [][Returns("OK") /\ ipath # opath =>
    IsPrefix(asked, bytes'[opath]) /\ IsPrefix(bytes'[opath], bytes[ipath])]_vars

\* Of the files, each return leaves and reports what the copy of Fs does in one
\* step, which is what the build engine takes it to be.
ImplementsFs == [][\A e \in {"OK", "IFOPEN", "OFOPEN", "IFREAD", "OFWRITE"} :
    Returns(e) => F!Outcome(kind', e) \in F!aven_fs_copy(before, ipath, opath)]_vars

\* A copy that succeeds closes both descriptors, whatever earlier copies that
\* failed have left open: only failures use up the MaxFd there are.
KeepsNoDescriptor == [][Returns("OK") => fds' = held]_vars

\* Every copy returns, however often its reads and writes fall short.
CopyReturns == pc # "IDLE" ~> pc = "IDLE"
=============================================================================
