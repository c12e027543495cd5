--------------------------------- MODULE Fs ---------------------------------
(***************************************************************************)
(* The file operations of include/aven/fs.h, as seen by a build: what each *)
(* one leaves on disk and what it reports, on POSIX and on Windows.  A     *)
(* file system maps every path the build knows to "none", "file" or "dir"; *)
(* the bytes of a file are left to FsCopy.                                 *)
(*                                                                         *)
(* Each operation is an operator returning the set of its outcomes.  An    *)
(* outcome is the file system after the call and the error returned.  The  *)
(* outcome of an undisturbed call is unique; when "fs" is in Fault the     *)
(* operating system may also refuse the call for reasons of its own        *)
(* (permissions, a busy device, a full disk).                              *)
(***************************************************************************)
CONSTANTS
    Windows,    \* the system, which decides what errno a failing call leaves
    Path,       \* the paths the build names
    NoPath,     \* an invalid path; as a parent, the working directory
    In,         \* In[p] is the directory that holds p
    Fault       \* the faults the environment may inject

Kind == {"none", "file", "dir"}
FsType == [Path -> Kind]

Outcome(f, e) == [fs |-> f, err |-> e]
Refused(f, errors) ==
    IF "fs" \in Fault THEN {Outcome(f, e) : e \in errors} ELSE {}

ParentThere(f, p) == In[p] # NoPath => f[In[p]] = "dir"
IsEmpty(f, p) == \A q \in Path : In[q] = p => f[q] = "none"
Put(f, p, kind) == [f EXCEPT ![p] = kind]

\* The files hang together: whatever exists is held by a directory.
IsTree(f) == \A p \in Path : f[p] # "none" => ParentThere(f, p)
-----------------------------------------------------------------------------
aven_fs_rm(f, p) ==
    Refused(f, {"ACCESS", "OTHER"}) \cup
    {IF f[p] = "file" THEN Outcome(Put(f, p, "none"), "OK")
     ELSE Outcome(f, IF f[p] = "dir" /\ Windows THEN "ACCESS" ELSE "BADPATH")}

\* Only POSIX has an errno of its own for what is no directory.
aven_fs_rmdir(f, p) ==
    Refused(f, {"ACCESS", "OTHER"}) \cup
    {IF f[p] # "dir"           THEN Outcome(f, IF f[p] = "file" /\ Windows
                                               THEN "OTHER" ELSE "BADPATH")
     ELSE IF ~ IsEmpty(f, p)   THEN Outcome(f, "NOTEMPTY")
     ELSE Outcome(Put(f, p, "none"), "OK")}

aven_fs_mkdir(f, p) ==
    Refused(f, {"ACCESS", "OTHER"}) \cup
    {IF ~ ParentThere(f, p)    THEN Outcome(f, "BADPATH")
     ELSE IF f[p] # "none"     THEN Outcome(f, "EXIST")
     ELSE Outcome(Put(f, p, "dir"), "OK")}

\* What opening p with O_CREAT | O_TRUNC | O_WRONLY does.
CanCreate(f, p) == ParentThere(f, p) /\ f[p] # "dir"

aven_fs_trunc(f, p) ==
    Refused(f, {"ACCESS", "OTHER"}) \cup
    {IF CanCreate(f, p) THEN Outcome(Put(f, p, "file"), "OK")
     ELSE Outcome(f, IF ParentThere(f, p) /\ Windows THEN "ACCESS" ELSE "BADPATH")}

\* The output exists, truncated, before the first read of the input: a copy
\* that fails later leaves it behind.
CopyPosix(f, i, o) ==
    Refused(f, {"IFOPEN", "OFOPEN"}) \cup
    IF f[i] = "none"                THEN {Outcome(f, "IFOPEN")}
    ELSE IF ~ CanCreate(f, o)       THEN {Outcome(f, "OFOPEN")}
    ELSE IF f[i] = "dir"            THEN {Outcome(Put(f, o, "file"), "IFREAD")}
    ELSE {Outcome(Put(f, o, "file"), "OK")} \cup
         Refused(Put(f, o, "file"), {"IFREAD", "OFWRITE"})

\* CopyFileA: error 2 is a file that is not there, 3 a directory on the way to
\* either file that is not, and whatever is refused has another number.
CopyWindows(f, i, o) ==
    Refused(f, {"OTHER"}) \cup
    IF f[i] = "none" /\ ParentThere(f, i)               THEN {Outcome(f, "IFOPEN")}
    ELSE IF ~ ParentThere(f, i) \/ ~ ParentThere(f, o)  THEN {Outcome(f, "OFOPEN")}
    ELSE IF f[i] = "dir" \/ f[o] = "dir"                THEN {Outcome(f, "OTHER")}
    ELSE {Outcome(Put(f, o, "file"), "OK")} \cup
         Refused(Put(f, o, "file"), {"OTHER"}) \cup Refused(Put(f, o, "none"), {"OTHER"})

aven_fs_copy(f, i, o) == IF Windows THEN CopyWindows(f, i, o) ELSE CopyPosix(f, i, o)
=============================================================================
