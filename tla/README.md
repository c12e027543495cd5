# A verification of libaven

libaven is a small portable C library whose most prominent part is a build
system: a C program describes its build as a directed graph of steps, and the
library runs, cleans and resets that graph. This directory holds TLA+ models of
the library, the TLC configurations that check them and TLAPS proofs about them.
Line numbers refer to the files of the repository; `include/aven/` is left out of
the names of the headers.

## The system

| component | state | operations | what makes it correct |
|---|---|---|---|
| build engine, `build.h` | for each step its state and pid; the C stack | `add_dep`, `run`, `wait`, `clean`, `reset` | a step runs after everything it depends on has succeeded, once, and an error reaches the caller |
| step constructors, `build/common.h` | the graph under construction | `cc`, `ld`, `ar`, `windres`, `cc_ld`, `run_exe`, `subdir` | every input of a command is made before it, removed after its last reader, and known to `clean` |
| option parser, `arg.h`, and the option table and `opts` of `build/common.h` | the values of the options | `parse`, `get`, `has_arg` | what it accepts is what was given; the asserts of its accessors cannot fail |
| processes, `proc.h` | the process table of the system, or its handles | `cmd`, `wait`, `kill` | every child is reaped by the step that started it; a client kills and hears of its own jobs only |
| files, `fs.h` | the file system; the descriptors and the buffer of a copy | `rm`, `rmdir`, `mkdir`, `trunc`, `copy` | what is reported is what was done; a copy is complete |
| directory watching, `watch.h` | inotify queues | `init`, `check`, `check_multiple`, `deinit` | each change is reported for the directory it happened in, and a check returns |
| paths and strings, `path.h`, `str.h` | none | `path`, `fname`, `rel_dir`, `rel_diff`, `rel_intersect`, `split`, `join` | the results name the files they should |
| arena, `arena.h` | a pointer that moves down | `alloc` | allocations are aligned and disjoint |
| loader, `dl.h` | on Windows a copy of each library | `open`, `sym`, `close` | the copy is one that a clean knows |
| clock, `time.h` | none | `now`, `since` | time does not go back |
| tests, `test.h` | none | a loop over the tests | not modelled, see below |
| the build program, `build.c`, `build.h` | two graphs | `main` | its graphs build, test and clean whatever was there before |

The engine calls the process and file operations; the commands it starts run
beside it and change the files; the constructors make the graph the engine
works on; `build.c` parses its options, makes two graphs and runs or cleans
them. Every function that allocates takes an arena, often by value: the callee
works on a copy. Watching, the loader, the clock and `aven_proc_kill` are used by
clients only.

The hard part is the engine. It starts every command as soon as its dependencies
are done and waits for it only when something needs it, so that commands run
beside each other and beside the engine. A dependency may be shared, may be
running, and may have been executed by an earlier call on another root; a step
may fail while its siblings run, and the program may be killed with commands
running and started again on the files they leave. Next come the watch on
Windows, whose wait starts anew with the handles that are left, the arithmetic
of the constructors (the length of each array of words is computed apart from
the loops that fill it), and copies of an arena that are dropped or kept.

## The modules

### The engine

`BuildStep` is `build.h` from `aven_build_step_run` on. Its state is that of the
C program: `state` and `pid` of each step; `frames`, the stack of active calls
of `aven_build_step_run`, with the loop each is in and its position there;
`ret`, what the call that ended last returned; `todo`, the steps
`aven_build_step_clean` has yet to visit; `op` and `root`, the call of the
client. `failed` is a history variable. `proc` and `fs` are the system's.

| action | code |
|---|---|
| `EarlyReturn`, `Enter` | the test of line 170 |
| `RunDep`, `Resume`, `PropagateError` | the loop of lines 174-179, a recursive call and its return |
| `BeginWait`, `SkipWait`, `WaitDep` | the loop of lines 181-186 with `aven_build_step_wait` |
| `ExecCmd`, `ExecFs` | the switch of lines 188-275 |
| `CleanVisit` | one call of `aven_build_step_clean`; the recursion visits depth first |
| `CallReset` | all of `aven_build_step_reset`, which touches memory only |
| `CallRun`, `CallClean`, `Restart` | the client: `main` of `build.c`, and its end or death |
| `CommandEnds` | a command, external: it makes its files when its inputs are there |

The program and the commands interleave between any two of these steps. `Next`
is a client that runs only what is `Ready`: no step below the root has failed
and none has had a dependency reset under it. `RetryNext` never checks.
`build.c` is the first kind: it makes one call and ends. The library does not
say that a failed graph must be reset before it is run again, but a retry
without a reset reports success over the failed dependency, because a failed
step stays RUNNING or becomes DONE (lines 165 and 202). Likewise a root that is
DONE above steps that another call has reset reports success over what is gone.
So the runs say nothing of a client that makes these calls; `NeverRelaunched`
does, and `CallInvariant`.

- `Proc` is `proc.h` on POSIX: each function gives the outcomes a call may have
  in a process table, which include waiting for any child when the pid is 0, and
  ids that are used again.
- `Fs` is `fs.h`: each operation gives what it may leave and report, on POSIX or
  on Windows (`Windows`). Bytes are left out. A copy that fails leaves its output
  behind.
- `DagBuild` is the abstract build: a job starts once until it is forgotten, and
  only when all it needs has succeeded. `AbstractState` in `BuildProps` maps the
  engine to it.
- `BuildProps` has the properties and the inductive invariants, `BuildFaultless`
  what a graph must satisfy for a build without faults to succeed (`WellMade`) and
  the invariant of such builds. `BuildProofs` has the proofs, about the states
  of the steps first and then about the files.

### The graphs

`StepGraph` has the constructors of `build.h`: a graph is the sequence of its
steps, a step a record with its list of dependencies, which grows at the head.
`Common` has every constructor of `build/common.h` as an operator that takes a
graph to a longer one. A command is its words; only those that name a file of
the build are told apart, and `slots` is the length of the array the C code
allocates for them. `BuildClient` is a client that calls the constructors in any
order, with the care the code's own callers take: a step after what it depends
on, a directory of its own, no file made twice. `BuildMain` makes the graphs of
`build.c` and `build.h`; `MCExeGraph` writes them out for the engine and has TLC
compare them with those `BuildMain` makes (`GraphIsMade`).

### Options

`ArgTable` has the accessors of `arg.h`, `ArgParse` the parser, `Options` the
table of `build/common.h` on every toolchain (`Win`, `Cc`, and `Custom` for the macros
`config.h` defines), `OptionReader` its reader, `BuildArgs` joins them. The macro
that decides whether an option has a default of its own is `Tested`, the one the
default is taken from `Used`; they differ from the name of the option where the
code has it so. `MeantResult` and `Meant` say what a command line means without a loop over it. `BuildProgram`
composes it all: a program parses its command line (`Parse`), reads its options
(`ReadOpts`), and calls the constructors with them (`Build` of `BuildClient`).
`BuildClientProofs` has a lemma for every constructor, `BuildProgramProofs` the
theorems about the whole.

### Processes and copies

`ProcUse` is a client of `proc.h` that starts jobs, kills some and waits for
them, on POSIX (`Proc`, where an id is a process id) or on Windows
(`ProcWindows`, where it is a handle), while others take and free ids. Its
`Start`, `Wait` and `Kill` are one call each; `Ends`, `OtherStarts` and
`OtherEnds` are the system. The two systems release a job by different calls: a
wait on POSIX, a kill on Windows. So no order of the two calls does for both, and
the client has the care each asks for: it calls nothing on a job after the
call that releases it (`Open`), which would hit whatever has the id by then. `Jobs` is the abstract promise, without ids.

`FsCopy` is `aven_fs_copy` on POSIX by the calls of the system it makes: `Call`,
`OpenInput`, `OpenOutput`, `Read`, `Write`, `Finish`, and a failure of each.
`buffer` is what is read and not yet written, `offset` that of the input; the
output has none, it holds what was written. `before`, `asked` and `held` are
history variables. Its abstract specification is the copy of `Fs`, which takes
one step (`ImplementsFs`); other processes append to files meanwhile (`Grow`).

### Watching

`DirWatch` is the promise: a check names directories that have changed, and a
change is kept until a check tells it, a check fails, or the directory is no
longer watched. `Watch` has the
handles, the changes the system holds and the client; `WatchLinux` and
`WatchWindows` the two bodies of `aven_watch_check_multiple`. Changes come
between any two steps of a check. `Told` maps bit i of the result to handle i.
`WatchUse` puts the systems side by side: Linux, Windows with a handle at a time
(`alone`) and with all of them (`together`); `WatchProofs` has the proofs.

### Paths, the arena, the loader and the clock

`Paths` has the functions of `path.h` and `str.h` on sequences of characters.
The length that `aven_str_join` counts in a first loop (`Slots`, `JoinLen`) and
that of the array of `aven_path_rel_diff` (`DiffLen`) are apart from what fills
them, as in the code; the two loops of `aven_str_split` make the same test in
the same order, and are one.
`MCPaths` states what the results mean by resolving `.` and `..`, and `PathProofs`
has the proofs. In `Arena` the
variable `tops` is the pointers of an arena and of the copies made of it, `blocks`
the memory in use and the copy that gave it out. `Copy` is an arena passed by value,
`Drop` the return, `Keep` the assignment `*arena = temp_arena`. `Dl` has the name
of the copy that `aven_dl_open` makes on Windows, which `LoadedIsCleaned` compares
with the extension in the table of `Options`, and `Time` the arithmetic of
`time.h`.

## The runs

| run | properties | what it adds |
|---|---|---|
| `exe` | `NoSpuriousError`, `SuccessMeansBuilt`, `CleanRemovesAll` | no fault: the graphs of `build.c` on POSIX, and a root that copies their program, with every type of step |
| `exe_faults` | `WaitsOwnChild`, `CallReturns` | the graph of the tests on Windows; killed commands, failing forks, crashes and restarts |
| `shared` | `SuccessMeansDone`, `IInv`, `NoRelaunch`, `ImplementsDagBuild` | two roots and a lone command that share steps; failing commands and forks, interrupted waits |
| `files_faults` | `TypeOK`, `BuiltInv` | Windows, file operations that fail; an `out_path` that is not valid, a file where a directory is to be |
| `program` | `ParsesAsMeant`, `AccessorsSafe`, `InputsAreMade`, `RemovedLast`, `DirsFirst`, `CleanKnows`, `SlotsFilled`, `Ordered` | all command lines of three strings on every toolchain, and all graphs a client then makes |
| `args_custom` | `CustomDefaultsAreOwn`, violated | defaults in `config.h`, for `-arext` and for `-ccincflag`; either violates it alone |
| `watch` | `TypeOK`, `KeepsPromise`, `CheckReturns`, `WakesClient`, `ChangeIsTold` | both systems, invalid handles, failing polls, waits and reads |
| `watch_windows_bits` | `ImplementsDirWatch`, violated | three handles |
| `paths` | `PathConcatenates`, `StemKept`, `DirThenName`, `DiffLeads`, `DiffMeetsIntersect`, `CountedAsFilled`, `LoadedIsCleaned` | all pairs of paths of up to five characters |
| `arena` | `AInv`, `InsideAligned`, `Disjoint` | a copy of a copy, memory that starts off alignment |
| `copy` | `CopiesAll`, `ImplementsFs`, `KeepsNoDescriptor`, `CopyReturns` | short reads and writes, failing calls, three descriptors, a file that grows |
| `procs` | `ImplementsJobs`, `KeepsNothing` | both systems; five jobs on two ids, failing forks, interrupted waits |

Bounds, and why they are enough:

- The graphs of the engine are fixed. `exe` takes the ones `build.c` makes, and
  adds the types of steps they lack. `shared` is the smallest with every way a
  step can be reached twice: below two roots, as a root itself, and below a
  command and its side file. Two process ids let two commands run at once; a
  third, after a failed or killed build, finds none, and ids are used again. Calls and restarts are unbounded: no counter is needed.
- `files_faults` begins with a file that has the name of the directory to be made.
  `mkdir` takes it for the directory (`build.h:247`), and the steps that put
  something into it fail, until a clean has removed it: the next run succeeds. `SuccessMeansBuilt` is not
  checked again: it follows from `BuiltInv` (`SuccessIsBuilt`).
- `program`: three strings are an option, its value and one string more. Each
  option given costs the client a call. Four calls, on the toolchain of msvc, whose
  linker and archiver leave side files, make a directory, an object, a binary of
  it and what runs it, or three steps in a directory made by the constructors;
  the other toolchains differ from it and from each other in flags and
  extensions, which three calls show. The numbers of includes, macros,
  libraries and arguments (`Manies`) are all 0 or all different, so that a count
  taken for another shows in the length of an array; the flags of the options are
  as many as the toolchain has.
- `watch`: the system holds at most two changes for a handle and a read takes
  one or two, so that a handle may stay ready after a read. Three handles are
  the fewest where one before and one after the handle found exist. The
  lists on Linux all have `d1` in them, which is what `ChangeIsTold` is about.
- `paths`: five characters hold a directory and a name with an extension, or
  `..` and a name; the two paths have seven together, so that one of four parts
  from one of three. Letters are `a`, `b`, the dot and the separator.
- `copy`: three bytes take two reads of the buffer of two, and a read of one byte
  or a write of one shows every way to fall short. Three descriptors are one more
  than a copy needs: after a failure has kept two, the next copy finds one too few.
  No file grows beyond `MaxLen`: a copy of one that grew for ever need not return.
- `procs`: two ids for three jobs of the client and two of others, so that every id
  is used again by either.
- `arena`: 19 bytes hold three or more blocks with padding, at a base that is a
  multiple of no alignment but 1.

Deadlock is checked in the runs of the engine and of watching, where the client
can always make another call, and of copying. The program, the jobs, the paths
and the arena stop when they are done.

## Fairness

`FairSpec` of the engine says that a call, once made, goes on (`Run`,
`CleanVisit`), and that a command which runs ends by itself. The first is a
thread the system schedules. The second is assumed of the commands: the engine
waits for them without a limit, and `CallReturns` cannot hold of one that hangs.
The faults of `exe_faults` end no wait by themselves.
Nothing is assumed of the client. In the models of watching a check that can go
on does (`CheckAdvances`), and nothing has to fail: the calls of the system that fail
of their own are left out of the fairness, so that a blocked call stays blocked.
On Linux, for `ChangeIsTold`, the client also keeps calling (`Asks`). `Change`
has no fairness: a check without a time limit may wait for ever. A copy that can
go on does (`Advance` of `FsCopy`): it is a thread of the program, and EINTR, which
makes it try again, is not for ever. Here too nothing has to fail.

## What is proved

`BuildProofs` proves, for every set of steps, every acyclic graph, any
number of process ids and any faults:

1. `TypeCorrect` and `CallInvariant`, under any client: `CallInv` is inductive.
   It says that the stack is a path of the graph on which no step comes twice,
   that each active call has not executed its step yet, and that those it has
   passed in its loop are executed, or DONE in the second loop. That no step
   comes twice is where `AcyclicAssumption` is used, and it is what makes "not
   executed yet" survive the calls above on the stack.
2. `NeverRelaunched`, under any client, from 1: whatever is retried, a command
   starts only for a step in state NONE. The runs check it of the careful client;
   `RetrySpec` has only the proof.
3. `Invariant`: with a client that runs what is `Ready`, `IInv` is inductive. It
   adds `SoFarSoGood` (until an error is returned nothing that can be reached has
   failed and what is executed rests on DONE steps) and `OwnChild` (a RUNNING
   step that has not failed has a child of its own). Neither holds under a
   client that retries, and neither is inductive without the stack.
4. From it `WaitsForItsOwn`, `SuccessIsDone` and `Refinement`, that the engine
   implements `DagBuild`.

It then proves what is about the files, in two parts. With all faults,
any acyclic graph and either system:

5. `BuiltInvariant`, and from it `SuccessIsBuilt`. `BuiltInv` adds to `IInv` that
   what a step that succeeded made is there unless a step removes such a file or
   the clean under way has yet to visit the step (`MadeIsThere`); it speaks of
   commands that have ended and are not waited for yet. `OutputAssumption` says
   that an out_path is made by its step or below it.

Where nothing fails (`Fault = {}`), for any graph that is `WellMade`: `CalmInvariant`, and from it `FaultlessRunsSucceed`
and `FaultlessCleanRemovesAll`. `WellMade` says of a graph that what a step uses
is a source or is made below it, and is removed only above it; that a path is a
file or a directory for good; that a directory is made below what puts something
into it; that commands which run at once find process ids; and that no root is a
command, which nobody would wait for. TLC evaluates it on the graphs of
`build.c` (`GraphIsWellMade` in `MCExe`). `CalmInv` adds to `BuiltInv` that what exists
is in a directory (`FilesFormATree`, which the operations of `Fs` keep by
themselves), that no process outlives its call, that whatever a step has yet to use is there once it is made,
and that what the clean has visited is gone, or a directory with something in it.
The last is why a clean of a directory needs no second visit: the directory is
below all that is in it and is visited after them.

`BuildProgramProofs` proves of the program from its command line to its graph, for
any command lines, tables that serve the reader, options, numbers of paths and
objects, and order of calls:

6. `ParserDoesAsMeant`: `ParsesAsMeant`. The invariant (`Obeyed`) says that the
   parser stands where an option stands, that all before it was right, and that
   every option has the value it was given last before this place.
7. `ProgramInvariant`, and from it `OptionsCanBeRead` (`AccessorsSafe`) and the
   properties of the graphs: `GraphsAreOrdered`, `CommandsAreFilled`,
   `CommandsAreFed`, `DirsAreMadeFirst`, `CleansKnowAll`, `ObjectsAreRemovedLast`.
   `GraphInv` is what `BuildClientProofs` carries from call to call: a graph to
   which steps were added in order, each whole and supplied by the steps below
   it, and in which a file is known to a clean of every step the client holds.
   That a constructor keeps this is a lemma for each, which counts the words
   of its command against their array for lists of any length.
8. `GraphsAreAcyclic` and `OutputsAreAsAssumed`: the graphs of the constructors
   satisfy what `AcyclicAssumption` and `OutputAssumption` ask of those of the
   engine.
9. The engine on the graphs of the constructors. `Engine` is the engine whose
   steps, types, dependencies and outputs are those of a graph `G`, whose
   commands read and write what the words of `G` name, and which the client calls on
   `Calls`. If the client ever has `G`, all that the proofs of the engine assume holds
   (`ClientGraphsAreAssumed`), and `G` is `WellMade` (`ClientGraphsAreWellMade`). So
   with all faults its builds implement `DagBuild` (`ClientBuildsKeepOrder`) and
   leave what they report (`ClientBuildsLeaveOutputs`), and without faults builds
   and cleans succeed (`ClientBuildsSucceed`), for every client of the library and
   not for the graphs of `build.c` only.

Some of these have a condition on the client. `ObjectsAreRemovedLast` is for options
where the extension of the objects is none that a tool leaves beside its output
(`ExtsApart`, which the defaults of every toolchain satisfy): with one that is,
a link could leave again a file that a step removes without waiting for it. `OutputsAreAsAssumed`
is for clients that let no tool leave beside its output what another step makes
(`SidesApart`); `Distinct`, the care that the client of `BuildClient` takes, is about
outputs only. The theorems of 9 are for a `Careful` client: both of these, and no step
makes what another reads as a source (`SourcesApart`). All three say that
different files have different names, which the library does not look after. The
invariant `GraphInv` carries what 9 needs beside the properties of the runs:
which step builds each file, that a file in a directory is made above that
directory, that no file has two removals, and what is removed already.
`ClientBuildsSucceed` also needs that the engine is called on no command, which
it would leave running (`CallsAreJoined`), and as many process ids as there are
commands (`EnoughIds`); `ValidPaths` says that a path is not the invalid one.

Recursive functions over numbers can be unfolded without an induction theorem:
if one could not be continued up to n, there would be a least such n (`Least`,
from the well-foundedness of inclusion among finite sets), and there it can. So
the proofs reach `Below` of `StepGraph` and `Standing` of `ArgParse`.

`WatchProofs` proves, for any directories, lists and failures: `UseInvariant`, and
from it `WatchTypes` and `TakenIsTold` on both systems; and `PromiseIsKept`, that
any number of handles on Linux and one on Windows implement `DirWatch`. Several
on Windows do not, which is the first finding below.

`NumericProofs` proves `ArenaInvariant`, and from it `ArenaDisjoint` and
`ArenaInside`. Disjointness is not inductive: that a new block misses all others
needs `Ordered`, that what is in use lies at or above the top of the arena that
gave it out and of every copy made of that one since; and that a drop does no
harm needs that tops only fall from copy to copy.

`ProcProofs` proves `JobsImplemented` and `NothingKept` for any jobs, ids and
faults, on both systems. The invariant they need says which job every id that is
in use stands for: a job that is started and not released holds the id the client
was given, no two hold one, and what the system knows of it is its fate.

`FsCopyProofs` proves three properties of a copy, for any files, contents, buffer
and number of descriptors. `CopyIsOneStep` and `CopyKeepsNoDescriptor` rest on an
invariant of the files (`CopyInv`: what each place in the code knows of `before`
and `held`). `CopyIsOneStep` is stated of file operations that may fail (`"fs"` is
in `Fault`): an open that finds no descriptor left fails, and `Fs`, which does
not count descriptors, has such a failure only as a fault. The other two hold
with faults or without. `CopyIsComplete` adds one of the bytes (`BytesInv`): the output is a
prefix of the input, the buffer is what follows it there, and the offset is where
the buffer ends. It is stated of two different files, and survives what others
append because they append at the end.

`PathProofs` proves every property of the run `paths` for paths of any length, over
any characters: `PathsConcatenate`, `StemsAreKept`, `DirThenNameAlways`,
`DifferencesLead`, `DifferencesMeet`, `LengthsAreExact` and `LoadedIsAlwaysCleaned`. The bounds of the
run, `MaxLen` and `MaxTotal`, may have any value. The invariant is only that both paths
are strings (`PathsAreStrings`); the work is in the operators. `aven_str_split`,
`aven_str_join` and `Resolve` are folds of the community modules, which are recursive
functions on sets of places. `SolutionExists` and `SolutionIsAlong` take them to a
fold over the sequence (`Along`), which has steps (`AlongSteps`) and goes on over a
concatenation (`AlongConcat`). `AllSequences` is induction over sequences, for a set
of good ones instead of a predicate, and rests on `Least`. From these come a lemma for each
function: a separator parts what is split before it from what is split after it
(`SplitConcat`), what is joined is split again (`JoinSplits`, `JoinKeeps`), the part after
the last separator is the last part (`LastPart`), and as many levels up as
names were gone down lead back (`ClimbBack`).

`NumericProofs` also proves of the clock on Windows that every instant is normal
(`InstantsAreNormal`) and that a later count of ticks gives no earlier instant
(`TimeDoesNotGoBack`), for every frequency. It needs no run.

Assumptions, all of them evaluated by TLC on the constants of the runs:
`GraphAssumption`, `PathAssumption`, `PidAssumption`, `ListsAssumption`,
`BoundsAssumption`, `GivenAssumption` and `ManiesAssumption` give the constants their
types; `AcyclicAssumption` says that the recursion ends; `OutputAssumption` is
explained above; `ArenaAssumption` says that no size comes near the address
space, `JobsApart` that the jobs of the client are its own, and `UseAssumption`
that handles can be checked one by one. `TablesAssumption` says that a table
demands what the reader reads without a test, with the types it reads; TLC
evaluates it on the tables of `aven_build_common_args` of every toolchain.

Only model-checked are: the liveness properties (`CallReturns`, `CheckReturns`,
`ChangeIsTold`, `CopyReturns`) and everything under fairness, which the prover
cannot do; and `CustomDefaultsAreOwn` and `ImplementsDirWatch`, which do not hold.
Every other property of a run is stated by a theorem. `CalmInv` is not among the invariants of the run `exe`, which
checks its consequences: TLC has found it to hold there, in several minutes.

## Findings

- `watch.h:87`: on Windows the bits after the first one found are counted from
  the handle after it, not from the first handle. A client that watches several
  directories is told of the wrong one, and never of the right one. One handle
  is not affected, and neither is whether anything is reported at all
  (`WakesClient`).
- `build/common.h:338`: the default of `-wrext` is taken from the macro of
  `-arext`.
- `build/common.h:358`, 373, 388 and 403: the defaults of `-ccincflag`,
  `-ccdefflag`, `-ccobjflag` and `-ccoutflag` are tested by one macro and taken from
  another that nothing declares, so that a `config.h` that sets one of them
  does not compile.

Not bugs, but worth knowing:

- A clean removes files only, so that a command that a failed build left running
  may make its file after the clean has passed it; a failed graph must be reset
  or cleaned before it is run again.
- `aven_path_fname` overwrites the last character of a name it cuts from a
  directory (`path.h:97`), harmless before an extension only (`StemKept`).
- A job must be released by a wait on POSIX and by a kill on Windows, after which
  it may not be touched. The engine only waits, so that on Windows it keeps a
  handle for every command it has run until the program ends.
- A copy that fails leaves its descriptors open (`fs.h:289`, 299, 311), and one of
  a file onto itself empties it and returns 0. On Windows error 3 of `CopyFileA`
  is that a path was not found, not that access was denied (`fs.h:263`): a copy
  whose input is in no directory reports that its output cannot be opened.
- The `main` of `test.c` returns 0 whatever fails.

## What is not modelled

- `aven_dl_sym`, `aven_dl_close`, `aven_path_exe` and `aven_fs_utf8_mode`: one call
  of the system each, and no state. What a library that is built again does to the
  copy of it that is loaded is left to the loader of Windows.
- The engine with the processes of Windows: in the runs on Windows its files are
  those of Windows, its processes those of `Proc`, where a wait that is done
  frees the id. Handles are the subject of `ProcUse`.
- On Windows the paths: another separator, and a drive in what is absolute.
- The descriptor that an `aven_watch_init` that fails leaves open.
- `test.h` and the text of the help, which print; the macros of `aven.h`, whose
  slices and results are the sequences and records of the models.
- Sizes near the address space in the arena, the products of `time.h` beyond 64
  bits, and the array of 32 in `aven_path`.

## Plan

Done: the engine with its proofs, its files with and without faults, the program
from its options to its graphs with its proofs, watching, the arena, processes,
copies, paths and the clock with their proofs. Left, in order of importance:

1. `aven_proc_kill` used on what a failed build left running, and what
   `CleanRemovesAll` then says of failed builds.
2. Windows paths, and the rest of `str.h`.
