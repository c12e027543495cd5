\* More jobs than process ids or handles: every one of them is used again.
CONSTANTS
    Own = {"j1", "j2", "j3"}  Others = {"o1", "o2"}
    Pid = {1, 2}  NoPid = NoPid  NoCmd = NoCmd
    Fault = {"fork", "eintr"}  System = {"posix", "windows"}
SPECIFICATION Spec
INVARIANT KeepsNothing
PROPERTY ImplementsJobs
CHECK_DEADLOCK FALSE
