CONSTANTS
    Windows = TRUE  OnWindows = TRUE  Nowhere = NoPath
    Step <- MCStep  NoStep = NoStep  Roots <- MCRoots
    Type <- MCType  Dep <- MCDep  Out <- MCOut  Arg <- MCArg
    Reads <- MCReads  Writes <- MCWrites  Source = {}
    Path <- MCPath  NoPath = NoPath  In <- MCIn
    Pid = {p1, p2}  NoPid = NoPid
    Fault = {"signal", "fork", "crash"}
SPECIFICATION FairSpec
INVARIANT WaitsOwnChild
PROPERTY CallReturns
