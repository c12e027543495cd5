CONSTANTS
    Windows = FALSE  OnWindows = FALSE  Nowhere = NoPath
    Step <- MCStep  NoStep = NoStep  Roots <- MCRoots
    Type <- MCType  Dep <- MCDep  Out <- MCOut  Arg <- MCArg
    Reads <- MCReads  Writes <- MCWrites  Source = {}
    Path <- MCPath  NoPath = NoPath  In <- MCIn
    Pid = {p1, p2}  NoPid = NoPid
    Fault = {}
SPECIFICATION Spec
INVARIANTS NoSpuriousError SuccessMeansBuilt CleanRemovesAll
