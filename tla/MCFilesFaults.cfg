CONSTANTS
    Windows = TRUE
    all = all  other = other  copy = copy  blank = blank  dir = dir
    rmtmp = rmtmp  tmp = tmp  lost = lost
    copyPath = copyPath  blankPath = blankPath  dirPath = dirPath
    tmpPath = tmpPath
    Step <- MCStep  NoStep = NoStep  Roots <- MCRoots
    Type <- MCType  Dep <- MCDep  Out <- MCOut  Arg <- MCArg
    Reads <- MCNothing  Writes <- MCNothing  Source <- MCSource
    Path <- MCPath  NoPath = NoPath  In <- MCIn
    Pid = {p1}  NoPid = NoPid
    Fault = {"fs"}
SPECIFICATION Spec
INVARIANTS TypeOK BuiltInv
