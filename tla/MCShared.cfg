CONSTANTS
    Windows = FALSE
    all = all  other = other  cc = cc  pdb = pdb  gen = gen  dir = dir
    srcPath = srcPath  objPath = objPath  pdbPath = pdbPath
    dirPath = dirPath
    Step <- MCStep  NoStep = NoStep  Roots <- MCRoots
    Type <- MCType  Dep <- MCDep  Out <- MCOut  Arg <- MCArg
    Reads <- MCReads  Writes <- MCWrites  Source <- MCSource
    Path <- MCPath  NoPath = NoPath  In <- MCIn
    Pid = {p1, p2}  NoPid = NoPid
    Fault = {"exit", "fork", "eintr"}
SYMMETRY PidSymmetry
SPECIFICATION Spec
INVARIANTS SuccessMeansDone IInv
PROPERTIES NoRelaunch ImplementsDagBuild
