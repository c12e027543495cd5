CONSTANTS
    Custom = {}
    Tables <- MCTables  Given <- MCGiven  Atoi <- MCAtoi  MaxArgv = 3
    Chop <- MCChop  NoPath = NoPath
    Dirs = {"out"}  Srcs <- MCSrcs  Names = {"all"}
    Manies <- MCManies  MaxObjs = 2  MaxCalls <- MCMaxCalls
SPECIFICATION Spec
INVARIANTS
    ParsesAsMeant AccessorsSafe
    InputsAreMade RemovedLast DirsFirst CleanKnows SlotsFilled Ordered
CHECK_DEADLOCK FALSE
