CONSTANTS
    Custom = {"-arext", "-ccincflag"}
    Tables <- MCTables  Given <- MCGiven  Atoi <- MCAtoi  MaxArgv = 1
    Chop <- MCChop  NoPath = NoPath
    Dirs = {"out"}  Srcs <- MCSrcs  Names = {"all"}
    Manies <- MCManies  MaxObjs = 1  MaxCalls <- MCMaxCalls
SPECIFICATION Spec
INVARIANT CustomDefaultsAreOwn
CHECK_DEADLOCK FALSE
