CONSTANTS Letter = {"/", ".", "a", "b"}  MaxLen = 5  MaxTotal = 7
SPECIFICATION Spec
INVARIANTS PathConcatenates StemKept DirThenName DiffLeads DiffMeetsIntersect CountedAsFilled LoadedIsCleaned
CHECK_DEADLOCK FALSE
