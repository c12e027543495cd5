\* An arena whose memory starts off alignment, with room for a few blocks and
\* a copy of a copy.
CONSTANTS Base = 5  Size = 19  Sizes = {3, 6}  MaxCopies = 2
SPECIFICATION Spec
INVARIANTS AInv InsideAligned Disjoint
CHECK_DEADLOCK FALSE
