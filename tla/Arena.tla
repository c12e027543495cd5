--------------------------------- MODULE Arena ---------------------------------
(***************************************************************************)
(* The arena of include/aven/arena.h: memory is given out downwards from   *)
(* the top, and never given back.  An arena is a value: a copy of it (an   *)
(* arena passed to a function, temp_arena in path.h) gives out the memory  *)
(* the original still counts as free, until it is dropped or kept.         *)
(***************************************************************************)
EXTENDS Integers, Sequences

CONSTANTS
    Base,       \* the address of the memory of the arena
    Size,       \* its size
    Sizes,      \* the sizes that are asked for
    MaxCopies   \* a bound on the copies in use, one of another

Aligns == {1, 2, 4, 8, 16, 32}

\* No request comes near the size of the address space.
ASSUME ArenaAssumption ==
    Base \in Nat /\ Size \in Nat /\ Sizes \subseteq Nat /\ MaxCopies \in Nat

VARIABLES
    tops,       \* the tops of the arena and its copies, the copy in use last
    blocks      \* the memory in use: [from, to) and the copy that gave it out

vars == <<tops, blocks>>

Block == [from : Int, to : Int, align : Aligns, copy : Nat]

\* Addresses are integers here: a top below the base never gets past the assert.
Init == tops = <<Base + Size>> /\ blocks = {}

Depth == Len(tops)
Top == tops[Depth]

padding(mem, align) == mem % align

\* Mutant of Fits: the padding is not counted.
FitsUnpadded(size, align) == Top - Base >= size
Fits(size, align) == Top - Base >= size + padding(Top - size, align)

\* Mutant of Mem: the block is moved up to its alignment.
MemUp(size, align) ==
    Top - size + (IF padding(Top - size, align) = 0 THEN 0
                  ELSE align - padding(Top - size, align))
Mem(size, align) == Top - size - padding(Top - size, align)

aven_arena_alloc(size, align) ==
    /\ Fits(size, align)
    /\ tops' = [tops EXCEPT ![Depth] = Mem(size, align)]
    /\ blocks' = blocks \cup
        {[from |-> Mem(size, align), to |-> Mem(size, align) + size,
          align |-> align, copy |-> Depth]}

\* A copy starts where the arena it is made of stands.
Copy ==
    /\ Depth <= MaxCopies
    /\ tops' = Append(tops, Top)
    /\ UNCHANGED blocks

Parent == SubSeq(tops, 1, Depth - 1)

\* The copy goes out of scope, and with it all it gave out.
Drop ==
    /\ Depth > 1
    /\ tops' = Parent
    /\ blocks' = {b \in blocks : b.copy < Depth}

\* Mutant of KeptTops: the arena is not set to the copy.
KeptTopsNot == Parent
KeptTops == [Parent EXCEPT ![Depth - 1] = Top]

\* The arena becomes its copy.
Keep ==
    /\ Depth > 1
    /\ tops' = KeptTops
    /\ blocks' = {[b EXCEPT !.copy = IF b.copy = Depth THEN Depth - 1 ELSE b.copy] :
                    b \in blocks}

Next ==
    \/ \E size \in Sizes, align \in Aligns : aven_arena_alloc(size, align)
    \/ Copy \/ Drop \/ Keep

Spec == Init /\ [][Next]_vars
-----------------------------------------------------------------------------
\* Memory in use is part of the arena's memory, and aligned as it was asked for.
InsideAligned == \A b \in blocks :
    Base <= b.from /\ b.to <= Base + Size /\ b.from % b.align = 0

\* No two pieces of memory in use overlap, however copies are kept and dropped.
Disjoint == \A b, c \in blocks :
    b # c => b.to <= c.from \/ c.to <= b.from
-----------------------------------------------------------------------------
(* The inductive invariant of the proofs.                                   *)

TypeOK ==
    /\ tops \in Seq(Int) /\ Depth >= 1
    /\ \A b \in blocks : b \in Block /\ 1 <= b.copy /\ b.copy <= Depth

\* A copy is never above what it was made of, and all that an arena gave out,
\* and what it was copied from gave out, lies at its top or above.
Ordered ==
    /\ \A i \in 1..Depth : Base <= tops[i] /\ tops[i] <= Base + Size
    /\ \A i, j \in 1..Depth : i <= j => tops[j] <= tops[i]
    /\ \A b \in blocks : \A i \in 1..Depth : b.copy <= i => tops[i] <= b.from

AInv == TypeOK /\ Ordered /\ InsideAligned /\ Disjoint
=============================================================================
