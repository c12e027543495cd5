---------------------------- MODULE NumericProofs ----------------------------
(***************************************************************************)
(* What the arithmetic of the library guarantees for all numbers: memory   *)
(* in use never overlaps, in any arena, for any requests and nesting of    *)
(* copies, and the conversion of ticks keeps the form and the order of     *)
(* instants, at every frequency.                                           *)
(***************************************************************************)
EXTENDS Arena, Time, TLAPS


\* The padding is less than the alignment, and what is left is aligned.
LEMMA Padding ==
    ASSUME NEW mem \in Int, NEW align \in Aligns
    PROVE  /\ padding(mem, align) \in Int
           /\ 0 <= padding(mem, align)
           /\ (mem - padding(mem, align)) % align = 0
<1>1. CASE align = 1  BY <1>1 DEF padding
<1>2. CASE align = 2  BY <1>2 DEF padding
<1>3. CASE align = 4  BY <1>3 DEF padding
<1>4. CASE align = 8  BY <1>4 DEF padding
<1>5. CASE align = 16  BY <1>5 DEF padding
<1>6. CASE align = 32  BY <1>6 DEF padding
<1> QED  BY <1>1, <1>2, <1>3, <1>4, <1>5, <1>6 DEF Aligns

LEMMA InitInv == Init => AInv
BY ArenaAssumption DEF Init, AInv, TypeOK, Ordered, InsideAligned, Disjoint, Depth

\* An allocation takes what lies directly below all that is in use.
LEMMA AllocKeepsInv ==
    ASSUME AInv, NEW size \in Sizes, NEW align \in Aligns, aven_arena_alloc(size, align)
    PROVE  AInv'
<1> DEFINE mem == Mem(size, align)
           new == [from |-> mem, to |-> mem + size, align |-> align, copy |-> Depth]
<1>1. /\ size \in Int /\ 0 <= size
      /\ Depth \in Nat /\ Depth >= 1 /\ Top \in Int /\ align \in Int
  BY ArenaAssumption DEF AInv, TypeOK, Depth, Top, Aligns
<1>2. /\ mem \in Int /\ mem % align = 0
      /\ Base <= mem /\ mem + size <= Top /\ mem <= Top
  <2>1. Top - size \in Int
    BY <1>1
  <2>2. /\ padding(Top - size, align) \in Int
        /\ 0 <= padding(Top - size, align)
        /\ (Top - size - padding(Top - size, align)) % align = 0
    BY <2>1, Padding
  <2>3. Top - Base >= size + padding(Top - size, align)
    BY DEF aven_arena_alloc, Fits
  <2> QED
    BY <1>1, <2>2, <2>3, ArenaAssumption DEF Mem
<1> HIDE DEF mem
<1>3. /\ tops' = [tops EXCEPT ![Depth] = mem]
      /\ blocks' = blocks \cup {new}
  BY DEF aven_arena_alloc, mem
<1>4. /\ tops' \in Seq(Int) /\ Len(tops') = Depth
      /\ \A i \in 1..Depth : tops'[i] = IF i = Depth THEN mem ELSE tops[i]
  BY <1>1, <1>2, <1>3 DEF AInv, TypeOK, Depth
<1>5. TypeOK'
  BY <1>1, <1>2, <1>3, <1>4 DEF AInv, TypeOK, Depth, Block
<1>6. Ordered'
  <2>1. \A i \in 1..Depth : Base <= tops'[i] /\ tops'[i] <= Base + Size
    <3>1. \A i \in 1..Depth : Base <= tops[i] /\ tops[i] <= Base + Size
      BY DEF AInv, Ordered
    <3>2. Top <= Base + Size
      BY <3>1, <1>1 DEF Top
    <3>3. Base <= mem /\ mem <= Base + Size
      BY <3>2, <1>1, <1>2, ArenaAssumption
    <3> QED
      BY <3>1, <3>3, <1>4
  <2>2. \A i, j \in 1..Depth : i <= j => tops'[j] <= tops'[i]
    <3> SUFFICES ASSUME NEW i \in 1..Depth, NEW j \in 1..Depth, i <= j
                 PROVE  tops'[j] <= tops'[i]
      OBVIOUS
    <3>1. tops[i] \in Int /\ tops[j] \in Int /\ tops[j] <= tops[i] /\ Top <= tops[i]
      BY <1>1 DEF AInv, TypeOK, Ordered, Depth, Top
    <3> QED
      BY <3>1, <1>1, <1>2, <1>4
  <2>3. \A b \in blocks' : \A i \in 1..Depth : b.copy <= i => tops'[i] <= b.from
    <3> SUFFICES ASSUME NEW b \in blocks', NEW i \in 1..Depth, b.copy <= i
                 PROVE  tops'[i] <= b.from
      OBVIOUS
    <3>1. CASE b \in blocks
      <4>1. tops[i] <= b.from /\ tops[i] \in Int /\ b.from \in Int
        BY <3>1, <1>1 DEF AInv, TypeOK, Ordered, Block, Depth
      <4>2. i = Depth => Top <= b.from
        BY <4>1 DEF Top
      <4> QED
        BY <4>1, <4>2, <1>1, <1>2, <1>4
    <3>2. CASE b = new
      BY <3>2, <1>1, <1>2, <1>4
    <3> QED
      BY <3>1, <3>2, <1>3
  <2> QED
    BY <2>1, <2>2, <2>3, <1>4 DEF Ordered, Depth
<1>7. InsideAligned'
  <2>1. Top <= Base + Size
    BY <1>1 DEF AInv, Ordered, Top
  <2>2. Base <= new.from /\ new.to <= Base + Size /\ new.from % new.align = 0
    BY <2>1, <1>1, <1>2, ArenaAssumption
  <2> QED
    BY <2>2, <1>3 DEF AInv, InsideAligned
<1>8. Disjoint'
  <2>1. \A b \in blocks : new.to <= b.from
    <3> SUFFICES ASSUME NEW b \in blocks PROVE new.to <= b.from
      OBVIOUS
    <3>1. Top <= b.from /\ b.from \in Int
      BY <1>1 DEF AInv, TypeOK, Ordered, Top, Depth, Block
    <3> QED
      BY <3>1, <1>1, <1>2
  <2> QED
    BY <2>1, <1>3 DEF AInv, Disjoint
<1> QED
  BY <1>5, <1>6, <1>7, <1>8 DEF AInv

LEMMA CopyKeepsInv == AInv /\ Copy => AInv'
<1> SUFFICES ASSUME AInv, Copy PROVE AInv'
  OBVIOUS
<1>1. Depth \in Nat /\ Depth >= 1 /\ Top \in Int
  BY DEF AInv, TypeOK, Depth, Top
<1>2. /\ tops' \in Seq(Int) /\ Len(tops') = Depth + 1
      /\ \A i \in 1..(Depth + 1) : tops'[i] = IF i = Depth + 1 THEN Top ELSE tops[i]
      /\ blocks' = blocks
  BY <1>1 DEF AInv, TypeOK, Depth, Copy
<1>3. TypeOK'
  BY <1>1, <1>2 DEF AInv, TypeOK, Depth, Block
<1>4. \A i \in 1..(Depth + 1) : \E k \in 1..Depth :
          tops'[i] = tops[k] /\ (k = i \/ (k = i - 1 /\ k = Depth))
  BY <1>1, <1>2 DEF Top
<1>5. Ordered'
  <2>1. \A i \in 1..(Depth + 1) : Base <= tops'[i] /\ tops'[i] <= Base + Size
    BY <1>4 DEF AInv, Ordered
  <2>2. \A i, j \in 1..(Depth + 1) : i <= j => tops'[j] <= tops'[i]
    BY <1>1, <1>4 DEF AInv, TypeOK, Ordered, Depth
  <2>3. \A b \in blocks' : \A i \in 1..(Depth + 1) : b.copy <= i => tops'[i] <= b.from
    BY <1>1, <1>2, <1>4 DEF AInv, TypeOK, Ordered, Depth, Block
  <2> QED
    BY <2>1, <2>2, <2>3, <1>2 DEF Ordered, Depth
<1> QED
  BY <1>2, <1>3, <1>5 DEF AInv, InsideAligned, Disjoint

\* The tops of the arenas below the copy in use.
LEMMA ParentTops ==
    ASSUME AInv, Depth > 1
    PROVE  /\ Depth \in Nat /\ Top \in Int
           /\ Parent \in Seq(Int) /\ Len(Parent) = Depth - 1
           /\ \A i \in 1..(Depth - 1) : Parent[i] = tops[i]
BY DEF AInv, TypeOK, Depth, Top, Parent

LEMMA DropKeepsInv == AInv /\ Drop => AInv'
<1> SUFFICES ASSUME AInv, Drop PROVE AInv'
  OBVIOUS
<1>1. Depth > 1 /\ tops' = Parent /\ blocks' = {b \in blocks : b.copy < Depth}
  BY DEF Drop
<1>2. /\ Depth \in Nat /\ tops' \in Seq(Int) /\ Len(tops') = Depth - 1
      /\ \A i \in 1..(Depth - 1) : tops'[i] = tops[i]
  BY <1>1, ParentTops
<1>3. TypeOK'
  BY <1>1, <1>2 DEF AInv, TypeOK, Depth, Block
<1>4. Ordered'
  BY <1>1, <1>2 DEF AInv, Ordered, Depth
<1> QED
  BY <1>1, <1>3, <1>4 DEF AInv, InsideAligned, Disjoint

\* What the copy gave out lies above its top, which becomes the top.
LEMMA KeepKeepsInv == AInv /\ Keep => AInv'
<1> SUFFICES ASSUME AInv, Keep PROVE AInv'
  OBVIOUS
<1> DEFINE kept(b) == [b EXCEPT !.copy = IF b.copy = Depth THEN Depth - 1 ELSE b.copy]
<1>1. Depth > 1 /\ tops' = KeptTops /\ blocks' = {kept(b) : b \in blocks}
  BY DEF Keep
<1>2. /\ Depth \in Nat /\ Top \in Int /\ Top = tops[Depth]
      /\ tops' \in Seq(Int) /\ Len(tops') = Depth - 1
      /\ \A i \in 1..(Depth - 1) : tops'[i] = IF i = Depth - 1 THEN Top ELSE tops[i]
  BY <1>1, ParentTops DEF KeptTops, Top
<1>3. \A b \in blocks : /\ kept(b).from = b.from /\ kept(b).to = b.to
                        /\ kept(b).align = b.align
                        /\ kept(b).copy = IF b.copy = Depth THEN Depth - 1 ELSE b.copy
                        /\ kept(b) \in Block
  <2> SUFFICES ASSUME NEW b \in blocks
               PROVE  /\ kept(b).from = b.from /\ kept(b).to = b.to
                      /\ kept(b).align = b.align
                      /\ kept(b).copy = IF b.copy = Depth THEN Depth - 1 ELSE b.copy
                      /\ kept(b) \in Block
    OBVIOUS
  <2> DEFINE c == IF b.copy = Depth THEN Depth - 1 ELSE b.copy
  <2>1. b \in Block /\ c \in Nat
    BY <1>1, <1>2 DEF AInv, TypeOK, Block
  <2>2. kept(b) = [b EXCEPT !.copy = c]
    OBVIOUS
  <2> HIDE DEF kept, c
  <2>3. /\ kept(b).from = b.from /\ kept(b).to = b.to
        /\ kept(b).align = b.align /\ kept(b).copy = c
        /\ kept(b) \in Block
    BY <2>1, <2>2 DEF Block
  <2> QED
    BY <2>3 DEF c
<1> HIDE DEF kept
<1>4. TypeOK'
  <2>1. \A b \in blocks : 1 <= kept(b).copy /\ kept(b).copy <= Depth - 1
    <3> SUFFICES ASSUME NEW b \in blocks
                 PROVE  1 <= kept(b).copy /\ kept(b).copy <= Depth - 1
      OBVIOUS
    <3>1. b.copy \in Nat /\ 1 <= b.copy /\ b.copy <= Depth
      BY DEF AInv, TypeOK, Block
    <3> QED
      BY <3>1, <1>1, <1>2, <1>3
  <2> QED
    BY <2>1, <1>1, <1>2, <1>3 DEF TypeOK, Depth
<1>5. \A i \in 1..(Depth - 1) : \E k \in 1..Depth :
          tops'[i] = tops[k] /\ ((k = i /\ i < Depth - 1) \/ (k = Depth /\ i = Depth - 1))
  BY <1>1, <1>2
<1>6. Ordered'
  <2>1. \A i \in 1..(Depth - 1) : Base <= tops'[i] /\ tops'[i] <= Base + Size
    BY <1>5 DEF AInv, Ordered
  <2>2. \A i, j \in 1..(Depth - 1) : i <= j => tops'[j] <= tops'[i]
    <3> SUFFICES ASSUME NEW i \in 1..(Depth - 1), NEW j \in 1..(Depth - 1), i <= j
                 PROVE  tops'[j] <= tops'[i]
      OBVIOUS
    <3>1. PICK k \in 1..Depth :
              tops'[i] = tops[k] /\ ((k = i /\ i < Depth - 1) \/ (k = Depth /\ i = Depth - 1))
      BY <1>5
    <3>2. PICK l \in 1..Depth :
              tops'[j] = tops[l] /\ ((l = j /\ j < Depth - 1) \/ (l = Depth /\ j = Depth - 1))
      BY <1>5
    <3>3. k <= l
      BY <3>1, <3>2, <1>1, <1>2
    <3> QED
      BY <3>1, <3>2, <3>3 DEF AInv, Ordered
  <2>3. \A b \in blocks : \A i \in 1..(Depth - 1) : kept(b).copy <= i => tops'[i] <= kept(b).from
    <3> SUFFICES ASSUME NEW b \in blocks, NEW i \in 1..(Depth - 1), kept(b).copy <= i
                 PROVE  tops'[i] <= b.from
      BY <1>3
    <3>1. PICK k \in 1..Depth : tops'[i] = tops[k] /\ ((k = i /\ i < Depth - 1) \/ (k = Depth /\ i = Depth - 1))
      BY <1>5
    <3>2. b.copy \in Nat /\ b.copy <= Depth
      BY DEF AInv, TypeOK, Block
    <3>3. (IF b.copy = Depth THEN Depth - 1 ELSE b.copy) <= i
      BY <1>3
    <3>4. b.copy <= k
      BY <3>1, <3>2, <3>3, <1>1, <1>2
    <3> QED
      BY <3>1, <3>4 DEF AInv, Ordered
  <2> QED
    BY <2>1, <2>2, <2>3, <1>1, <1>2 DEF Ordered, Depth
<1>7. InsideAligned'
  BY <1>1, <1>3 DEF AInv, InsideAligned
<1>8. Disjoint'
  BY <1>1, <1>3 DEF AInv, Disjoint
<1> QED
  BY <1>4, <1>6, <1>7, <1>8 DEF AInv

\* The inductive invariant: all that is in use lies at the top or above, for
\* the arena that gave it out and every copy made since.
THEOREM ArenaInvariant == Spec => []AInv
<1>1. Init => AInv
  BY InitInv
<1>2. AInv /\ [Next]_vars => AInv'
  <2> SUFFICES ASSUME AInv, [Next]_vars PROVE AInv'
    OBVIOUS
  <2>1. ASSUME NEW size \in Sizes, NEW align \in Aligns, aven_arena_alloc(size, align)
        PROVE  AInv'
    BY <2>1, AllocKeepsInv
  <2>2. CASE Copy
    BY <2>2, CopyKeepsInv
  <2>3. CASE Drop
    BY <2>3, DropKeepsInv
  <2>4. CASE Keep
    BY <2>4, KeepKeepsInv
  <2>5. CASE UNCHANGED vars
    BY <2>5 DEF vars, AInv, TypeOK, Ordered, InsideAligned, Disjoint, Depth
  <2> QED
    BY <2>1, <2>2, <2>3, <2>4, <2>5 DEF Next
<1> QED
  BY <1>1, <1>2, PTL DEF Spec

\* Two pieces of memory in use never overlap (aven_arena_alloc, arena.h), even
\* while copies of the arena are made, dropped and kept.
THEOREM ArenaDisjoint == Spec => []Disjoint
BY ArenaInvariant, PTL DEF AInv

\* The assert of aven_arena_alloc keeps every allocation within the memory of
\* the arena, with the alignment it was asked for.
THEOREM ArenaInside == Spec => []InsideAligned
BY ArenaInvariant, PTL DEF AInv
-----------------------------------------------------------------------------
(* The clock of Windows.                                                    *)


LEMMA NsecPositive == AVEN_TIME_NSEC_PER_SEC \in Nat /\ AVEN_TIME_NSEC_PER_SEC >= 1
BY DEF AVEN_TIME_NSEC_PER_SEC

LEMMA Division ==
    ASSUME NEW a \in Int, NEW f \in Nat, f > 0
    PROVE  /\ a \div f \in Int /\ a % f \in Int
           /\ a = f * (a \div f) + (a % f)
           /\ 0 <= a % f /\ a % f < f
OBVIOUS

\* The nanoseconds of an instant, all told.
Total(t) == t.tv_sec * AVEN_TIME_NSEC_PER_SEC + t.tv_nsec

LEMMA RoundedBounds ==
    ASSUME NEW c \in Nat, NEW f \in Nat, f > 0
    PROVE  /\ Rounded(c, f) \in 0..AVEN_TIME_NSEC_PER_SEC
           /\ f * Rounded(c, f) <= (c % f) * AVEN_TIME_NSEC_PER_SEC + f \div 2
           /\ (c % f) * AVEN_TIME_NSEC_PER_SEC + f \div 2 < f * Rounded(c, f) + f
<1> DEFINE N == AVEN_TIME_NSEC_PER_SEC
           r == c % f
           h == f \div 2
           a == r * N + h
           q == a \div f
<1>1. r \in Int /\ 0 <= r /\ r <= f - 1
  BY Division
<1>2. h \in Int /\ 0 <= h /\ 2 * h <= f /\ h < f
  OBVIOUS
<1>3. a \in Int /\ 0 <= a /\ a <= (f - 1) * N + h
  BY <1>1, <1>2 DEF AVEN_TIME_NSEC_PER_SEC
<1>4. q \in Int /\ a % f \in Int /\ a = f * q + (a % f) /\ 0 <= a % f /\ a % f < f
  BY <1>3, Division
<1>5. f * q <= a /\ a < f * q + f
  <2> HIDE DEF a, q
  <2> QED  BY <1>3, <1>4
<1>6. 0 <= q
  <2> HIDE DEF a, q
  <2>1. SUFFICES ASSUME q <= -1 PROVE FALSE
    BY <1>4
  <2>2. f * q <= f * (-1)
    BY <2>1, <1>4
  <2> QED  BY <2>2, <1>3, <1>5, <1>4
<1>7. q <= N
  <2>1. SUFFICES ASSUME q >= N + 1 PROVE FALSE
    BY <1>4 DEF AVEN_TIME_NSEC_PER_SEC
  <2>2. f * (N + 1) <= a
    <3> HIDE DEF a, q
    <3>1. f * (N + 1) <= f * q
      BY <2>1, <1>4 DEF AVEN_TIME_NSEC_PER_SEC
    <3> QED  BY <3>1, <1>3, <1>4, <1>5 DEF AVEN_TIME_NSEC_PER_SEC
  <2> QED  BY <2>2, <1>2, <1>3 DEF AVEN_TIME_NSEC_PER_SEC
<1>8. Rounded(c, f) = q
  BY DEF Rounded
<1> HIDE DEF q
<1>9. q \in 0..N
  <2> HIDE DEF a
  <2> QED  BY <1>4, <1>6, <1>7, NsecPositive
<1> QED  BY <1>5, <1>8, <1>9

\* For every count of ticks and every frequency the fields of the instant are
\* normal: the carry is needed at most once.
THEOREM InstantsAreNormal ==
    ASSUME NEW c \in Nat, NEW f \in Nat, f > 0
    PROVE  LET now == aven_time_now(c, f)
           IN  now.tv_sec \in Nat /\ now.tv_nsec \in 0..(AVEN_TIME_NSEC_PER_SEC - 1)
<1>1. c \div f \in Nat
  BY Division
<1>2. Rounded(c, f) \in 0..AVEN_TIME_NSEC_PER_SEC
  BY RoundedBounds
<1> DEFINE n == Rounded(c, f)
<1>3. CASE n >= AVEN_TIME_NSEC_PER_SEC
  <2>1. n = AVEN_TIME_NSEC_PER_SEC
    BY <1>2, <1>3, NsecPositive
  <2> QED  BY <1>1, <2>1, NsecPositive DEF aven_time_now
<1>4. CASE ~ (n >= AVEN_TIME_NSEC_PER_SEC)
  <2>1. n \in 0..(AVEN_TIME_NSEC_PER_SEC - 1)
    BY <1>2, <1>4, NsecPositive
  <2>2. /\ aven_time_now(c, f).tv_sec = c \div f + 0
        /\ aven_time_now(c, f).tv_nsec = n - 0 * AVEN_TIME_NSEC_PER_SEC
    BY <1>4 DEF aven_time_now
  <2> HIDE DEF n
  <2>3. n - 0 * AVEN_TIME_NSEC_PER_SEC = n /\ c \div f + 0 \in Nat
    BY <1>1, <2>1, NsecPositive
  <2> QED  BY <2>1, <2>2, <2>3
<1> QED  BY <1>3, <1>4

\* The instant is the count times NSEC over the frequency, rounded.
LEMMA TotalBounds ==
    ASSUME NEW c \in Nat, NEW f \in Nat, f > 0
    PROVE  LET t == Total(aven_time_now(c, f))
           IN  /\ t \in Int
               /\ f * t <= c * AVEN_TIME_NSEC_PER_SEC + f \div 2
               /\ c * AVEN_TIME_NSEC_PER_SEC + f \div 2 < f * t + f
<1> DEFINE N == AVEN_TIME_NSEC_PER_SEC
           s == c \div f
           r == c % f
           n == Rounded(c, f)
           h == f \div 2
           t == Total(aven_time_now(c, f))
<1>1. s \in Int /\ r \in Int /\ c = f * s + r
  BY Division
<1>2. n \in Int /\ f * n <= r * N + h /\ r * N + h < f * n + f
  <2>1. n \in 0..N /\ f * n <= r * N + h /\ r * N + h < f * n + f
    BY RoundedBounds
  <2> HIDE DEF n
  <2>2. n \in Int
    BY <2>1, NsecPositive
  <2> QED  BY <2>1, <2>2
<1>3. t = s * N + n
  BY <1>1, <1>2 DEF Total, aven_time_now, AVEN_TIME_NSEC_PER_SEC
<1>4. h \in Int
  OBVIOUS
<1>5. f * t = f * s * N + f * n
  <2> HIDE DEF s, n, t
  <2> QED  BY <1>1, <1>2, <1>3 DEF AVEN_TIME_NSEC_PER_SEC
<1>6. c * N = f * s * N + r * N
  <2> HIDE DEF s, r
  <2> QED  BY <1>1 DEF AVEN_TIME_NSEC_PER_SEC
<1> HIDE DEF s, r, n, h, t
<1>7. /\ t \in Int /\ f * t <= c * N + h /\ c * N + h < f * t + f
  BY <1>1, <1>2, <1>3, <1>4, <1>5, <1>6 DEF AVEN_TIME_NSEC_PER_SEC
<1> QED  BY <1>7 DEF t, h

\* Later ticks are never an earlier instant, across every carry: the time from
\* one call of aven_time_now to a later one is not negative.
THEOREM TimeDoesNotGoBack ==
    ASSUME NEW start \in Nat, NEW end \in Nat, NEW f \in Nat, f > 0, start <= end
    PROVE  aven_time_since(aven_time_now(end, f), aven_time_now(start, f)) >= 0
<1> DEFINE N == AVEN_TIME_NSEC_PER_SEC
           h == f \div 2
           t1 == Total(aven_time_now(start, f))
           t2 == Total(aven_time_now(end, f))
<1>1. t1 \in Int /\ f * t1 <= start * N + h
  BY TotalBounds
<1>2. t2 \in Int /\ end * N + h < f * t2 + f
  BY TotalBounds
<1>3. start * N <= end * N /\ h \in Int
  BY DEF AVEN_TIME_NSEC_PER_SEC
<1>4. t1 <= t2
  <2> HIDE DEF t1, t2, h
  <2>1. SUFFICES ASSUME t2 + 1 <= t1 PROVE FALSE
    BY <1>1, <1>2
  <2>2. f * (t2 + 1) <= f * t1
    BY <2>1, <1>1, <1>2
  <2>3. f * (t2 + 1) = f * t2 + f
    BY <1>2
  <2> QED  BY <2>2, <2>3, <1>1, <1>2, <1>3 DEF AVEN_TIME_NSEC_PER_SEC
<1>5. aven_time_since(aven_time_now(end, f), aven_time_now(start, f)) = t2 - t1
  <2>1. /\ aven_time_now(end, f).tv_sec \in Nat /\ aven_time_now(end, f).tv_nsec \in Nat
        /\ aven_time_now(start, f).tv_sec \in Nat /\ aven_time_now(start, f).tv_nsec \in Nat
    <3>1. start \in Nat /\ end \in Nat /\ f \in Nat /\ f > 0
      OBVIOUS
    <3>2. \A c \in Nat : aven_time_now(c, f).tv_sec \in Nat
                         /\ aven_time_now(c, f).tv_nsec \in Nat
      <4>1. ASSUME NEW c \in Nat
            PROVE  aven_time_now(c, f).tv_sec \in Nat /\ aven_time_now(c, f).tv_nsec \in Nat
        <5>1. /\ aven_time_now(c, f).tv_sec \in Nat
              /\ aven_time_now(c, f).tv_nsec \in 0..(AVEN_TIME_NSEC_PER_SEC - 1)
          BY <4>1, InstantsAreNormal
        <5> QED  BY <5>1, NsecPositive
      <4> QED  BY <4>1
    <3> QED  BY <3>1, <3>2
  <2> QED  BY <2>1 DEF aven_time_since, Total, AVEN_TIME_NSEC_PER_SEC
<1> QED  BY <1>1, <1>2, <1>4, <1>5
=============================================================================
