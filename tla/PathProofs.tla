------------------------------ MODULE PathProofs ------------------------------
(***************************************************************************)
(* What the functions on paths compute, for paths of any characters and    *)
(* any length.  aven_str_split, aven_str_join and Resolve are folds, and   *)
(* what holds of a fold is proved by induction over sequences, which rests *)
(* on the least number of a set: AllSequences.                             *)
(***************************************************************************)
EXTENDS MCPaths, SequenceTheorems, FiniteSetTheorems, TLAPS

\* A set of numbers has a least one, because inclusion among the finite sets of
\* numbers is well founded.  Induction over numbers rests on this.
LEMMA Least ==
    ASSUME NEW T \in SUBSET Nat, T # {}
    PROVE  \E n \in T : \A m \in T : n <= m
  <1> DEFINE U == {0..n : n \in T}
  <1>1. U \subseteq FiniteSubsetsOf(Nat) /\ U # {}
    <2>1. ASSUME NEW n \in T
          PROVE  0..n \in FiniteSubsetsOf(Nat)
      <3>1. n \in Int /\ 0 \in Int /\ 0..n \subseteq Nat
        OBVIOUS
      <3>2. IsFiniteSet(0..n)
        BY <3>1, FS_Interval
      <3>3. QED
        BY <3>1, <3>2 DEF FiniteSubsetsOf
    <2>2. QED
      BY <2>1
  <1>2. PICK x \in U : \A y \in U : ~ (<<y, x>> \in StrictSubsetOrdering(Nat))
    <2> HIDE DEF U
    <2>1. QED
      BY <1>1, FS_StrictSubsetOrderingWellFounded, WFMin
  <1>3. PICK n \in T : x = 0..n
    OBVIOUS
  <1>4. ASSUME NEW m \in T, m < n
        PROVE  FALSE
    <2>1. 0..m \in U /\ 0..m \subseteq Nat /\ 0..n \subseteq Nat
      OBVIOUS
    <2>2. n \in 0..n /\ n \notin 0..m /\ 0..m \subseteq 0..n
      BY <1>4
    <2>3. <<0..m, x>> \in StrictSubsetOrdering(Nat)
      BY <1>3, <2>1, <2>2 DEF StrictSubsetOrdering
    <2>4. QED
      BY <1>2, <2>1, <2>3
  <1>5. QED
    BY <1>4

-----------------------------------------------------------------------------
(* Folds.  A function F on pairs stands for the operator that is folded.    *)

\* F takes what has been made of a sequence so far and its next element.
Folds(F, A, C) == F \in [A \X C -> A]

\* The function t holds what the fold of F over s has come to at each place.
IsWalk(t, F, b, s) ==
    /\ t = [m \in 0..Len(s) |-> t[m]]
    /\ t[0] = b
    /\ \A m \in 1..Len(s) : t[m] = F[<<t[m - 1], s[m]>>]

Along(F, b, s) == CHOOSE x : \E t : IsWalk(t, F, b, s) /\ x = t[Len(s)]

\* Folds over sequences that agree so far agree so far.
LEMMA WalksAgree ==
    ASSUME NEW C, NEW F, NEW b, NEW s \in Seq(C), NEW r \in Seq(C), NEW n \in Nat,
           n <= Len(s), n <= Len(r), \A m \in 1..n : s[m] = r[m],
           NEW t, IsWalk(t, F, b, s), NEW u, IsWalk(u, F, b, r)
    PROVE  t[n] = u[n]
  <1> DEFINE T == {m \in 0..n : t[m] # u[m]}
  <1>1. ASSUME NEW m \in T, \A k \in T : m <= k
        PROVE  FALSE
    <2>1. m # 0
      BY DEF IsWalk
    <2>2. m \in 1..n /\ m - 1 \in 0..n /\ ~ (m <= m - 1)
      BY <2>1
    <2>3. t[m - 1] = u[m - 1]
      BY <1>1, <2>2
    <2>4. m \in 1..Len(s) /\ m \in 1..Len(r)
      BY <2>2
    <2>5. QED
      BY <2>2, <2>3, <2>4 DEF IsWalk
  <1>2. T \in SUBSET Nat
    OBVIOUS
  <1>3. T = {}
    <2> HIDE DEF T
    <2>1. QED
      BY <1>1, <1>2, Least
  <1>4. QED
    BY <1>3

\* Every fold walks.
LEMMA WalkExists ==
    ASSUME NEW C, NEW A, NEW F, Folds(F, A, C), NEW b \in A, NEW s \in Seq(C)
    PROVE  \E t \in [0..Len(s) -> A] : IsWalk(t, F, b, s)
  <1> DEFINE To(t, n) == /\ t \in [0..n -> A] /\ t[0] = b
                         /\ \A m \in 1..n : t[m] = F[<<t[m - 1], s[m]>>]
             T == {n \in 0..Len(s) : ~ \E t : To(t, n)}
  <1>1. Len(s) \in Nat /\ \A m \in 1..Len(s) : s[m] \in C
    OBVIOUS
  <1>2. To([m \in 0..0 |-> b], 0)
    OBVIOUS
  <1>3. ASSUME NEW n \in 1..Len(s), NEW t, To(t, n - 1)
        PROVE  \E u : To(u, n)
    <2> DEFINE u == [m \in 0..n |-> IF m < n THEN t[m] ELSE F[<<t[n - 1], s[n]>>]]
    <2>1. F[<<t[n - 1], s[n]>>] \in A
      <3>1. t[n - 1] \in A
        BY <1>3
      <3>2. QED
        BY <1>1, <3>1 DEF Folds
    <2>2. u \in [0..n -> A] /\ u[0] = b
      BY <1>3, <2>1
    <2>3. ASSUME NEW m \in 1..n
          PROVE  u[m] = F[<<u[m - 1], s[m]>>]
      <3>1. m \in 0..n /\ m - 1 \in 0..n /\ m - 1 < n /\ u[m - 1] = t[m - 1]
        OBVIOUS
      <3>2. CASE m = n
        BY <3>1, <3>2
      <3>3. CASE m # n
        <4>1. m \in 1..(n - 1) /\ m < n
          BY <3>3
        <4>2. u[m] = t[m]
          BY <3>1, <4>1
        <4>3. t[m] = F[<<t[m - 1], s[m]>>]
          BY <1>3, <4>1
        <4>4. QED
          BY <3>1, <4>2, <4>3
      <3>4. QED
        BY <3>2, <3>3
    <2>4. To(u, n)
      BY <2>2, <2>3
    <2> HIDE DEF u, To
    <2>5. QED
      BY <2>4
  <1>4. T = {}
    <2>1. ASSUME NEW n \in T, \A m \in T : n <= m
          PROVE  FALSE
      <3> HIDE DEF To
      <3>1. n # 0
        BY <1>2
      <3>2. n \in 1..Len(s) /\ n - 1 \in 0..Len(s) /\ ~ (n <= n - 1)
        BY <1>1, <3>1
      <3>3. \E t : To(t, n - 1)
        BY <2>1, <3>2
      <3>4. QED
        BY <1>3, <3>2, <3>3
    <2>2. T \in SUBSET Nat
      BY <1>1
    <2> HIDE DEF T
    <2>3. QED
      BY <2>1, <2>2, Least
  <1>5. PICK t : To(t, Len(s))
    <2> HIDE DEF To
    <2>1. QED
      BY <1>1, <1>4
  <1>6. IsWalk(t, F, b, s)
    BY <1>5 DEF IsWalk
  <1>7. QED
    BY <1>5, <1>6

LEMMA AlongIs ==
    ASSUME NEW C, NEW s \in Seq(C), NEW F, NEW b, NEW t, IsWalk(t, F, b, s)
    PROVE  Along(F, b, s) = t[Len(s)]
  <1>1. \A u : IsWalk(u, F, b, s) => u[Len(s)] = t[Len(s)]
    <2>1. Len(s) \in Nat /\ Len(s) <= Len(s)
      OBVIOUS
    <2>2. QED
      BY <2>1, WalksAgree
  <1>2. QED
    BY <1>1 DEF Along

\* A fold moves one element at a time.
LEMMA AlongSteps ==
    ASSUME NEW C, NEW A, NEW F, Folds(F, A, C), NEW b \in A
    PROVE  /\ Along(F, b, <<>>) = b
           /\ \A s \in Seq(C) : Along(F, b, s) \in A
           /\ \A s \in Seq(C), c \in C : Along(F, b, Append(s, c)) = F[<<Along(F, b, s), c>>]
  <1>1. ASSUME NEW s \in Seq(C)
        PROVE  Along(F, b, s) \in A
    <2>1. PICK t \in [0..Len(s) -> A] : IsWalk(t, F, b, s)
      BY WalkExists
    <2>2. Along(F, b, s) = t[Len(s)]
      BY <2>1, AlongIs
    <2>3. QED
      BY <2>2
  <1>2. Along(F, b, <<>>) = b
    <2>1. <<>> \in Seq(C)
      OBVIOUS
    <2>2. PICK t \in [0..Len(<<>>) -> A] : IsWalk(t, F, b, <<>>)
      BY <2>1, WalkExists
    <2>3. Along(F, b, <<>>) = t[Len(<<>>)]
      BY <2>1, <2>2, AlongIs
    <2>4. QED
      BY <2>2, <2>3 DEF IsWalk
  <1>3. ASSUME NEW s \in Seq(C), NEW c \in C
        PROVE  Along(F, b, Append(s, c)) = F[<<Along(F, b, s), c>>]
    <2>a. Append(s, c) \in Seq(C)
      OBVIOUS
    <2>1. PICK r \in Seq(C) : r = Append(s, c)
      BY <2>a
    <2>2. Len(r) = Len(s) + 1 /\ r[Len(r)] = c /\ \A m \in 1..Len(s) : r[m] = s[m]
      BY <2>1
    <2>3. PICK t : IsWalk(t, F, b, s)
      BY WalkExists
    <2>4. PICK u : IsWalk(u, F, b, r)
      BY WalkExists
    <2>5. Len(s) \in Nat /\ Len(s) <= Len(r)
      BY <2>2
    <2>6. t[Len(s)] = u[Len(s)]
      BY <2>2, <2>3, <2>4, <2>5, WalksAgree
    <2>7. u[Len(r)] = F[<<u[Len(s)], c>>]
      <3>1. Len(r) \in 1..Len(r) /\ Len(r) - 1 = Len(s)
        BY <2>2, <2>5
      <3>2. u[Len(r)] = F[<<u[Len(r) - 1], r[Len(r)]>>]
        BY <2>4, <3>1 DEF IsWalk
      <3>3. QED
        BY <2>2, <3>1, <3>2
    <2>8. Along(F, b, s) = t[Len(s)] /\ Along(F, b, r) = u[Len(r)]
      BY <2>3, <2>4, AlongIs
    <2>9. QED
      BY <2>1, <2>6, <2>7, <2>8
  <1>4. QED
    BY <1>1, <1>2, <1>3

\* What holds of the empty sequence and is kept by Append holds of all.
LEMMA AllSequences ==
    ASSUME NEW C, NEW Good \in SUBSET Seq(C), <<>> \in Good,
           \A s \in Good, c \in C : Append(s, c) \in Good
    PROVE  \A s \in Seq(C) : s \in Good
  <1> DEFINE T == {n \in Nat : \E s \in Seq(C) : Len(s) = n /\ s \notin Good}
  <1>1. ASSUME NEW n \in T, \A m \in T : n <= m
        PROVE  FALSE
    <2>1. PICK s \in Seq(C) : Len(s) = n /\ s \notin Good
      OBVIOUS
    <2>2. s # <<>>
      BY <2>1
    <2>3. PICK r \in Seq(C), c \in C : s = Append(r, c)
      BY <2>2, SequenceEmptyOrAppend
    <2>4. Len(s) = Len(r) + 1 /\ Len(r) \in Nat
      BY <2>3, AppendProperties
    <2>5. ~ (n <= Len(r))
      BY <2>1, <2>4
    <2>6. r \in Good
      <3>1. ASSUME r \notin Good
            PROVE  Len(r) \in T
        BY <2>4, <3>1
      <3> HIDE DEF T
      <3>2. QED
        BY <1>1, <2>5, <3>1
    <2>7. QED
      BY <2>1, <2>3, <2>6
  <1>2. T = {}
    <2>1. T \in SUBSET Nat
      OBVIOUS
    <2> HIDE DEF T
    <2>2. QED
      BY <1>1, <2>1, Least
  <1>3. ASSUME NEW s \in Seq(C), s \notin Good
        PROVE  FALSE
    <2>1. Len(s) \in T
      BY <1>3
    <2>2. QED
      BY <1>2, <2>1
  <1>4. QED
    BY <1>3

LEMMA ConcatAppend ==
    ASSUME NEW C, NEW s \in Seq(C), NEW t \in Seq(C), NEW c \in C
    PROVE  /\ s \o t \in Seq(C) /\ s \o <<>> = s /\ <<>> \o s = s
           /\ s \o Append(t, c) = Append(s \o t, c)
           /\ s \o <<c>> = Append(s, c)
  BY ConcatProperties, AppendProperties, ConcatEmptySeq, AppendIsConcat, ConcatAssociative

\* A fold goes on from where it has come to.
LEMMA AlongConcat ==
    ASSUME NEW C, NEW A, NEW F, Folds(F, A, C), NEW b \in A,
           NEW s \in Seq(C), NEW t \in Seq(C)
    PROVE  Along(F, b, s \o t) = Along(F, Along(F, b, s), t)
  <1>1. PICK a \in A : a = Along(F, b, s)
    BY AlongSteps
  <1> DEFINE Done == {r \in Seq(C) : Along(F, b, s \o r) = Along(F, a, r)}
  <1>2. <<>> \in Done
    <2>1. <<>> \in Seq(C) /\ s \o <<>> = s
      BY ConcatEmptySeq
    <2>2. QED
      BY <1>1, <2>1, AlongSteps
  <1>3. ASSUME NEW r \in Done, NEW c \in C
        PROVE  Append(r, c) \in Done
    <2>1. r \in Seq(C) /\ Append(r, c) \in Seq(C) /\ s \o r \in Seq(C)
      BY ConcatProperties
    <2>2. s \o Append(r, c) = Append(s \o r, c)
      BY <2>1, ConcatAppend
    <2>3. Along(F, b, Append(s \o r, c)) = F[<<Along(F, b, s \o r), c>>]
      <3>1. PICK q \in Seq(C) : q = s \o r
        BY <2>1
      <3>2. Along(F, b, Append(q, c)) = F[<<Along(F, b, q), c>>]
        BY AlongSteps
      <3>3. QED
        BY <3>1, <3>2
    <2>4. Along(F, a, Append(r, c)) = F[<<Along(F, a, r), c>>]
      BY <2>1, AlongSteps
    <2>5. QED
      BY <2>1, <2>2, <2>3, <2>4
  <1>4. Done \in SUBSET Seq(C)
    OBVIOUS
  <1> HIDE DEF Done
  <1>5. t \in Done
    BY <1>2, <1>3, <1>4, AllSequences
  <1>6. QED
    BY <1>1, <1>5 DEF Done

-----------------------------------------------------------------------------
(* Folds of the library.  It folds over the set of the places of a sequence, *)
(* the greatest of which is the last.                                        *)

LEMMA MaxIs ==
    ASSUME NEW n \in Nat, NEW S \in SUBSET (1..n), S # {}
    PROVE  Max(S) \in S /\ \A m \in S : m <= Max(S)
  <1> DEFINE T == {k \in Nat : \A m \in S : m <= k}
  <1>1. T # {}
    <2>1. n \in T
      OBVIOUS
    <2>2. QED
      BY <2>1
  <1>2. T \in SUBSET Nat
    OBVIOUS
  <1>3. PICK k \in T : \A m \in T : k <= m
    <2> HIDE DEF T
    <2>1. QED
      BY <1>1, <1>2, Least
  <1>4. k \in S
    <2>1. SUFFICES ASSUME k \notin S
                   PROVE  FALSE
      OBVIOUS
    <2>2. \A m \in S : m <= k /\ m # k /\ m \in Nat /\ 1 <= m
      BY <2>1
    <2>3. k \in Nat /\ k - 1 \in Nat
      <3>1. PICK m : m \in S
        OBVIOUS
      <3>2. QED
        BY <2>2, <3>1
    <2>4. k - 1 \in T
      BY <2>2, <2>3
    <2>5. k <= k - 1
      BY <1>3, <2>4
    <2>6. QED
      BY <2>3, <2>5
  <1>5. \A m \in S : k >= m
    BY <1>2
  <1>6. QED
    <2>1. \E x \in S : \A y \in S : x >= y
      BY <1>4, <1>5
    <2>2. Max(S) \in S /\ \A y \in S : Max(S) >= y
      BY <2>1 DEF Max
    <2>3. QED
      BY <2>2

LEMMA MaxIsBound ==
    ASSUME NEW n \in Nat, NEW S \in SUBSET (1..n), n \in S
    PROVE  Max(S) = n
  <1>1. PICK k \in 1..n : k = Max(S) /\ n <= k
    BY MaxIs
  <1>2. QED
    BY <1>1

LEMMA MaxOfAll ==
    ASSUME NEW n \in Nat, n # 0
    PROVE  Max(1..n) = n /\ (1..n) \ {n} = 1..(n - 1)
  <1>1. 1..n \in SUBSET (1..n) /\ 1..n # {} /\ n \in 1..n
    OBVIOUS
  <1>2. Max(1..n) \in 1..n /\ n <= Max(1..n)
    BY <1>1, MaxIs
  <1>3. QED
    BY <1>2

\* A function that solves the recursion of the library's folds.
Solves(h, F, b, s) == \A S \in SUBSET DOMAIN s :
    h[S] = IF S = {} THEN b ELSE F[<<h[S \ {Max(S)}], s[Max(S)]>>]

LEMMA SolutionExists ==
    ASSUME NEW C, NEW A, NEW F, Folds(F, A, C), NEW b \in A, NEW s \in Seq(C)
    PROVE  \E h \in [SUBSET DOMAIN s -> A] : Solves(h, F, b, s)
  <1> DEFINE To(h, n) == /\ h \in [SUBSET (1..n) -> A]
                         /\ \A S \in SUBSET (1..n) : h[S] =
                              IF S = {} THEN b ELSE F[<<h[S \ {Max(S)}], s[Max(S)]>>]
             T == {n \in 0..Len(s) : ~ \E h : To(h, n)}
  <1>1. Len(s) \in Nat /\ DOMAIN s = 1..Len(s) /\ \A m \in 1..Len(s) : s[m] \in C
    OBVIOUS
  <1>2. To([S \in SUBSET (1..0) |-> b], 0)
    <2>1. \A S \in SUBSET (1..0) : S = {}
      OBVIOUS
    <2>2. QED
      BY <2>1
  <1>3. ASSUME NEW n \in 1..Len(s), NEW h, To(h, n - 1)
        PROVE  \E g : To(g, n)
    <2> DEFINE g == [S \in SUBSET (1..n) |->
                        IF n \in S THEN F[<<h[S \ {n}], s[n]>>] ELSE h[S]]
    <2>1. \A S \in SUBSET (1..n) : /\ S \ {n} \in SUBSET (1..(n - 1))
                                   /\ n \notin S => S \in SUBSET (1..(n - 1))
      BY <1>1
    <2>2. g \in [SUBSET (1..n) -> A]
      <3>1. ASSUME NEW S \in SUBSET (1..n)
            PROVE  (IF n \in S THEN F[<<h[S \ {n}], s[n]>>] ELSE h[S]) \in A
        <4>1. h[S \ {n}] \in A /\ s[n] \in C
          BY <1>1, <1>3, <2>1
        <4>2. F[<<h[S \ {n}], s[n]>>] \in A
          BY <4>1 DEF Folds
        <4>3. n \notin S => h[S] \in A
          BY <1>3, <2>1
        <4>4. QED
          BY <4>2, <4>3
      <3>2. QED
        BY <3>1
    <2>3. ASSUME NEW S \in SUBSET (1..n), S # {}
          PROVE  g[S] = F[<<g[S \ {Max(S)}], s[Max(S)]>>]
      <3>1. Max(S) \in S /\ \A m \in S : m <= Max(S)
        <4>1. n \in Nat
          BY <1>1
        <4> HIDE DEF g
        <4>2. QED
          BY <2>3, <4>1, MaxIs
      <3>2. CASE n \in S
        <4>1. Max(S) = n
          <5>1. n \in Nat
            BY <1>1
          <5> HIDE DEF g
          <5>2. QED
            BY <3>2, <5>1, MaxIsBound
        <4>2. S \ {n} \in SUBSET (1..n) /\ n \notin S \ {n}
          OBVIOUS
        <4>3. g[S \ {n}] = h[S \ {n}]
          BY <4>2
        <4>4. QED
          BY <3>2, <4>1, <4>3
      <3>3. CASE n \notin S
        <4>1. S \in SUBSET (1..(n - 1)) /\ S \ {Max(S)} \in SUBSET (1..n) /\ n \notin S \ {Max(S)}
          BY <2>1, <3>3
        <4>2. g[S] = h[S] /\ g[S \ {Max(S)}] = h[S \ {Max(S)}]
          BY <3>3, <4>1
        <4>3. h[S] = F[<<h[S \ {Max(S)}], s[Max(S)]>>]
          BY <1>3, <2>3, <4>1
        <4>4. QED
          BY <4>2, <4>3
      <3>4. QED
        BY <3>2, <3>3
    <2>4. g[{}] = b
      <3>1. {} \in SUBSET (1..n) /\ {} \in SUBSET (1..(n - 1))
        OBVIOUS
      <3>2. QED
        BY <1>3, <3>1
    <2> HIDE DEF g
    <2>5. To(g, n)
      BY <2>2, <2>3, <2>4
    <2> HIDE DEF To
    <2>6. QED
      BY <2>5
  <1>4. T = {}
    <2>1. ASSUME NEW n \in T, \A m \in T : n <= m
          PROVE  FALSE
      <3> HIDE DEF To
      <3>1. n # 0
        BY <1>2
      <3>2. n \in 1..Len(s) /\ n - 1 \in 0..Len(s) /\ ~ (n <= n - 1)
        BY <1>1, <3>1
      <3>3. \E h : To(h, n - 1)
        BY <2>1, <3>2
      <3>4. QED
        BY <1>3, <3>2, <3>3
    <2>2. T \in SUBSET Nat
      BY <1>1
    <2> HIDE DEF T
    <2>3. QED
      BY <2>1, <2>2, Least
  <1>5. PICK h : To(h, Len(s))
    <2> HIDE DEF To
    <2>1. QED
      BY <1>1, <1>4
  <1>6. h \in [SUBSET DOMAIN s -> A] /\ Solves(h, F, b, s)
    BY <1>1, <1>5 DEF Solves
  <1>7. QED
    BY <1>6

\* As it does as long as it is in A.
Follows(h, F, A, b, s) ==
    /\ h[{}] = b
    /\ \A S \in SUBSET DOMAIN s : S # {} /\ h[S \ {Max(S)}] \in A =>
            h[S] = F[<<h[S \ {Max(S)}], s[Max(S)]>>]

LEMMA SolutionIsAlong ==
    ASSUME NEW C, NEW A, NEW F, Folds(F, A, C), NEW b \in A, NEW s \in Seq(C),
           NEW h, Follows(h, F, A, b, s)
    PROVE  h[DOMAIN s] = Along(F, b, s)
  <1>1. Len(s) \in Nat /\ DOMAIN s = 1..Len(s)
    OBVIOUS
  <1>2. PICK t \in [0..Len(s) -> A] : IsWalk(t, F, b, s)
    BY WalkExists
  <1> DEFINE T == {n \in 0..Len(s) : h[1..n] # t[n]}
  <1>3. h[1..0] = t[0]
    <2>1. 1..0 = {}
      OBVIOUS
    <2>2. QED
      BY <1>2, <2>1 DEF IsWalk, Follows
  <1>4. ASSUME NEW n \in 1..Len(s), h[1..(n - 1)] = t[n - 1]
        PROVE  h[1..n] = t[n]
    <2>1. 1..n \in SUBSET DOMAIN s /\ 1..n # {} /\ n \in Nat /\ n # 0
      <3>1. n \in Nat /\ n # 0 /\ n \in 1..n
        BY <1>1
      <3>2. 1..n \subseteq 1..Len(s)
        BY <1>1
      <3>3. QED
        BY <1>1, <3>1, <3>2
    <2>2. Max(1..n) = n /\ (1..n) \ {n} = 1..(n - 1)
      BY <2>1, MaxOfAll
    <2>3. h[(1..n) \ {Max(1..n)}] = t[n - 1] /\ n - 1 \in 0..Len(s)
      BY <1>1, <1>4, <2>2
    <2>4. h[1..n] = F[<<h[(1..n) \ {Max(1..n)}], s[Max(1..n)]>>]
      BY <1>2, <2>1, <2>3 DEF Follows
    <2>5. t[n] = F[<<t[n - 1], s[n]>>]
      BY <1>2 DEF IsWalk
    <2>6. QED
      BY <2>2, <2>3, <2>4, <2>5
  <1>5. T = {}
    <2>1. ASSUME NEW n \in T, \A m \in T : n <= m
          PROVE  FALSE
      <3>1. n # 0
        BY <1>3
      <3>2. n \in 1..Len(s) /\ n - 1 \in 0..Len(s) /\ ~ (n <= n - 1)
        BY <1>1, <3>1
      <3>3. h[1..(n - 1)] = t[n - 1]
        BY <2>1, <3>2
      <3>4. QED
        BY <1>4, <3>2, <3>3
    <2>2. T \in SUBSET Nat
      BY <1>1
    <2> HIDE DEF T
    <2>3. QED
      BY <2>1, <2>2, Least
  <1>6. h[1..Len(s)] = t[Len(s)]
    BY <1>1, <1>5
  <1>7. QED
    BY <1>1, <1>2, <1>6, AlongIs

-----------------------------------------------------------------------------
(* aven_str_split *)

Word(C, sep) == Seq(C \ {sep})
Words(C, sep) == Seq(Word(C, sep) \ {<<>>})
Reader(C, sep) == [word : Word(C, sep), words : Words(C, sep)]
Add(a, c) == [word |-> Append(a.word, c), words |-> a.words]
Flush(a) == [word |-> <<>>, words |-> IF a.word = <<>> THEN a.words ELSE Append(a.words, a.word)]
ReadF(C, sep) == [x \in Reader(C, sep) \X C |->
    IF x[2] # sep THEN Add(x[1], x[2]) ELSE Flush(x[1])]
Fresh == [word |-> <<>>, words |-> <<>>]

LEMMA AddIs ==
    ASSUME NEW C, NEW sep, NEW a \in Reader(C, sep), NEW c
    PROVE  [a EXCEPT !.word = Append(@, c)] = Add(a, c)
  <1>1. PICK v \in Word(C, sep), ws \in Words(C, sep) : a = [word |-> v, words |-> ws]
    BY DEF Reader
  <1>2. PICK w : w = Append(v, c)
    OBVIOUS
  <1>3. [a EXCEPT !.word = w] = [word |-> w, words |-> ws]
    BY <1>1
  <1>4. QED
    BY <1>1, <1>2, <1>3 DEF Add

\* The parts of a reader.
Now(v, ws) == [word |-> v, words |-> ws]

LEMMA ReaderIs ==
    ASSUME NEW C, NEW sep
    PROVE  /\ \A v \in Word(C, sep), ws \in Words(C, sep) : Now(v, ws) \in Reader(C, sep)
           /\ \A a \in Reader(C, sep) : \E v \in Word(C, sep), ws \in Words(C, sep) : a = Now(v, ws)
  BY DEF Now, Reader

LEMMA NowIs ==
    ASSUME NEW v, NEW ws
    PROVE  /\ Now(v, ws).word = v /\ Now(v, ws).words = ws
           /\ Flush(Now(v, ws)) = Now(<<>>, IF v = <<>> THEN ws ELSE Append(ws, v))
           /\ \A c : Add(Now(v, ws), c) = Now(Append(v, c), ws)
           /\ Fresh = Now(<<>>, <<>>)
  BY DEF Now, Flush, Add, Fresh

LEMMA NowSame ==
    ASSUME NEW v, NEW ws, NEW w, NEW xs, Now(v, ws) = Now(w, xs)
    PROVE  v = w /\ ws = xs
  BY NowIs

LEMMA WordsConcat ==
    ASSUME NEW C, NEW sep, NEW vs \in Words(C, sep), NEW ws \in Words(C, sep)
    PROVE  /\ vs \o ws \in Words(C, sep) /\ ws \o <<>> = ws /\ <<>> \o ws = ws
           /\ \A v \in Word(C, sep) : v # <<>> => vs \o Append(ws, v) = Append(vs \o ws, v)
           /\ <<>> \in Words(C, sep) /\ <<>> \in Word(C, sep)
  <1>1. \A v \in Word(C, sep) \ {<<>>} : vs \o Append(ws, v) = Append(vs \o ws, v)
    BY ConcatAppend DEF Words
  <1>2. vs \o ws \in Words(C, sep)
    BY ConcatProperties DEF Words
  <1>3. ws \o <<>> = ws /\ <<>> \o ws = ws
    BY ConcatEmptySeq DEF Words
  <1>4. QED
    BY <1>1, <1>2, <1>3 DEF Words, Word

LEMMA ReadFIs ==
    ASSUME NEW C, NEW sep, NEW a \in Reader(C, sep), NEW c \in C
    PROVE  ReadF(C, sep)[<<a, c>>] =
                IF c # sep THEN Add(a, c) ELSE Flush(a)
  BY DEF ReadF

LEMMA ReadFolds ==
    ASSUME NEW C, NEW sep
    PROVE  /\ Folds(ReadF(C, sep), Reader(C, sep), C) /\ Fresh \in Reader(C, sep)
           /\ \A a \in Reader(C, sep) : Flush(a) \in Reader(C, sep)
  <1>1. Fresh \in Reader(C, sep)
    BY DEF Fresh, Reader, Word, Words
  <1>2. ASSUME NEW a \in Reader(C, sep)
        PROVE  Flush(a) \in Reader(C, sep)
    <2>1. a.word \in Word(C, sep) /\ a.words \in Words(C, sep) /\ <<>> \in Word(C, sep)
      BY DEF Reader, Word
    <2>2. a.word # <<>> => Append(a.words, a.word) \in Words(C, sep)
      BY <2>1 DEF Words
    <2>3. QED
      BY <2>1, <2>2 DEF Flush, Reader
  <1>3. ASSUME NEW a \in Reader(C, sep), NEW c \in C, c # sep
        PROVE  Add(a, c) \in Reader(C, sep)
    <2>1. a.word \in Seq(C \ {sep}) /\ c \in C \ {sep}
      BY <1>3 DEF Reader, Word
    <2>2. Append(a.word, c) \in Seq(C \ {sep})
      BY <2>1
    <2>3. QED
      BY <2>2 DEF Reader, Word, Add
  <1>5. Folds(ReadF(C, sep), Reader(C, sep), C)
    <2> DEFINE G(x) == IF x[2] # sep THEN Add(x[1], x[2]) ELSE Flush(x[1])
    <2>1. \A x \in Reader(C, sep) \X C : G(x) \in Reader(C, sep)
      BY <1>2, <1>3
    <2>2. ReadF(C, sep) = [x \in Reader(C, sep) \X C |-> G(x)]
      BY DEF ReadF
    <2> HIDE DEF G
    <2>3. QED
      BY <2>1, <2>2 DEF Folds
  <1>6. QED
    BY <1>1, <1>2, <1>5

LEMMA SplitIsAlong ==
    ASSUME NEW C, NEW sep \in C, NEW s \in Seq(C)
    PROVE  aven_str_split(s, sep) = Along(ReadF(C, sep), Fresh, Append(s, sep)).words
  <1>0. Append(s, sep) \in Seq(C)
    OBVIOUS
  <1>1. PICK r \in Seq(C) : r = Append(s, sep)
    BY <1>0
  <1> DEFINE Char(a, c) ==
            IF c # sep THEN [a EXCEPT !.word = Append(@, c)]
            ELSE [word |-> <<>>,
                  words |-> IF a.word = <<>> THEN a.words ELSE Append(a.words, a.word)]
  <1> DEFINE Iter(h) == [S \in SUBSET DOMAIN r |->
            IF S = {} THEN Fresh ELSE Char(h[S \ {Max(S)}], r[Max(S)])]
             iter == CHOOSE h : h = Iter(h)
  <1>2. \A a \in Reader(C, sep), c \in C : ReadF(C, sep)[<<a, c>>] = Char(a, c)
    <2> TAKE a \in Reader(C, sep), c \in C
    <2> HIDE DEF iter, Iter
    <2>1. ReadF(C, sep)[<<a, c>>] = IF c # sep THEN Add(a, c) ELSE Flush(a)
      BY ReadFIs
    <2>2. [a EXCEPT !.word = Append(@, c)] = Add(a, c)
      BY AddIs
    <2>3. QED
      BY <2>1, <2>2 DEF Flush
  <1>3. aven_str_split(s, sep) = iter[DOMAIN r].words
    BY <1>1 DEF aven_str_split, FoldLeft, MapThenFoldSet, Fresh
  <1>4. iter = Iter(iter)
    <2> HIDE DEF iter, Iter, Char
    <2>0. Folds(ReadF(C, sep), Reader(C, sep), C) /\ Fresh \in Reader(C, sep)
      BY ReadFolds
    <2>1. PICK h \in [SUBSET DOMAIN r -> Reader(C, sep)] : Solves(h, ReadF(C, sep), Fresh, r)
      BY <2>0, SolutionExists
    <2>2. ASSUME NEW S \in SUBSET DOMAIN r, S # {}
          PROVE  h[S] = Char(h[S \ {Max(S)}], r[Max(S)])
      <3>1. h[S] = ReadF(C, sep)[<<h[S \ {Max(S)}], r[Max(S)]>>]
        BY <2>1, <2>2 DEF Solves
      <3>2. Max(S) \in DOMAIN r
        <4>1. Len(r) \in Nat /\ DOMAIN r = 1..Len(r)
          OBVIOUS
        <4>2. QED
          BY <2>2, <4>1, MaxIs
      <3>3. h[S \ {Max(S)}] \in Reader(C, sep) /\ r[Max(S)] \in C
        BY <2>1, <3>2
      <3>4. ReadF(C, sep)[<<h[S \ {Max(S)}], r[Max(S)]>>] = Char(h[S \ {Max(S)}], r[Max(S)])
        BY <1>2, <3>3
      <3>5. QED
        BY <3>1, <3>4
    <2>3. h[{}] = Fresh
      BY <2>1 DEF Solves
    <2>4. h = Iter(h)
      BY <2>1, <2>2, <2>3 DEF Iter
    <2>5. QED
      BY <2>4 DEF iter
  <1>5. \A S \in SUBSET DOMAIN r : iter[S] =
            IF S = {} THEN Fresh ELSE Char(iter[S \ {Max(S)}], r[Max(S)])
    <2> HIDE DEF iter, Char
    <2>1. QED
      BY <1>4
  <1> HIDE DEF iter, Char, Iter
  <1>6. ASSUME NEW S \in SUBSET DOMAIN r, S # {}, iter[S \ {Max(S)}] \in Reader(C, sep)
        PROVE  iter[S] = ReadF(C, sep)[<<iter[S \ {Max(S)}], r[Max(S)]>>]
    <2>1. Max(S) \in DOMAIN r
      <3>1. Len(r) \in Nat /\ DOMAIN r = 1..Len(r)
        OBVIOUS
      <3>2. QED
        BY <1>6, <3>1, MaxIs
    <2>2. r[Max(S)] \in C
      BY <2>1
    <2>3. QED
      BY <1>2, <1>5, <1>6, <2>2
  <1>7. iter[{}] = Fresh
    BY <1>5
  <1>8. Folds(ReadF(C, sep), Reader(C, sep), C) /\ Fresh \in Reader(C, sep)
    BY ReadFolds
  <1>9. iter[DOMAIN r] = Along(ReadF(C, sep), Fresh, r)
    <2>1. Follows(iter, ReadF(C, sep), Reader(C, sep), Fresh, r)
      BY <1>6, <1>7 DEF Follows
    <2>2. QED
      BY <1>8, <2>1, SolutionIsAlong
  <1>10. QED
    BY <1>1, <1>3, <1>9

\* What has been read of a string.
Rd(C, sep, s) == Along(ReadF(C, sep), Fresh, s)

LEMMA ReadSteps ==
    ASSUME NEW C, NEW sep \in C, NEW s \in Seq(C)
    PROVE  /\ Rd(C, sep, <<>>) = Fresh
           /\ Rd(C, sep, s) \in Reader(C, sep)
           /\ Rd(C, sep, Append(s, sep)) = Flush(Rd(C, sep, s))
           /\ \A c \in C \ {sep} : Rd(C, sep, Append(s, c)) = Add(Rd(C, sep, s), c)
           /\ aven_str_split(s, sep) = Flush(Rd(C, sep, s)).words
  <1>1. Folds(ReadF(C, sep), Reader(C, sep), C) /\ Fresh \in Reader(C, sep)
    BY ReadFolds
  <1>2. /\ Rd(C, sep, <<>>) = Fresh /\ Rd(C, sep, s) \in Reader(C, sep)
        /\ \A c \in C : Rd(C, sep, Append(s, c)) = ReadF(C, sep)[<<Rd(C, sep, s), c>>]
    BY <1>1, AlongSteps DEF Rd
  <1>a. PICK a \in Reader(C, sep) : a = Rd(C, sep, s)
    BY <1>2
  <1>3. Rd(C, sep, Append(s, sep)) = Flush(Rd(C, sep, s))
    <2>1. ReadF(C, sep)[<<a, sep>>] = Flush(a)
      BY ReadFIs
    <2>2. QED
      BY <1>2, <1>a, <2>1
  <1>4. \A c \in C \ {sep} : Rd(C, sep, Append(s, c)) = Add(Rd(C, sep, s), c)
    <2> TAKE c \in C \ {sep}
    <2>1. ReadF(C, sep)[<<a, c>>] = Add(a, c)
      BY ReadFIs
    <2>2. QED
      BY <1>2, <1>a, <2>1
  <1>5. aven_str_split(s, sep) = Rd(C, sep, Append(s, sep)).words
    BY SplitIsAlong DEF Rd
  <1>6. QED
    BY <1>2, <1>3, <1>4, <1>5

\* After a separator the words of the rest are read as if it stood alone.
LEMMA ReadGoesOn ==
    ASSUME NEW C, NEW sep \in C, NEW ws \in Words(C, sep), NEW t \in Seq(C),
           NEW v \in Word(C, sep), NEW vs \in Words(C, sep), Rd(C, sep, t) = Now(v, vs)
    PROVE  Along(ReadF(C, sep), Now(<<>>, ws), t) = Now(v, ws \o vs)
  <1>1. PICK b \in Reader(C, sep) : b = Now(<<>>, ws)
    BY WordsConcat, ReaderIs
  <1>2. Folds(ReadF(C, sep), Reader(C, sep), C)
    BY ReadFolds
  <1> DEFINE Done == {r \in Seq(C) : \A w \in Word(C, sep), xs \in Words(C, sep) :
                Rd(C, sep, r) = Now(w, xs) => Along(ReadF(C, sep), b, r) = Now(w, ws \o xs)}
  <1>3. <<>> \in Done
    <2>1. Along(ReadF(C, sep), b, <<>>) = b
      BY <1>2, AlongSteps
    <2>2. Rd(C, sep, <<>>) = Now(<<>>, <<>>)
      BY ReadSteps, NowIs
    <2>3. ws \o <<>> = ws
      BY WordsConcat
    <2>a. <<>> \in Seq(C)
      OBVIOUS
    <2>4. PICK e \in Seq(C) : e = <<>>
      BY <2>a
    <2>5. ASSUME NEW w, NEW xs, Rd(C, sep, e) = Now(w, xs)
          PROVE  w = <<>> /\ xs = <<>>
      BY <2>2, <2>4, <2>5, NowSame
    <2>6. Along(ReadF(C, sep), b, e) = Now(<<>>, ws \o <<>>)
      BY <1>1, <2>1, <2>3, <2>4
    <2>7. e \in Done
      BY <2>5, <2>6
    <2>8. QED
      BY <2>4, <2>7
  <1>4. ASSUME NEW r \in Done, NEW c \in C
        PROVE  Append(r, c) \in Done
    <2>1. r \in Seq(C) /\ Append(r, c) \in Seq(C)
      OBVIOUS
    <2>2. PICK w \in Word(C, sep), xs \in Words(C, sep) : Rd(C, sep, r) = Now(w, xs)
      BY <2>1, ReadSteps, ReaderIs
    <2>3. PICK us \in Words(C, sep) : us = ws \o xs
      BY WordsConcat
    <2>4. PICK a \in Reader(C, sep) : a = Now(w, us)
      BY ReaderIs
    <2>5. Along(ReadF(C, sep), b, r) = a
      BY <2>2, <2>3, <2>4
    <2> HIDE DEF Done
    <2>6. Along(ReadF(C, sep), b, Append(r, c)) = ReadF(C, sep)[<<a, c>>]
      BY <1>2, <2>1, <2>5, AlongSteps
    <2>7. CASE c # sep
      <3>1. Rd(C, sep, Append(r, c)) = Now(Append(w, c), xs)
        <4>1. Rd(C, sep, Append(r, c)) = Add(Rd(C, sep, r), c)
          BY <2>1, <2>7, ReadSteps
        <4>2. QED
          BY <2>2, <4>1, NowIs
      <3>2. ReadF(C, sep)[<<a, c>>] = Now(Append(w, c), us)
        <4>1. ReadF(C, sep)[<<a, c>>] = Add(a, c)
          BY <2>7, ReadFIs
        <4>2. QED
          BY <2>4, <4>1, NowIs
      <3>3. QED
        BY <2>1, <2>3, <2>6, <3>1, <3>2, NowSame DEF Done
    <2>8. CASE c = sep
      <3>1. PICK ys : ys = IF w = <<>> THEN xs ELSE Append(xs, w)
        OBVIOUS
      <3>2. Rd(C, sep, Append(r, c)) = Now(<<>>, ys)
        <4>1. Rd(C, sep, Append(r, c)) = Flush(Rd(C, sep, r))
          BY <2>1, <2>8, ReadSteps
        <4>2. QED
          BY <2>2, <3>1, <4>1, NowIs
      <3>3. ReadF(C, sep)[<<a, c>>] = Now(<<>>, ws \o ys)
        <4>1. ReadF(C, sep)[<<a, c>>] = Flush(a)
          BY <2>8, ReadFIs
        <4>2. w # <<>> => ws \o Append(xs, w) = Append(ws \o xs, w)
          BY WordsConcat
        <4>3. (IF w = <<>> THEN us ELSE Append(us, w)) = ws \o ys
          BY <2>3, <3>1, <4>2
        <4>4. Flush(a) = Now(<<>>, IF w = <<>> THEN us ELSE Append(us, w))
          BY <2>4, NowIs
        <4>5. QED
          BY <4>1, <4>3, <4>4
      <3>4. QED
        BY <2>1, <2>6, <3>2, <3>3, NowSame DEF Done
    <2>9. QED
      BY <2>7, <2>8
  <1>5. Done \in SUBSET Seq(C)
    OBVIOUS
  <1>6. t \in Done
    <2> HIDE DEF Done
    <2>1. QED
      BY <1>3, <1>4, <1>5, AllSequences
  <1>7. QED
    BY <1>1, <1>6

LEMMA SplitIs ==
    ASSUME NEW C, NEW sep \in C, NEW s \in Seq(C),
           NEW v \in Word(C, sep), NEW ws \in Words(C, sep), Rd(C, sep, s) = Now(v, ws)
    PROVE  aven_str_split(s, sep) = IF v = <<>> THEN ws ELSE Append(ws, v)
  <1>1. aven_str_split(s, sep) = Flush(Now(v, ws)).words
    BY ReadSteps
  <1>2. QED
    BY <1>1, NowIs

LEMMA SplitType ==
    ASSUME NEW C, NEW sep \in C, NEW s \in Seq(C)
    PROVE  aven_str_split(s, sep) \in Words(C, sep)
  <1>1. Flush(Rd(C, sep, s)) \in Reader(C, sep)
    BY ReadSteps, ReadFolds
  <1>2. QED
    BY <1>1, ReadSteps DEF Reader

\* A separator parts the words before it from those after it.
LEMMA SplitConcat ==
    ASSUME NEW C, NEW sep \in C, NEW s \in Seq(C), NEW t \in Seq(C)
    PROVE  aven_str_split(Append(s, sep) \o t, sep) =
                aven_str_split(s, sep) \o aven_str_split(t, sep)
  <1>1. PICK ws \in Words(C, sep) : ws = aven_str_split(s, sep)
    BY SplitType
  <1>2. PICK v \in Word(C, sep), vs \in Words(C, sep) : Rd(C, sep, t) = Now(v, vs)
    BY ReadSteps, ReaderIs
  <1>3. PICK us \in Words(C, sep) : us = ws \o vs
    BY WordsConcat
  <1>4. Append(s, sep) \in Seq(C)
    OBVIOUS
  <1>5. PICK r \in Seq(C) : r = Append(s, sep)
    BY <1>4
  <1>6. PICK q \in Seq(C) : q = r \o t
    BY ConcatAppend
  <1>7. Rd(C, sep, r) = Now(<<>>, ws)
    <2>1. Rd(C, sep, r) = Flush(Rd(C, sep, s)) /\ ws = Flush(Rd(C, sep, s)).words
      BY <1>1, <1>5, ReadSteps
    <2>2. PICK w, xs : Rd(C, sep, s) = Now(w, xs)
      BY ReadSteps, ReaderIs
    <2>3. QED
      BY <2>1, <2>2, NowIs
  <1>8. Rd(C, sep, q) = Along(ReadF(C, sep), Rd(C, sep, r), t)
    <2>1. Folds(ReadF(C, sep), Reader(C, sep), C) /\ Fresh \in Reader(C, sep)
      BY ReadFolds
    <2>2. Along(ReadF(C, sep), Fresh, r \o t) =
            Along(ReadF(C, sep), Along(ReadF(C, sep), Fresh, r), t)
      BY <2>1, AlongConcat
    <2>3. QED
      BY <1>6, <2>2 DEF Rd
  <1>9. Rd(C, sep, q) = Now(v, us)
    BY <1>2, <1>3, <1>7, <1>8, ReadGoesOn
  <1>10. v # <<>> => ws \o Append(vs, v) = Append(ws \o vs, v)
    BY WordsConcat
  <1>11. aven_str_split(q, sep) = IF v = <<>> THEN us ELSE Append(us, v)
    BY <1>9, SplitIs
  <1>12. aven_str_split(t, sep) = IF v = <<>> THEN vs ELSE Append(vs, v)
    BY <1>2, SplitIs
  <1>13. QED
    BY <1>1, <1>3, <1>5, <1>6, <1>10, <1>11, <1>12

\* What holds no separator is one word.
LEMMA SplitWord ==
    ASSUME NEW C, NEW sep \in C, NEW w \in Word(C, sep)
    PROVE  /\ w \in Seq(C) /\ Rd(C, sep, w) = Now(w, <<>>)
           /\ aven_str_split(w, sep) = IF w = <<>> THEN <<>> ELSE <<w>>
  <1> DEFINE Done == {r \in Seq(C \ {sep}) : r \in Seq(C) /\ Rd(C, sep, r) = Now(r, <<>>)}
  <1>1. <<>> \in Done
    <2>a. <<>> \in Seq(C) /\ <<>> \in Seq(C \ {sep})
      OBVIOUS
    <2>1. PICK e \in Seq(C) : e = <<>> /\ e \in Seq(C \ {sep})
      BY <2>a
    <2>2. Rd(C, sep, e) = Now(e, <<>>)
      BY <2>1, ReadSteps, NowIs
    <2>3. QED
      BY <2>1, <2>2
  <1>2. ASSUME NEW r \in Done, NEW c \in C \ {sep}
        PROVE  Append(r, c) \in Done
    <2>1. Rd(C, sep, Append(r, c)) = Add(Rd(C, sep, r), c)
      BY ReadSteps
    <2>2. Append(r, c) \in Seq(C \ {sep}) /\ Append(r, c) \in Seq(C)
      OBVIOUS
    <2>3. QED
      BY <2>1, <2>2, NowIs
  <1>3. w \in Done
    <2>1. Done \in SUBSET Seq(C \ {sep}) /\ w \in Seq(C \ {sep})
      BY DEF Word
    <2> HIDE DEF Done
    <2>2. QED
      BY <1>1, <1>2, <2>1, AllSequences
  <1>4. <<>> \in Words(C, sep) /\ Append(<<>>, w) = <<w>>
    BY DEF Words
  <1>5. aven_str_split(w, sep) = IF w = <<>> THEN <<>> ELSE Append(<<>>, w)
    <2>1. PICK ws \in Words(C, sep) : ws = <<>>
      BY <1>4
    <2>2. w \in Seq(C) /\ Rd(C, sep, w) = Now(w, ws)
      BY <1>3, <2>1
    <2> HIDE DEF Done
    <2>3. aven_str_split(w, sep) = IF w = <<>> THEN ws ELSE Append(ws, w)
      BY <2>2, SplitIs
    <2>4. QED
      BY <2>1, <2>3
  <1>6. QED
    BY <1>3, <1>4, <1>5

LEMMA SplitEnds ==
    ASSUME NEW C, NEW sep \in C, NEW s \in Seq(C)
    PROVE  /\ aven_str_split(<<>>, sep) = <<>>
           /\ aven_str_split(Append(s, sep), sep) = aven_str_split(s, sep)
  <1>1. <<>> \in Word(C, sep) /\ <<>> \in Seq(C)
    BY DEF Word
  <1>2. aven_str_split(<<>>, sep) = <<>>
    BY <1>1, SplitWord
  <1>3. Append(s, sep) \in Seq(C)
    OBVIOUS
  <1>4. Append(s, sep) \o <<>> = Append(s, sep)
    BY <1>3, ConcatAppend
  <1>5. aven_str_split(Append(s, sep), sep) = aven_str_split(s, sep) \o <<>>
    <2>1. aven_str_split(Append(s, sep) \o <<>>, sep) =
            aven_str_split(s, sep) \o aven_str_split(<<>>, sep)
      BY <1>1, SplitConcat
    <2>2. QED
      BY <1>2, <1>4, <2>1
  <1>6. QED
    BY <1>2, <1>5, SplitType, ConcatAppend DEF Words

-----------------------------------------------------------------------------
(* aven_str_join *)

\* The function t holds what each sequence of seqs adds to those before it.
Flattens(t, C, seqs) ==
    /\ t \in [0..Len(seqs) -> Seq(C)] /\ t[0] = <<>>
    /\ \A n \in 1..Len(seqs) : t[n] = t[n - 1] \o seqs[n]

LEMMA FlattenIs ==
    ASSUME NEW C, NEW seqs \in Seq(Seq(C))
    PROVE  \E t : Flattens(t, C, seqs) /\ FlattenSeq(seqs) = t[Len(seqs)]
  <1> DEFINE CatF == [x \in Seq(C) \X Seq(C) |-> x[1] \o x[2]]
  <1>1. Len(seqs) \in Nat /\ \A n \in 1..Len(seqs) : seqs[n] \in Seq(C)
    OBVIOUS
  <1>2. Folds(CatF, Seq(C), Seq(C)) /\ <<>> \in Seq(C)
    <2>1. \A x \in Seq(C) \X Seq(C) : x[1] \o x[2] \in Seq(C)
      OBVIOUS
    <2>2. QED
      BY <2>1 DEF Folds
  <1>3. \A a, c \in Seq(C) : CatF[<<a, c>>] = a \o c
    OBVIOUS
  <1> HIDE DEF CatF
  <1>4. PICK t \in [0..Len(seqs) -> Seq(C)] : IsWalk(t, CatF, <<>>, seqs)
    BY <1>2, WalkExists
  <1>5. Flattens(t, C, seqs)
    <2>1. ASSUME NEW n \in 1..Len(seqs)
          PROVE  t[n] = t[n - 1] \o seqs[n]
      <3>0. n - 1 \in 0..Len(seqs)
        BY <1>1
      <3>1. t[n - 1] \in Seq(C) /\ seqs[n] \in Seq(C)
        BY <1>1, <3>0
      <3>2. t[n] = CatF[<<t[n - 1], seqs[n]>>]
        BY <1>4 DEF IsWalk
      <3>3. QED
        BY <1>3, <3>1, <3>2
    <2>2. QED
      BY <1>4, <2>1 DEF Flattens, IsWalk
  <1>6. CASE Len(seqs) = 0
    <2>1. FlattenSeq(seqs) = seqs /\ seqs = <<>>
      BY <1>6 DEF FlattenSeq
    <2>2. QED
      BY <1>5, <1>6, <2>1 DEF Flattens
  <1>7. CASE Len(seqs) # 0
    <2> DEFINE Flat(h) == [i \in 1..Len(seqs) |->
                    IF i = 1 THEN seqs[i] ELSE h[i - 1] \o seqs[i]]
               flatten == CHOOSE h : h = Flat(h)
    <2>1. FlattenSeq(seqs) = flatten[Len(seqs)]
      BY <1>7 DEF FlattenSeq
    <2>2. flatten = Flat(flatten)
      <3>1. PICK h : h = [i \in 1..Len(seqs) |-> t[i]]
        OBVIOUS
      <3>2. ASSUME NEW i \in 1..Len(seqs)
            PROVE  h[i] = IF i = 1 THEN seqs[i] ELSE h[i - 1] \o seqs[i]
        <4>1. h[i] = t[i - 1] \o seqs[i]
          BY <1>5, <3>1 DEF Flattens
        <4>2. CASE i = 1
          <5>1. t[i - 1] = <<>> /\ <<>> \o seqs[i] = seqs[i]
            BY <1>1, <1>5, <4>2 DEF Flattens
          <5>2. QED
            BY <4>1, <4>2, <5>1
        <4>3. CASE i # 1
          <5>1. i - 1 \in 1..Len(seqs)
            BY <1>1, <4>3
          <5>2. QED
            BY <3>1, <4>1, <4>3, <5>1
        <4>4. QED
          BY <4>2, <4>3
      <3>3. h = Flat(h)
        BY <3>1, <3>2
      <3> HIDE DEF Flat
      <3>4. QED
        BY <3>3
    <2>3. \A i \in 1..Len(seqs) : flatten[i] = IF i = 1 THEN seqs[i] ELSE flatten[i - 1] \o seqs[i]
      <3> HIDE DEF flatten
      <3>1. QED
        BY <2>2
    <2> HIDE DEF flatten, Flat
    <2> DEFINE T == {i \in 1..Len(seqs) : flatten[i] # t[i]}
    <2>4. ASSUME NEW i \in T, \A j \in T : i <= j
          PROVE  FALSE
      <3>1. t[i] = t[i - 1] \o seqs[i]
        BY <1>5 DEF Flattens
      <3>2. CASE i = 1
        <4>1. t[i - 1] = <<>> /\ <<>> \o seqs[i] = seqs[i]
          BY <1>1, <1>5, <3>2 DEF Flattens
        <4>2. QED
          BY <2>3, <3>1, <3>2, <4>1
      <3>3. CASE i # 1
        <4>1. i - 1 \in 1..Len(seqs) /\ ~ (i <= i - 1)
          BY <1>1, <3>3
        <4>2. flatten[i - 1] = t[i - 1]
          BY <2>4, <4>1
        <4>3. QED
          BY <2>3, <3>1, <3>3, <4>2
      <3>4. QED
        BY <3>2, <3>3
    <2>5. T \in SUBSET Nat
      BY <1>1
    <2>6. T = {}
      <3> HIDE DEF T
      <3>1. QED
        BY <2>4, <2>5, Least
    <2>7. Len(seqs) \in 1..Len(seqs)
      BY <1>1, <1>7
    <2>8. QED
      BY <1>5, <2>1, <2>6, <2>7
  <1>8. QED
    BY <1>6, <1>7

\* What is empty or ends in a separator can be followed by anything.
LEMMA PartsAfter ==
    ASSUME NEW C, Sep \in C, NEW p \in Seq(C), NEW q \in Seq(C),
           p = <<>> \/ \E x \in Seq(C) : p = Append(x, Sep)
    PROVE  Parts(p \o q) = Parts(p) \o Parts(q)
  <1>1. CASE p = <<>>
    <2>1. Parts(p) = <<>> /\ p \o q = q
      BY <1>1, SplitEnds, ConcatAppend DEF Parts
    <2>2. <<>> \o Parts(q) = Parts(q)
      BY SplitType, WordsConcat DEF Parts
    <2>3. QED
      BY <2>1, <2>2
  <1>2. CASE p # <<>>
    <2>1. PICK x \in Seq(C) : p = Append(x, Sep)
      BY <1>2
    <2>2. Parts(p) = Parts(x)
      BY <2>1, SplitEnds DEF Parts
    <2>3. Parts(p \o q) = Parts(x) \o Parts(q)
      BY <2>1, SplitConcat DEF Parts
    <2>4. QED
      BY <2>2, <2>3
  <1>3. QED
    BY <1>1, <1>2

\* The parts of what is joined are the parts of what was given, in order.
LEMMA JoinSplits ==
    ASSUME NEW C, Sep \in C, NEW strs \in Seq(Seq(C)),
           NEW u, u[0] = <<>>, \A n \in 1..Len(strs) : u[n] = u[n - 1] \o Parts(strs[n])
    PROVE  Parts(aven_path(strs)) = u[Len(strs)]
  <1>1. /\ Len(strs) \in Nat /\ DOMAIN strs = 1..Len(strs)
        /\ \A n \in 1..Len(strs) : strs[n] \in Seq(C)
    OBVIOUS
  <1> DEFINE Item(n) == IF strs[n] = <<>> THEN <<>>
                        ELSE strs[n] \o IF n < Len(strs) THEN <<Sep>> ELSE <<>>
  <1>2. ASSUME NEW n \in 1..Len(strs)
        PROVE  /\ Item(n) \in Seq(C) /\ Parts(Item(n)) = Parts(strs[n])
               /\ n < Len(strs) => Item(n) = <<>> \/ Item(n) = Append(strs[n], Sep)
    <2>1. strs[n] \in Seq(C) /\ <<>> \in Seq(C)
      BY <1>1
    <2>2. strs[n] \o <<Sep>> = Append(strs[n], Sep) /\ strs[n] \o <<>> = strs[n]
      BY <2>1, ConcatAppend
    <2>3. Append(strs[n], Sep) \in Seq(C)
      BY <2>1
    <2>4. Parts(Append(strs[n], Sep)) = Parts(strs[n])
      BY <2>1, SplitEnds DEF Parts
    <2>5. Item(n) = IF strs[n] = <<>> THEN <<>>
                    ELSE IF n < Len(strs) THEN Append(strs[n], Sep) ELSE strs[n]
      BY <2>2
    <2> HIDE DEF Item
    <2>6. QED
      BY <2>1, <2>3, <2>4, <2>5
  <1>3. PICK items : items = [n \in 1..Len(strs) |-> Item(n)]
    OBVIOUS
  <1>4. aven_path(strs) = FlattenSeq(items)
    BY <1>1, <1>3 DEF aven_path, aven_str_join
  <1> HIDE DEF Item
  <1>5. items \in Seq(Seq(C)) /\ Len(items) = Len(strs) /\ \A n \in 1..Len(strs) : items[n] = Item(n)
    BY <1>1, <1>2, <1>3
  <1>6. PICK t : Flattens(t, C, items) /\ FlattenSeq(items) = t[Len(strs)]
    BY <1>5, FlattenIs
  <1> DEFINE Good(n) == /\ Parts(t[n]) = u[n]
                        /\ n < Len(strs) =>
                            t[n] = <<>> \/ \E x \in Seq(C) : t[n] = Append(x, Sep)
             T == {n \in 0..Len(strs) : ~ Good(n)}
  <1>7. Good(0)
    BY <1>6, SplitEnds DEF Flattens, Parts
  <1>8. ASSUME NEW n \in 1..Len(strs), Good(n - 1)
        PROVE  Good(n)
    <2>0. n - 1 \in 0..Len(strs)
      BY <1>1
    <2>1. PICK p \in Seq(C) : p = t[n - 1]
      BY <1>5, <1>6, <2>0 DEF Flattens
    <2>2. t[n] = p \o Item(n)
      BY <1>5, <1>6, <2>1 DEF Flattens
    <2>3. n - 1 < Len(strs)
      BY <1>1
    <2>4. p = <<>> \/ \E x \in Seq(C) : p = Append(x, Sep)
      BY <1>8, <2>1, <2>3
    <2>5. Item(n) \in Seq(C)
      BY <1>2
    <2>6. Parts(t[n]) = Parts(p) \o Parts(Item(n))
      BY <2>2, <2>4, <2>5, PartsAfter
    <2>7. Parts(t[n]) = u[n]
      BY <1>2, <1>8, <2>1, <2>6
    <2>8. ASSUME n < Len(strs)
          PROVE  t[n] = <<>> \/ \E x \in Seq(C) : t[n] = Append(x, Sep)
      <3>1. CASE Item(n) = <<>>
        <4>1. t[n] = p
          BY <2>2, <3>1, ConcatAppend
        <4>2. QED
          BY <2>4, <4>1
      <3>2. CASE Item(n) = Append(strs[n], Sep)
        <4>1. strs[n] \in Seq(C)
          BY <1>1
        <4>2. p \o strs[n] \in Seq(C) /\ p \o Append(strs[n], Sep) = Append(p \o strs[n], Sep)
          BY <4>1, ConcatAppend
        <4>3. QED
          BY <2>2, <3>2, <4>2
      <3>3. QED
        BY <1>2, <2>8, <3>1, <3>2
    <2>9. QED
      BY <2>7, <2>8
  <1> HIDE DEF Good
  <1>9. T = {}
    <2>1. ASSUME NEW n \in T, \A m \in T : n <= m
          PROVE  FALSE
      <3>1. n # 0
        BY <1>7
      <3>2. n \in 1..Len(strs) /\ n - 1 \in 0..Len(strs) /\ ~ (n <= n - 1)
        BY <1>1, <3>1
      <3>3. Good(n - 1)
        BY <2>1, <3>2
      <3>4. QED
        BY <1>8, <3>2, <3>3
    <2>2. T \in SUBSET Nat
      BY <1>1
    <2> HIDE DEF T
    <2>3. QED
      BY <2>1, <2>2, Least
  <1>10. Good(Len(strs))
    BY <1>1, <1>9
  <1>11. QED
    BY <1>4, <1>6, <1>10 DEF Good

\* Parts that are joined are parted again.
LEMMA JoinKeeps ==
    ASSUME NEW C, Sep \in C, NEW strs \in Words(C, Sep)
    PROVE  Parts(aven_path(strs)) = strs
  <1>1. /\ strs \in Seq(Word(C, Sep)) /\ strs \in Seq(Seq(C))
        /\ Len(strs) \in Nat
        /\ \A n \in 1..Len(strs) : strs[n] \in Word(C, Sep) /\ strs[n] # <<>>
    <2>1. Word(C, Sep) \subseteq Seq(C)
      BY SplitWord
    <2>2. strs \in Seq(Word(C, Sep) \ {<<>>})
      BY DEF Words
    <2>3. QED
      BY <2>1, <2>2
  <1>2. \A n \in 1..Len(strs) : Parts(strs[n]) = <<strs[n]>>
    BY <1>1, SplitWord DEF Parts
  <1> DEFINE u == [n \in 0..Len(strs) |-> SubSeq(strs, 1, n)]
  <1>3. u[0] = <<>>
    BY <1>1
  <1>4. ASSUME NEW n \in 1..Len(strs)
        PROVE  u[n] = u[n - 1] \o Parts(strs[n])
    <2>1. SubSeq(strs, 1, n) = SubSeq(strs, 1, n - 1) \o <<strs[n]>>
      <3>1. n \in 1..Len(strs) /\ 1 \in 1..Len(strs)
        BY <1>1
      <3> HIDE DEF u
      <3>2. QED
        BY <1>1, <3>1, SubSeqRecursiveSecond
    <2>2. n \in 0..Len(strs) /\ n - 1 \in 0..Len(strs)
      BY <1>1
    <2>3. QED
      BY <1>2, <2>1, <2>2
  <1>5. u[Len(strs)] = strs
    BY <1>1
  <1> HIDE DEF u
  <1>6. QED
    BY <1>1, <1>3, <1>4, <1>5, JoinSplits

-----------------------------------------------------------------------------
(* Where the parts of a path lead *)

GoTo(at, part) ==
    IF part = Dot THEN at
    ELSE IF part = DotDot /\ at # <<>> /\ at[Len(at)] # DotDot THEN SubSeq(at, 1, Len(at) - 1)
         ELSE Append(at, part)
GoF(P) == [x \in Seq(P) \X P |-> GoTo(x[1], x[2])]
Lead(P, at, parts) == Along(GoF(P), at, parts)

LEMMA GoFolds ==
    ASSUME NEW P
    PROVE  /\ Folds(GoF(P), Seq(P), P)
           /\ \A at \in Seq(P), part \in P : /\ GoTo(at, part) \in Seq(P)
                                             /\ GoF(P)[<<at, part>>] = GoTo(at, part)
  <1>1. ASSUME NEW at \in Seq(P), NEW part \in P
        PROVE  GoTo(at, part) \in Seq(P)
    <2>1. SubSeq(at, 1, Len(at) - 1) \in Seq(P)
      <3>1. Len(at) - 1 \in Int /\ \A i \in 1..(Len(at) - 1) : at[i] \in P
        OBVIOUS
      <3>2. QED
        BY <3>1, SubSeqProperties
    <2>2. Append(at, part) \in Seq(P)
      OBVIOUS
    <2>3. QED
      BY <2>1, <2>2 DEF GoTo
  <1>2. \A at \in Seq(P), part \in P : GoF(P)[<<at, part>>] = GoTo(at, part)
    BY DEF GoF
  <1>3. Folds(GoF(P), Seq(P), P)
    BY <1>1 DEF GoF, Folds
  <1>4. QED
    BY <1>1, <1>2, <1>3

LEMMA ResolveIsLead ==
    ASSUME NEW P, NEW r \in Seq(P)
    PROVE  Resolve(r) = Lead(P, <<>>, r)
  <1> DEFINE Go(at, part) ==
            CASE part = Dot -> at
              [] part = DotDot /\ at # <<>> /\ at[Len(at)] # DotDot -> Front(at)
              [] OTHER -> Append(at, part)
  <1> DEFINE Iter(h) == [S \in SUBSET DOMAIN r |->
            IF S = {} THEN <<>> ELSE Go(h[S \ {Max(S)}], r[Max(S)])]
             iter == CHOOSE h : h = Iter(h)
  <1>1. \A at \in Seq(P), part \in P : Go(at, part) = GoTo(at, part)
    <2> TAKE at \in Seq(P), part \in P
    <2> HIDE DEF iter, Iter
    <2>1. Front(at) = SubSeq(at, 1, Len(at) - 1)
      BY DEF Front
    <2>2. Dot # DotDot
      BY DEF Dot, DotDot
    <2>3. QED
      BY <2>1, <2>2 DEF GoTo
  <1>2. Resolve(r) = iter[DOMAIN r]
    BY DEF Resolve, FoldLeft, MapThenFoldSet
  <1>3. /\ Folds(GoF(P), Seq(P), P) /\ <<>> \in Seq(P)
        /\ \A at \in Seq(P), part \in P : GoF(P)[<<at, part>>] = GoTo(at, part)
    BY GoFolds
  <1>4. \A S \in SUBSET DOMAIN r : S # {} => Max(S) \in DOMAIN r /\ r[Max(S)] \in P
    <2>1. Len(r) \in Nat /\ DOMAIN r = 1..Len(r)
      OBVIOUS
    <2>2. \A S \in SUBSET DOMAIN r : S # {} => Max(S) \in DOMAIN r
      BY <2>1, MaxIs
    <2>3. QED
      BY <2>2
  <1> HIDE DEF Go
  <1>5. iter = Iter(iter)
    <2> HIDE DEF iter, Iter
    <2>1. PICK h \in [SUBSET DOMAIN r -> Seq(P)] : Solves(h, GoF(P), <<>>, r)
      BY <1>3, SolutionExists
    <2>2. ASSUME NEW S \in SUBSET DOMAIN r, S # {}
          PROVE  h[S] = Go(h[S \ {Max(S)}], r[Max(S)])
      <3>1. h[S] = GoF(P)[<<h[S \ {Max(S)}], r[Max(S)]>>]
        BY <2>1, <2>2 DEF Solves
      <3>2. h[S \ {Max(S)}] \in Seq(P) /\ r[Max(S)] \in P
        BY <1>4, <2>1, <2>2
      <3>3. QED
        BY <1>1, <1>3, <3>1, <3>2
    <2>3. h[{}] = <<>>
      BY <2>1 DEF Solves
    <2>4. h = Iter(h)
      BY <2>1, <2>2, <2>3 DEF Iter
    <2>5. QED
      BY <2>4 DEF iter
  <1>6. \A S \in SUBSET DOMAIN r : iter[S] =
            IF S = {} THEN <<>> ELSE Go(iter[S \ {Max(S)}], r[Max(S)])
    <2> HIDE DEF iter
    <2>1. QED
      BY <1>5
  <1> HIDE DEF iter, Iter
  <1>7. Follows(iter, GoF(P), Seq(P), <<>>, r)
    <2>1. ASSUME NEW S \in SUBSET DOMAIN r, S # {}, iter[S \ {Max(S)}] \in Seq(P)
          PROVE  iter[S] = GoF(P)[<<iter[S \ {Max(S)}], r[Max(S)]>>]
      <3>1. PICK at \in Seq(P), part \in P : at = iter[S \ {Max(S)}] /\ part = r[Max(S)]
        BY <1>4, <2>1
      <3>2. iter[S] = Go(at, part)
        BY <1>6, <2>1, <3>1
      <3>3. Go(at, part) = GoF(P)[<<at, part>>]
        BY <1>1, <1>3
      <3>4. QED
        BY <3>1, <3>2, <3>3
    <2>2. iter[{}] = <<>>
      BY <1>6
    <2>3. QED
      BY <2>1, <2>2 DEF Follows
  <1>8. iter[DOMAIN r] = Along(GoF(P), <<>>, r)
    <2>1. PICK b \in Seq(P) : b = <<>>
      BY <1>3
    <2>2. Follows(iter, GoF(P), Seq(P), b, r)
      BY <1>7, <2>1
    <2>3. iter[DOMAIN r] = Along(GoF(P), b, r)
      BY <1>3, <2>2, SolutionIsAlong
    <2>4. QED
      BY <2>1, <2>3
  <1>9. QED
    BY <1>2, <1>8 DEF Lead

LEMMA LeadSteps ==
    ASSUME NEW P, NEW at \in Seq(P), NEW s \in Seq(P)
    PROVE  /\ Lead(P, at, s) \in Seq(P) /\ Lead(P, at, <<>>) = at
           /\ \A part \in P : Lead(P, at, Append(s, part)) = GoTo(Lead(P, at, s), part)
           /\ \A t \in Seq(P) : Lead(P, at, s \o t) = Lead(P, Lead(P, at, s), t)
  <1>1. Folds(GoF(P), Seq(P), P)
    BY GoFolds
  <1>2. /\ Lead(P, at, s) \in Seq(P) /\ Lead(P, at, <<>>) = at
        /\ \A r \in Seq(P), part \in P :
                Lead(P, at, Append(r, part)) = GoF(P)[<<Lead(P, at, r), part>>]
    BY <1>1, AlongSteps DEF Lead
  <1>3. \A t \in Seq(P) : Lead(P, at, s \o t) = Lead(P, Lead(P, at, s), t)
    BY <1>1, AlongConcat DEF Lead
  <1>4. \A part \in P : Lead(P, at, Append(s, part)) = GoTo(Lead(P, at, s), part)
    BY <1>2, GoFolds
  <1>5. QED
    BY <1>2, <1>3, <1>4

LEMMA LeadOne ==
    ASSUME NEW P, NEW at \in Seq(P), NEW s \in Seq(P), Len(s) = 1
    PROVE  Lead(P, at, s) = GoTo(at, s[1])
  <1>1. PICK e \in Seq(P) : e = <<>>
    <2>1. <<>> \in Seq(P)
      OBVIOUS
    <2>2. QED
      BY <2>1
  <1>2. PICK part \in P : part = s[1]
    <2>1. s[1] \in P
      <3>1. 1 \in 1..Len(s)
        OBVIOUS
      <3>2. QED
        BY <3>1, ElementOfSeq
    <2>2. QED
      BY <2>1
  <1>3. Append(e, part) = s
    BY <1>1, <1>2
  <1>4. Lead(P, at, Append(e, part)) = GoTo(Lead(P, at, e), part)
    BY LeadSteps
  <1>5. Lead(P, at, <<>>) = at
    BY LeadSteps
  <1>6. QED
    BY <1>1, <1>2, <1>3, <1>4, <1>5

\* The directory a path begins in is no name.
LEMMA DotStays ==
    ASSUME NEW P, Dot \in P, NEW r \in Seq(P)
    PROVE  <<Dot>> \o r \in Seq(P) /\ Resolve(<<Dot>> \o r) = Resolve(r)
  <1>1. PICK e \in Seq(P), d \in Seq(P), dot \in P : e = <<>> /\ dot = Dot /\ d = <<dot>>
    <2>1. <<>> \in Seq(P) /\ \A x \in P : <<x>> \in Seq(P)
      OBVIOUS
    <2>2. QED
      BY <2>1
  <1>2. PICK q \in Seq(P) : q = d \o r
    BY ConcatProperties
  <1>3. Lead(P, e, q) = Lead(P, Lead(P, e, d), r)
    BY <1>2, LeadSteps
  <1>4. Lead(P, e, d) = GoTo(e, dot)
    <2>1. Len(d) = 1 /\ d[1] = dot
      BY <1>1
    <2>2. QED
      BY <2>1, LeadOne
  <1>5. GoTo(e, dot) = e
    BY <1>1 DEF GoTo
  <1>6. Resolve(q) = Lead(P, e, q) /\ Resolve(r) = Lead(P, e, r)
    BY <1>1, ResolveIsLead
  <1>7. QED
    BY <1>1, <1>2, <1>3, <1>4, <1>5, <1>6

-----------------------------------------------------------------------------
(* The properties of the paths *)

\* The characters there are.
Chars == Letter \cup {Sep, ".", "NUL"}
PathsAreStrings == path1 \in Seq(Chars) /\ path2 \in Seq(Chars)

LEMMA CharsAre ==
    /\ Sep \in Chars /\ "." \in Chars /\ "NUL" \in Chars /\ "NUL" # "." /\ Sep # "."
    /\ Dot \in Word(Chars, Sep) /\ DotDot \in Word(Chars, Sep)
    /\ Dot # <<>> /\ DotDot # <<>> /\ Dot # DotDot
  <1>1. Sep \in Chars /\ "." \in Chars /\ "NUL" \in Chars /\ "NUL" # "." /\ Sep # "."
    BY DEF Chars, Sep
  <1>2. "." \in Chars \ {Sep}
    BY <1>1
  <1>3. Dot \in Word(Chars, Sep) /\ DotDot \in Word(Chars, Sep)
    BY <1>2 DEF Word, Dot, DotDot
  <1>4. Dot # <<>> /\ DotDot # <<>> /\ Dot # DotDot
    BY DEF Dot, DotDot
  <1>5. QED
    BY <1>1, <1>3, <1>4

LEMMA ConcatenatesHolds ==
    ASSUME PathsAreStrings
    PROVE  PathConcatenates
  <1>1. PICK p \in Seq(Chars), q \in Seq(Chars) : p = path1 /\ q = path2
    BY DEF PathsAreStrings
  <1>2. PICK strs \in Seq(Seq(Chars)) : strs = <<p, q, p>>
    <2>1. <<p, q, p>> \in Seq(Seq(Chars))
      OBVIOUS
    <2>2. QED
      BY <2>1
  <1>3. Len(strs) = 3 /\ strs[1] = p /\ strs[2] = q /\ strs[3] = p
    BY <1>2
  <1> DEFINE u == [n \in 0..3 |-> CASE n = 0 -> <<>> [] n = 1 -> Parts(p)
                                    [] n = 2 -> Parts(p) \o Parts(q)
                                    [] n = 3 -> Parts(p) \o Parts(q) \o Parts(p)]
  <1>4. u[0] = <<>> /\ u[1] = Parts(p) /\ u[2] = Parts(p) \o Parts(q)
        /\ u[3] = Parts(p) \o Parts(q) \o Parts(p)
    OBVIOUS
  <1> HIDE DEF u
  <1>5. <<>> \o Parts(p) = Parts(p)
    BY SplitType, WordsConcat DEF Parts, Chars
  <1>7. \A n \in 1..Len(strs) : u[n] = u[n - 1] \o Parts(strs[n])
    <2>0. 1 - 1 = 0 /\ 2 - 1 = 1 /\ 3 - 1 = 2
      OBVIOUS
    <2>1. u[1] = u[0] \o Parts(strs[1]) /\ u[2] = u[1] \o Parts(strs[2])
          /\ u[3] = u[2] \o Parts(strs[3])
      BY <1>3, <1>4, <1>5
    <2>2. ASSUME NEW n \in 1..Len(strs)
          PROVE  u[n] = u[n - 1] \o Parts(strs[n])
      <3>1. n = 1 \/ n = 2 \/ n = 3
        BY <1>3
      <3>2. PICK m : m = n - 1
        OBVIOUS
      <3>3. (n = 1 => m = 0) /\ (n = 2 => m = 1) /\ (n = 3 => m = 2)
        BY <2>0, <3>2
      <3>4. u[n] = u[m] \o Parts(strs[n])
        BY <2>1, <3>1, <3>3
      <3>5. QED
        BY <3>2, <3>4
    <2>3. QED
      BY <2>2
  <1>8. Parts(aven_path(strs)) = u[3]
    BY <1>3, <1>4, <1>7, CharsAre, JoinSplits
  <1>9. QED
    BY <1>1, <1>2, <1>4, <1>8 DEF PathConcatenates

\* Upto is the place of the last separator.
LEMMA UptoIs ==
    ASSUME NEW C, NEW p \in Seq(C)
    PROVE  /\ Upto(p) \in 0..Len(p) /\ (Upto(p) # 0 => p[Upto(p)] = Sep)
           /\ \A i \in 1..Len(p) : p[i] = Sep => i <= Upto(p)
  <1> DEFINE S == {i \in DOMAIN p : p[i] = Sep}
  <1>1. Len(p) \in Nat /\ DOMAIN p = 1..Len(p)
    OBVIOUS
  <1>2. CASE S = {}
    <2>1. Upto(p) = 0
      BY <1>2 DEF Upto
    <2>2. QED
      BY <1>1, <1>2, <2>1
  <1>3. CASE S # {}
    <2>1. S \in SUBSET (1..Len(p))
      BY <1>1
    <2>2. Upto(p) = CHOOSE i \in S : \A j \in S : j <= i
      BY <1>3 DEF Upto
    <2>3. \E i \in S : \A j \in S : j <= i
      <3> HIDE DEF S
      <3>1. QED
        BY <1>1, <1>3, <2>1, MaxIs
    <2>4. Upto(p) \in S /\ \A j \in S : j <= Upto(p)
      <3> HIDE DEF S
      <3>1. QED
        BY <2>2, <2>3
    <2>5. QED
      BY <1>1, <2>4
  <1>4. QED
    BY <1>2, <1>3

\* What a part of a sequence is.
LEMMA SubSeqIs ==
    ASSUME NEW S, NEW C, NEW p \in Seq(C), NEW m \in 1..(Len(p) + 1), NEW n \in 0..Len(p),
           m <= n + 1, \A j \in m..n : p[j] \in S
    PROVE  /\ SubSeq(p, m, n) \in Seq(S) /\ SubSeq(p, m, n) \in Seq(C)
           /\ Len(SubSeq(p, m, n)) = n - m + 1
           /\ \A j \in 1..(n - m + 1) : SubSeq(p, m, n)[j] = p[m + j - 1]
  <1>1. m \in Int /\ n \in Int /\ \A j \in m..n : p[j] \in C
    OBVIOUS
  <1>2. Len(SubSeq(p, m, n)) = IF m <= n THEN n - m + 1 ELSE 0
    BY <1>1, SubSeqProperties
  <1>3. n - m + 1 = IF m <= n THEN n - m + 1 ELSE 0
    BY <1>1
  <1>4. SubSeq(p, m, n) \in Seq(C)
    BY <1>1, SubSeqProperties
  <1>5. SubSeq(p, m, n) \in Seq(S)
    BY <1>1, SubSeqProperties
  <1>6. \A j \in 1..(n - m + 1) : SubSeq(p, m, n)[j] = p[m + j - 1]
    BY <1>1, SubSeqProperties
  <1>7. QED
    BY <1>2, <1>3, <1>4, <1>5, <1>6

LEMMA ItsElementsIn ==
    ASSUME NEW S, NEW C, NEW p \in Seq(C), \A i \in 1..Len(p) : p[i] \in S
    PROVE  p \in Seq(S)
  <1>1. 1 \in 1..(Len(p) + 1) /\ Len(p) \in 0..Len(p) /\ 1 <= Len(p) + 1
    OBVIOUS
  <1>2. SubSeq(p, 1, Len(p)) \in Seq(S)
    BY <1>1, SubSeqIs
  <1>3. QED
    BY <1>2, SubSeqFull

\* A sequence is what comes up to a place, and what comes after it.
LEMMA CutAt ==
    ASSUME NEW C, NEW p \in Seq(C), NEW i \in 1..Len(p)
    PROVE  p = SubSeq(p, 1, i) \o SubSeq(p, i + 1, Len(p))
  <1>1. PICK m : m = 1
    OBVIOUS
  <1>2. m \in 1..(Len(p) + 1) /\ i \in (m - 1)..Len(p) /\ Len(p) \in i..Len(p)
    BY <1>1
  <1>3. SubSeq(p, m, i) \o SubSeq(p, i + 1, Len(p)) = SubSeq(p, m, Len(p))
    BY <1>2, ConcatAdjacentSubSeq
  <1>4. QED
    BY <1>1, <1>3, SubSeqFull

Ends(C, p, i, w) ==
    /\ i \in 0..Len(p) /\ i # Len(p)
    /\ w \in Word(C, Sep) /\ w # <<>>
    /\ i = 0 => w = p /\ Parts(p) = <<w>>
    /\ i # 0 => Parts(p) = Parts(SubSeq(p, 1, i - 1)) \o <<w>>
    /\ Parts(p) # <<>> /\ Parts(p)[Len(Parts(p))] = w

LEMMA LastIs ==
    ASSUME NEW D, NEW ds \in Seq(D), NEW w \in D
    PROVE  /\ ds \o <<w>> = Append(ds, w) /\ Append(ds, w) # <<>>
           /\ Append(ds, w)[Len(Append(ds, w))] = w
  <1>1. ds \o <<w>> = Append(ds, w)
    BY ConcatAppend
  <1>2. Append(ds, w) # <<>> /\ Append(ds, w)[Len(Append(ds, w))] = w
    OBVIOUS
  <1>3. QED
    BY <1>1, <1>2

\* A path whose last character is no separator is what comes before its last
\* separator, and its last part.
LEMMA LastPart ==
    ASSUME NEW C, Sep \in C, NEW p \in Seq(C), p # <<>>, p[Len(p)] # Sep,
           NEW i \in Int, i = Upto(p), NEW w \in Seq(C), w = SubSeq(p, i + 1, Len(p))
    PROVE  Ends(C, p, i, w)
  <1>1. Len(p) \in Nat /\ Len(p) # 0 /\ \A j \in 1..Len(p) : p[j] \in C
    OBVIOUS
  <1>2. i \in 0..Len(p) /\ (i # 0 => p[i] = Sep) /\ \A j \in 1..Len(p) : p[j] = Sep => j <= i
    BY UptoIs
  <1>3. i # Len(p)
    BY <1>1, <1>2
  <1>4. w \in Word(C, Sep) /\ Len(w) = Len(p) - i
    <2>1. \A j \in (i + 1)..Len(p) : p[j] \in C \ {Sep}
      BY <1>1, <1>2
    <2>2. i + 1 \in 1..Len(p)
      BY <1>1, <1>2, <1>3
    <2>3. w \in Seq(C \ {Sep}) /\ Len(w) = Len(p) - (i + 1) + 1
      BY <1>1, <2>1, <2>2, SubSeqIs
    <2>4. QED
      BY <1>1, <1>2, <2>3 DEF Word
  <1>5. w # <<>>
    <2>1. Len(w) # 0
      BY <1>1, <1>2, <1>3, <1>4
    <2>2. QED
      BY <2>1
  <1>6. Parts(w) = <<w>>
    BY <1>4, <1>5, SplitWord DEF Parts
  <1>7. ASSUME i = 0
        PROVE  w = p /\ Parts(p) = <<w>>
    <2>1. SubSeq(p, 1, Len(p)) = p
      BY SubSeqFull
    <2>2. i + 1 = 1
      BY <1>7
    <2>3. w = p
      BY <2>1, <2>2
    <2>4. QED
      BY <1>6, <2>3
  <1>8. ASSUME i # 0
        PROVE  Parts(p) = Parts(SubSeq(p, 1, i - 1)) \o <<w>>
    <2>1. i \in 1..Len(p) /\ 1 \in 1..Len(p) /\ 1 \in 1..(Len(p) + 1)
      BY <1>1, <1>2, <1>8
    <2>2. PICK d : d = SubSeq(p, 1, i - 1)
      OBVIOUS
    <2>3. d \in Seq(C)
      BY <1>1, <2>1, <2>2, SubSeqIs
    <2>4. SubSeq(p, 1, i) = Append(d, Sep)
      <3>1. SubSeq(p, 1, i) = SubSeq(p, 1, i - 1) \o <<p[i]>>
        BY <2>1, SubSeqRecursiveSecond
      <3>2. PICK c \in C : c = Sep
        OBVIOUS
      <3>3. p[i] = c
        BY <1>2, <1>8, <3>2
      <3>4. SubSeq(p, 1, i) = d \o <<c>>
        BY <2>2, <3>1, <3>3
      <3>5. d \o <<c>> = Append(d, c)
        BY <2>3, ConcatAppend
      <3>6. QED
        BY <3>2, <3>4, <3>5
    <2>5. p = SubSeq(p, 1, i) \o w
      BY <2>1, CutAt
    <2>6. w \in Seq(C)
      BY <1>4, SplitWord
    <2>7. Parts(Append(d, Sep) \o w) = Parts(d) \o Parts(w)
      BY <2>3, <2>6, SplitConcat DEF Parts
    <2>8. QED
      BY <1>6, <2>2, <2>4, <2>5, <2>7
  <1>9. Parts(p) # <<>> /\ Parts(p)[Len(Parts(p))] = w
    <2>1. CASE i = 0
      <3>1. Parts(p) = <<w>>
        BY <1>7, <2>1
      <3>2. PICK ps : ps = <<w>>
        OBVIOUS
      <3>3. ps # <<>> /\ Len(ps) = 1 /\ ps[1] = w
        BY <3>2
      <3>4. QED
        BY <3>1, <3>2, <3>3
    <2>2. CASE i # 0
      <3>1. SubSeq(p, 1, i - 1) \in Seq(C)
        BY <1>1, <1>2, <2>2, SubSeqIs
      <3>2. PICK ds \in Words(C, Sep) : ds = Parts(SubSeq(p, 1, i - 1))
        BY <3>1, SplitType DEF Parts
      <3>3. PICK D : w \in D /\ ds \in Seq(D)
        <4>1. w \in Word(C, Sep) \ {<<>>} /\ ds \in Seq(Word(C, Sep) \ {<<>>})
          BY <1>4, <1>5 DEF Words
        <4>2. QED
          BY <4>1
      <3>4. Parts(p) = ds \o <<w>>
        BY <1>8, <2>2, <3>2
      <3>5. /\ ds \o <<w>> = Append(ds, w) /\ Append(ds, w) # <<>>
            /\ Append(ds, w)[Len(Append(ds, w))] = w
        BY <3>3, LastIs
      <3>6. QED
        BY <3>4, <3>5
    <2>3. QED
      BY <2>1, <2>2
  <1>10. QED
    BY <1>2, <1>3, <1>4, <1>5, <1>7, <1>8, <1>9 DEF Ends

LEMMA DirThenNameHolds ==
    ASSUME PathsAreStrings
    PROVE  DirThenName
  <1> SUFFICES ASSUME Relative(path1), path1[Len(path1)] # Sep
               PROVE  Resolve(Parts(aven_path_rel_dir(path1)) \o <<Last(Parts(path1))>>)
                        = Resolve(Parts(path1))
    BY DEF DirThenName
  <1>1. PICK p \in Seq(Chars) : p = path1
    BY DEF PathsAreStrings
  <1>2. p # <<>> /\ p[Len(p)] # Sep
    BY <1>1 DEF Relative
  <1>0. Sep \in Chars
    BY CharsAre
  <1>3. PICK i \in Int, w \in Seq(Chars) : i = Upto(p) /\ w = SubSeq(p, i + 1, Len(p))
    <2>1. Upto(p) \in 0..Len(p) /\ (Upto(p) # 0 => p[Upto(p)] = Sep)
      BY UptoIs
    <2>2. PICK i \in Int : i = Upto(p)
      BY <2>1
    <2>3. Len(p) \in 1..Len(p) /\ i \in 0..Len(p) /\ i # Len(p)
      BY <1>2, <2>1, <2>2
    <2>4. i + 1 \in 1..Len(p) /\ \A j \in (i + 1)..Len(p) : p[j] \in Chars
      BY <2>3
    <2>5. SubSeq(p, i + 1, Len(p)) \in Seq(Chars)
      BY <2>3, <2>4, SubSeqIs
    <2>6. QED
      BY <2>2, <2>5
  <1>4. /\ i \in 0..Len(p) /\ i # Len(p)
        /\ w \in Word(Chars, Sep) /\ w # <<>>
        /\ i = 0 => w = p /\ Parts(p) = <<w>>
        /\ i # 0 => Parts(p) = Parts(SubSeq(p, 1, i - 1)) \o <<w>>
        /\ Parts(p)[Len(Parts(p))] = w
    <2>1. Ends(Chars, p, i, w)
      BY <1>2, <1>3, <1>0, LastPart
    <2>2. QED
      BY <2>1 DEF Ends
  <1>5. Last(Parts(p)) = w
    BY <1>4 DEF Last
  <1>6. CASE i = 0
    <2>1. aven_path_rel_dir(p) = Dot
      <3>1. Upto(p) = 0
        BY <1>3, <1>6
      <3>2. QED
        BY <1>4, <3>1 DEF aven_path_rel_dir
    <2>2. Parts(Dot) = <<Dot>>
      BY CharsAre, SplitWord DEF Parts
    <2>3. PICK P : P = Word(Chars, Sep)
      OBVIOUS
    <2>4. w \in P /\ Dot \in P
      BY <1>4, <2>3, CharsAre
    <2>5. PICK ws \in Seq(P) : ws = <<w>>
      <3>1. <<w>> \in Seq(P)
        BY <2>4
      <3>2. QED
        BY <3>1
    <2>6. Resolve(<<Dot>> \o ws) = Resolve(ws)
      BY <2>4, DotStays
    <2>7. Parts(p) = ws
      BY <1>4, <1>6, <2>5
    <2>8. Resolve(Parts(aven_path_rel_dir(p)) \o <<Last(Parts(p))>>) = Resolve(<<Dot>> \o ws)
      BY <1>5, <2>1, <2>2, <2>5
    <2>9. QED
      BY <1>1, <2>6, <2>7, <2>8
  <1>7. CASE i # 0
    <2>1. aven_path_rel_dir(p) = SubSeq(p, 1, i - 1)
      BY <1>3, <1>4, <1>7 DEF aven_path_rel_dir
    <2>2. QED
      BY <1>1, <1>4, <1>5, <1>7, <2>1
  <1>8. QED
    BY <1>6, <1>7

\* The first word of a string does not depend on its last character, unless
\* the last character is in it.
LEMMA HeadKept ==
    ASSUME NEW C, NEW sep \in C, NEW s \in Seq(C), NEW c \in C, NEW d \in C, d # sep,
           Len(aven_str_split(Append(s, c), sep)) > 1
    PROVE  Head(aven_str_split(Append(s, d), sep)) = Head(aven_str_split(Append(s, c), sep))
  <1>1. PICK v \in Word(C, sep), ws \in Words(C, sep) : Rd(C, sep, s) = Now(v, ws)
    BY ReadSteps, ReaderIs
  <1>2. Append(s, c) \in Seq(C) /\ Append(s, d) \in Seq(C)
    OBVIOUS
  <1>3. ws \in Seq(Word(C, sep) \ {<<>>}) /\ Len(ws) \in Nat
    BY DEF Words
  <1>4. \A x \in C \ {sep} : /\ Append(v, x) \in Word(C, sep) /\ Append(v, x) # <<>>
                             /\ Append(s, x) \in Seq(C)
    BY DEF Word
  <1>5. \A x \in C \ {sep} : aven_str_split(Append(s, x), sep) = Append(ws, Append(v, x))
    <2> TAKE x \in C \ {sep}
    <2>1. Rd(C, sep, Append(s, x)) = Now(Append(v, x), ws)
      BY <1>1, ReadSteps, NowIs
    <2>2. PICK u \in Word(C, sep) : u = Append(v, x) /\ u # <<>>
      BY <1>4
    <2>3. PICK r \in Seq(C) : r = Append(s, x)
      BY <1>4
    <2>4. Rd(C, sep, r) = Now(u, ws)
      BY <2>1, <2>2, <2>3
    <2>5. aven_str_split(r, sep) = IF u = <<>> THEN ws ELSE Append(ws, u)
      BY <2>4, SplitIs
    <2>6. QED
      BY <2>2, <2>3, <2>5
  <1>6. \A u \in Word(C, sep) \ {<<>>} : ws # <<>> => Head(Append(ws, u)) = Head(ws)
    BY <1>3
  <1>7. CASE c # sep
    <2>1. aven_str_split(Append(s, c), sep) = Append(ws, Append(v, c))
      BY <1>5, <1>7
    <2>2. ws # <<>>
      BY <1>3, <1>4, <1>7, <2>1
    <2>3. QED
      BY <1>4, <1>5, <1>6, <1>7, <2>2
  <1>8. CASE c = sep
    <2>1. aven_str_split(Append(s, c), sep) = IF v = <<>> THEN ws ELSE Append(ws, v)
      BY <1>1, <1>8, SplitIs, SplitEnds
    <2>2. ws # <<>>
      BY <1>3, <2>1
    <2>3. v # <<>> => Head(Append(ws, v)) = Head(ws)
      BY <1>6, <2>2
    <2>4. Head(aven_str_split(Append(s, d), sep)) = Head(ws)
      BY <1>4, <1>5, <1>6, <2>2
    <2>5. QED
      BY <2>1, <2>3, <2>4
  <1>9. QED
    BY <1>7, <1>8

LEMMA StemKeptHolds ==
    ASSUME PathsAreStrings
    PROVE  StemKept
  <1> SUFFICES ASSUME Relative(path1), path1[Len(path1)] # Sep
               PROVE  LET name == aven_str_split(Parts(path1)[Len(Parts(path1))], ".")
                          cut  == aven_str_split(aven_path_fname(path1), ".")
                      IN  Len(name) > 1 => Head(cut) = Head(name)
    BY DEF StemKept
  <1>1. PICK p \in Seq(Chars) : p = path1
    BY DEF PathsAreStrings
  <1>2. p # <<>> /\ p[Len(p)] # Sep
    BY <1>1 DEF Relative
  <1>0. Sep \in Chars
    BY CharsAre
  <1>3. PICK i \in Int, w \in Seq(Chars) : i = Upto(p) /\ w = SubSeq(p, i + 1, Len(p))
    <2>1. Upto(p) \in 0..Len(p) /\ (Upto(p) # 0 => p[Upto(p)] = Sep)
      BY UptoIs
    <2>2. PICK i \in Int : i = Upto(p)
      BY <2>1
    <2>3. Len(p) \in 1..Len(p) /\ i \in 0..Len(p) /\ i # Len(p)
      BY <1>2, <2>1, <2>2
    <2>4. i + 1 \in 1..Len(p) /\ \A j \in (i + 1)..Len(p) : p[j] \in Chars
      BY <2>3
    <2>5. SubSeq(p, i + 1, Len(p)) \in Seq(Chars)
      BY <2>3, <2>4, SubSeqIs
    <2>6. QED
      BY <2>2, <2>5
  <1>4. /\ i \in 0..Len(p) /\ i # Len(p)
        /\ i = 0 => w = p
        /\ Parts(p)[Len(Parts(p))] = w
    <2>1. Ends(Chars, p, i, w)
      BY <1>2, <1>3, <1>0, LastPart
    <2>2. QED
      BY <2>1 DEF Ends
  <1>5. CASE i = 0
    <2>1. aven_path_fname(p) = p
      BY <1>3, <1>5 DEF aven_path_fname
    <2>2. QED
      BY <1>1, <1>4, <1>5, <2>1
  <1>6. CASE i # 0
    <2>1. PICK v : v = SubSeq(p, i + 1, Len(p) - 1)
      OBVIOUS
    <2>2. Len(p) \in Nat /\ i \in 1..Len(p) /\ i + 1 \in 1..Len(p) /\ Len(p) \in (i + 1)..Len(p)
      BY <1>4, <1>6
    <2>3. v \in Seq(Chars)
      <3>1. i + 1 \in 1..Len(p) /\ Len(p) - 1 \in 0..Len(p) /\ i + 1 <= Len(p) - 1 + 1
        BY <2>2
      <3>2. \A j \in (i + 1)..(Len(p) - 1) : p[j] \in Chars
        BY <2>2
      <3>3. QED
        BY <2>1, <3>1, <3>2, SubSeqIs
    <2>4. w = v \o <<p[Len(p)]>>
      BY <1>3, <2>1, <2>2, SubSeqRecursiveSecond
    <2>5. PICK c \in Chars : c = p[Len(p)]
      BY <2>2
    <2>6. w = Append(v, c)
      BY <2>3, <2>4, <2>5, ConcatAppend
    <2>7. aven_path_fname(p) = Append(v, "NUL")
      BY <1>3, <1>4, <1>6, <2>1 DEF aven_path_fname
    <2>8. "NUL" \in Chars /\ "." \in Chars /\ "NUL" # "."
      BY CharsAre
    <2>9. Len(aven_str_split(w, ".")) > 1 =>
            Head(aven_str_split(Append(v, "NUL"), ".")) = Head(aven_str_split(w, "."))
      BY <2>3, <2>6, <2>8, HeadKept
    <2>10. QED
      BY <1>1, <1>4, <2>7, <2>9
  <1>7. QED
    BY <1>5, <1>6

\* What is joined is as long as what was counted, whatever is joined.
LEMMA JoinLenIs ==
    ASSUME NEW C, Sep \in C, NEW strs \in Seq(Seq(C))
    PROVE  JoinFits(strs)
  <1> DEFINE Item(i) == IF strs[i] = <<>> THEN <<>>
                        ELSE strs[i] \o IF i < Len(strs) THEN <<Sep>> ELSE <<>>
  <1>1. /\ Len(strs) \in Nat /\ DOMAIN strs = 1..Len(strs)
        /\ \A i \in 1..Len(strs) : strs[i] \in Seq(C)
    OBVIOUS
  <1>2. ASSUME NEW i \in 1..Len(strs)
        PROVE  Item(i) \in Seq(C) /\ Len(Item(i)) = Slots(strs, i)
    <2>1. strs[i] \in Seq(C)
      BY <1>1
    <2>2. /\ strs[i] \o <<Sep>> \in Seq(C) /\ Len(strs[i] \o <<Sep>>) = Len(strs[i]) + 1
          /\ strs[i] \o <<>> = strs[i] /\ <<>> \in Seq(C) /\ Len(<<>>) = 0
      BY <2>1, ConcatAppend
    <2>3. Len(strs[i]) \in Nat /\ Len(strs[i]) + 0 = Len(strs[i])
      BY <2>1
    <2>4. QED
      BY <2>1, <2>2, <2>3 DEF Slots
  <1>3. PICK items : items = [i \in 1..Len(strs) |-> Item(i)]
    OBVIOUS
  <1>4. aven_path(strs) = FlattenSeq(items)
    BY <1>1, <1>3 DEF aven_path, aven_str_join
  <1> HIDE DEF Item
  <1>5. /\ items \in Seq(Seq(C)) /\ Len(items) = Len(strs)
        /\ \A i \in 1..Len(strs) : items[i] \in Seq(C) /\ Len(items[i]) = Slots(strs, i)
    BY <1>1, <1>2, <1>3
  <1>6. PICK t : Flattens(t, C, items) /\ FlattenSeq(items) = t[Len(strs)]
    BY <1>5, FlattenIs
  <1>7. /\ Len(t[0]) = 0
        /\ \A i \in 1..Len(strs) : Len(t[i]) = Len(t[i - 1]) + Slots(strs, i)
    <2>1. Len(t[0]) = 0
      BY <1>6 DEF Flattens
    <2>2. ASSUME NEW i \in 1..Len(strs)
          PROVE  Len(t[i]) = Len(t[i - 1]) + Slots(strs, i)
      <3>0. i - 1 \in 0..Len(items)
        BY <1>1, <1>5
      <3>1. t[i] = t[i - 1] \o items[i]
        BY <1>5, <1>6 DEF Flattens
      <3>2. t[i - 1] \in Seq(C) /\ items[i] \in Seq(C)
        BY <1>5, <1>6, <3>0 DEF Flattens
      <3>3. Len(t[i]) = Len(t[i - 1]) + Len(items[i])
        BY <3>1, <3>2
      <3>4. QED
        BY <1>5, <3>3
    <2>3. QED
      BY <2>1, <2>2
  <1> DEFINE Lens(h) == [i \in 0..Len(strs) |-> IF i = 0 THEN 0 ELSE h[i - 1] + Slots(strs, i)]
             len == CHOOSE h : h = Lens(h)
  <1>8. JoinLen(strs) = len[Len(strs)]
    BY DEF JoinLen
  <1>9. len = Lens(len)
    <2>1. PICK h : h = [i \in 0..Len(strs) |-> Len(t[i])]
      OBVIOUS
    <2>2. ASSUME NEW i \in 0..Len(strs)
          PROVE  h[i] = IF i = 0 THEN 0 ELSE h[i - 1] + Slots(strs, i)
      <3>1. h[i] = Len(t[i])
        BY <2>1
      <3>2. CASE i # 0
        <4>1. i \in 1..Len(strs) /\ i - 1 \in 0..Len(strs)
          BY <1>1, <3>2
        <4>2. h[i - 1] = Len(t[i - 1])
          BY <2>1, <4>1
        <4>3. QED
          BY <1>7, <3>1, <3>2, <4>1, <4>2
      <3>3. QED
        BY <1>7, <3>1, <3>2
    <2>3. h = Lens(h)
      BY <2>1, <2>2
    <2> HIDE DEF Lens
    <2>4. QED
      BY <2>3
  <1>10. \A i \in 0..Len(strs) : len[i] = IF i = 0 THEN 0 ELSE len[i - 1] + Slots(strs, i)
    <2> HIDE DEF len
    <2>1. QED
      BY <1>9
  <1> HIDE DEF len, Lens
  <1> DEFINE T == {i \in 0..Len(strs) : len[i] # Len(t[i])}
  <1>11. ASSUME NEW i \in T, \A j \in T : i <= j
         PROVE  FALSE
    <2>1. i # 0
      BY <1>7, <1>10
    <2>2. i \in 1..Len(strs) /\ i - 1 \in 0..Len(strs) /\ ~ (i <= i - 1)
      BY <1>1, <2>1
    <2>3. len[i - 1] = Len(t[i - 1])
      BY <1>11, <2>2
    <2>4. QED
      BY <1>7, <1>10, <2>1, <2>2, <2>3
  <1>12. T = {}
    <2>1. T \in SUBSET Nat
      BY <1>1
    <2> HIDE DEF T
    <2>2. QED
      BY <1>11, <2>1, Least
  <1>13. Len(strs) \in 0..Len(strs)
    BY <1>1
  <1>14. QED
    BY <1>4, <1>6, <1>8, <1>12, <1>13 DEF JoinFits

LEMMA LoadedHolds ==
    ASSUME PathsAreStrings
    PROVE  LoadedIsCleaned
  <1> SUFFICES ASSUME path1 # <<>>
               PROVE  aven_dl_open(path1 \o <<".", "d", "l", "l">>) = path1 \o LoadedExt
    BY DEF LoadedIsCleaned
  <1> DEFINE C == Chars \cup {"d", "l"}
  <1>1. PICK p \in Seq(C) : p = path1
    BY SeqMonotonic DEF PathsAreStrings
  <1>2. PICK e \in Seq(C) : e = <<".", "d", "l", "l">>
    <2>1. <<".", "d", "l", "l">> \in Seq(C)
      BY DEF Chars
    <2>2. QED
      BY <2>1
  <1> HIDE DEF C
  <1>3. Len(e) = 4 /\ e[1] = "." /\ e[2] = "d" /\ e[3] = "l" /\ e[4] = "l"
    BY <1>2
  <1>4. PICK f \in Seq(C) : f = p \o e
    BY ConcatProperties
  <1>5. Len(p) \in Nat /\ Len(p) # 0
    BY <1>1
  <1>6. /\ Len(f) = Len(p) + 4
        /\ \A i \in 1..(Len(p) + 4) : f[i] = IF i <= Len(p) THEN p[i] ELSE e[i - Len(p)]
    <2>1. /\ Len(p \o e) = Len(p) + Len(e)
          /\ \A i \in 1..(Len(p) + Len(e)) :
                (p \o e)[i] = IF i <= Len(p) THEN p[i] ELSE e[i - Len(p)]
      BY ConcatProperties
    <2>2. QED
      BY <1>3, <1>4, <2>1
  <1>7. f[Len(p) + 1] = "." /\ f[Len(p) + 2] = "d" /\ f[Len(p) + 3] = "l" /\ f[Len(p) + 4] = "l"
    <2>1. ASSUME NEW k \in 1..4
          PROVE  f[Len(p) + k] = e[k]
      <3>1. PICK i : i = Len(p) + k
        OBVIOUS
      <3>2. i \in 1..(Len(p) + 4) /\ ~ (i <= Len(p)) /\ i - Len(p) = k
        BY <1>5, <3>1
      <3>3. f[i] = e[i - Len(p)]
        BY <1>6, <3>2
      <3>4. QED
        BY <3>1, <3>2, <3>3
    <2>2. QED
      BY <1>3, <2>1
  <1>8. Len(p) + 1 \in Dots(f) /\ \A i \in Dots(f) : i <= Len(p) + 1
    <2>1. Len(p) + 1 \in Dots(f)
      BY <1>5, <1>6, <1>7 DEF Dots
    <2>2. ASSUME NEW i \in Dots(f), ~ (i <= Len(p) + 1)
          PROVE  FALSE
      <3>1. i \in 2..(Len(p) + 4) /\ f[i] = "."
        BY <1>6 DEF Dots
      <3>2. i = Len(p) + 2 \/ i = Len(p) + 3 \/ i = Len(p) + 4
        BY <1>5, <2>2, <3>1
      <3>3. QED
        BY <1>7, <3>1, <3>2
    <2>3. QED
      BY <2>1, <2>2
  <1>9. Max(Dots(f)) = Len(p) + 1
    <2>1. Dots(f) \in SUBSET (1..(Len(p) + 1)) /\ Len(p) + 1 \in Nat
      BY <1>5, <1>6, <1>8 DEF Dots
    <2>2. QED
      BY <1>8, <2>1, MaxIsBound
  <1>10. Stem(f) = p
    <2>1. Stem(f) = SubSeq(f, 1, Len(p))
      BY <1>5, <1>9 DEF Stem
    <2>2. 1 \in 1..Len(p) /\ Len(p) \in 1..Len(p)
      BY <1>5
    <2>3. SubSeq(p \o e, 1, Len(p)) = SubSeq(p, 1, Len(p))
      BY <2>2, SubSeqOfConcat1
    <2>4. QED
      BY <1>4, <2>1, <2>3, SubSeqFull
  <1>11. aven_dl_open(f) = p \o Loaded
    BY <1>5, <1>6, <1>8, <1>10 DEF aven_dl_open
  <1>12. QED
    BY <1>1, <1>2, <1>4, <1>11 DEF Loaded, LoadedExt, Characters, Table!SoExts

\* What Same stands for.
LEMMA SameIs ==
    ASSUME NEW D, NEW ps \in Seq(D), NEW qs \in Seq(D), NEW n, n = Same(ps, qs)
    PROVE  /\ n \in 0..Len(ps) /\ n \in 0..Len(qs)
           /\ \A i \in 1..n : ps[i] = qs[i]
           /\ n = Len(ps) \/ n = Len(qs) \/ ps[n + 1] # qs[n + 1]
  <1> DEFINE Ends0(m) == m = Len(ps) \/ m = Len(qs) \/ ps[m + 1] # qs[m + 1]
             T == {m \in Nat : Ends0(m)}
  <1>1. Len(ps) \in Nat /\ Len(qs) \in Nat
    OBVIOUS
  <1>2. PICK m \in T : \A k \in T : m <= k
    <2>1. T \in SUBSET Nat
      OBVIOUS
    <2>2. Len(ps) \in T
      BY <1>1
    <2> HIDE DEF T
    <2>3. QED
      BY <2>1, <2>2, Least
  <1>3. m \in 0..Len(ps) /\ m <= Len(qs)
    <2>1. Len(ps) \in T /\ Len(qs) \in T
      BY <1>1
    <2>2. m <= Len(ps) /\ m <= Len(qs)
      BY <1>2, <2>1
    <2>3. QED
      BY <1>1, <2>2
  <1>4. \A i \in 1..m : ps[i] = qs[i]
    <2> TAKE i \in 1..m
    <2>1. PICK k : k = i - 1
      OBVIOUS
    <2>2. k \in Nat /\ ~ (m <= k) /\ k + 1 = i
      BY <1>3, <2>1
    <2>3. ~ Ends0(k)
      <3>1. k \notin T
        BY <1>2, <2>2
      <3>2. QED
        BY <2>2, <3>1
    <2>4. ps[k + 1] = qs[k + 1]
      BY <2>3
    <2>5. QED
      BY <2>2, <2>4
  <1>5. Ends0(m)
    OBVIOUS
  <1> DEFINE Fit(k) == /\ k <= Len(qs) /\ \A i \in 1..k : ps[i] = qs[i]
                       /\ k = Len(ps) \/ k = Len(qs) \/ ps[k + 1] # qs[k + 1]
  <1>6. Fit(m)
    BY <1>3, <1>4, <1>5
  <1>7. n = CHOOSE k \in 0..Len(ps) : Fit(k)
    BY DEF Same
  <1>8. n \in 0..Len(ps) /\ Fit(n)
    <2> HIDE DEF Fit, T
    <2>1. QED
      BY <1>3, <1>6, <1>7
  <1>9. n \in 0..Len(qs)
    BY <1>1, <1>8
  <1>10. QED
    BY <1>8, <1>9

\* Two sequences of parts go the same way, and then each its own.
Fork(D, ps, qs, n) == \E a, b, c \in Seq(D) :
    /\ a = SubSeq(ps, 1, n) /\ Len(a) = n
    /\ b = SubSeq(ps, n + 1, Len(ps)) /\ ps = a \o b
    /\ c = SubSeq(qs, n + 1, Len(qs)) /\ qs = a \o c /\ Len(c) = Len(qs) - n

LEMMA SamePrefix ==
    ASSUME NEW D, NEW ps \in Seq(D), NEW qs \in Seq(D), NEW n, n = Same(ps, qs)
    PROVE  Fork(D, ps, qs, n)
  <1>1. /\ n \in 0..Len(ps) /\ n \in 0..Len(qs)
        /\ \A i \in 1..n : ps[i] = qs[i]
    BY SameIs
  <1>2. ASSUME NEW s \in Seq(D), n \in 0..Len(s)
        PROVE  /\ SubSeq(s, 1, n) \in Seq(D) /\ Len(SubSeq(s, 1, n)) = n
               /\ SubSeq(s, n + 1, Len(s)) \in Seq(D) /\ Len(SubSeq(s, n + 1, Len(s))) = Len(s) - n
               /\ \A i \in 1..n : SubSeq(s, 1, n)[i] = s[i]
               /\ s = SubSeq(s, 1, n) \o SubSeq(s, n + 1, Len(s))
    <2>1. /\ Len(s) \in 0..Len(s) /\ 1 \in 1..(Len(s) + 1) /\ n + 1 \in 1..(Len(s) + 1)
          /\ \A i \in 1..Len(s) : s[i] \in D
      BY <1>2
    <2>2. 1 <= n + 1 /\ n + 1 <= Len(s) + 1
      BY <1>2
    <2>3. /\ \A j \in 1..n : s[j] \in D
          /\ \A j \in (n + 1)..Len(s) : s[j] \in D
      BY <1>2, <2>1
    <2>4. /\ SubSeq(s, 1, n) \in Seq(D) /\ Len(SubSeq(s, 1, n)) = n - 1 + 1
          /\ \A i \in 1..(n - 1 + 1) : SubSeq(s, 1, n)[i] = s[1 + i - 1]
      BY <1>2, <2>1, <2>2, <2>3, SubSeqIs
    <2>5. /\ SubSeq(s, n + 1, Len(s)) \in Seq(D)
          /\ Len(SubSeq(s, n + 1, Len(s))) = Len(s) - (n + 1) + 1
      BY <1>2, <2>1, <2>2, <2>3, SubSeqIs
    <2>6. n - 1 + 1 = n /\ Len(s) - (n + 1) + 1 = Len(s) - n /\ \A i \in 1..n : 1 + i - 1 = i
      BY <1>2
    <2>7. s = SubSeq(s, 1, n) \o SubSeq(s, n + 1, Len(s))
      <3>1. CASE n = 0
        <4>1. SubSeq(s, 1, n) = <<>>
          BY <2>4, <2>6, <3>1
        <4>2. SubSeq(s, n + 1, Len(s)) = s
          <5>1. n + 1 = 1
            BY <3>1
          <5>2. QED
            BY <5>1, SubSeqFull
        <4>3. QED
          BY <4>1, <4>2, ConcatEmptySeq
      <3>2. CASE n # 0
        <4>1. n \in 1..Len(s)
          BY <1>2, <3>2
        <4>2. QED
          BY <4>1, CutAt
      <3>3. QED
        BY <3>1, <3>2
    <2>8. QED
      BY <2>4, <2>5, <2>6, <2>7
  <1>3. PICK a \in Seq(D), b \in Seq(D) :
            /\ a = SubSeq(ps, 1, n) /\ b = SubSeq(ps, n + 1, Len(ps))
            /\ Len(a) = n /\ (\A i \in 1..n : a[i] = ps[i]) /\ ps = a \o b
    <2>1. /\ SubSeq(ps, 1, n) \in Seq(D) /\ Len(SubSeq(ps, 1, n)) = n
          /\ SubSeq(ps, n + 1, Len(ps)) \in Seq(D)
          /\ \A i \in 1..n : SubSeq(ps, 1, n)[i] = ps[i]
          /\ ps = SubSeq(ps, 1, n) \o SubSeq(ps, n + 1, Len(ps))
      BY <1>1, <1>2
    <2>2. QED
      BY <2>1
  <1>4. PICK d \in Seq(D), c \in Seq(D) :
            /\ d = SubSeq(qs, 1, n) /\ c = SubSeq(qs, n + 1, Len(qs)) /\ Len(c) = Len(qs) - n
            /\ Len(d) = n /\ (\A i \in 1..n : d[i] = qs[i]) /\ qs = d \o c
    <2>1. /\ SubSeq(qs, 1, n) \in Seq(D) /\ Len(SubSeq(qs, 1, n)) = n
          /\ SubSeq(qs, n + 1, Len(qs)) \in Seq(D) /\ Len(SubSeq(qs, n + 1, Len(qs))) = Len(qs) - n
          /\ \A i \in 1..n : SubSeq(qs, 1, n)[i] = qs[i]
          /\ qs = SubSeq(qs, 1, n) \o SubSeq(qs, n + 1, Len(qs))
      BY <1>1, <1>2
    <2>2. QED
      BY <2>1
  <1>5. a = d
    <2>1. \A i \in 1..Len(a) : a[i] = d[i]
      BY <1>1, <1>3, <1>4
    <2>2. Len(a) = Len(d)
      BY <1>3, <1>4
    <2>3. QED
      BY <2>1, <2>2, SeqEqual
  <1>6. QED
    BY <1>3, <1>4, <1>5 DEF Fork

\* As many levels up as names were gone down lead back.
Ups(n) == [i \in 1..n |-> DotDot]

LEMMA UpsAre ==
    ASSUME NEW P, DotDot \in P, NEW n \in Nat
    PROVE  Ups(n) \in Seq(P) /\ Len(Ups(n)) = n /\ Ups(0) = <<>>
  BY DEF Ups

LEMMA ClimbBack ==
    ASSUME NEW P, Dot \in P, DotDot \in P, NEW ns \in Seq(P \ {Dot, DotDot}), NEW at \in Seq(P)
    PROVE  Lead(P, Lead(P, at, ns), Ups(Len(ns))) = at
  <1>1. PICK N : N = P \ {Dot, DotDot}
    OBVIOUS
  <1> DEFINE Good == {r \in Seq(N) : r \in Seq(P) /\ \A a \in Seq(P) :
                            Lead(P, Lead(P, a, r), Ups(Len(r))) = a}
  <1>2. <<>> \in Good
    <2>1. PICK e \in Seq(P) : e = <<>>
      <3>1. <<>> \in Seq(P)
        OBVIOUS
      <3>2. QED
        BY <3>1
    <2>2. Len(e) = 0 /\ Ups(0) = e /\ e \in Seq(N)
      BY <2>1, UpsAre
    <2>3. \A a \in Seq(P) : Lead(P, a, <<>>) = a
      BY <2>1, LeadSteps
    <2>4. QED
      BY <2>1, <2>2, <2>3
  <1>3. ASSUME NEW r \in Good, NEW x \in N
        PROVE  Append(r, x) \in Good
    <2>1. /\ r \in Seq(N) /\ r \in Seq(P) /\ Len(r) \in Nat
          /\ x \in P /\ x # Dot /\ x # DotDot
      BY <1>1
    <2>2. PICK s \in Seq(P) : s = Append(r, x) /\ s \in Seq(N) /\ Len(s) = Len(r) + 1
      <3>1. Append(r, x) \in Seq(P) /\ Append(r, x) \in Seq(N) /\ Len(Append(r, x)) = Len(r) + 1
        BY <2>1
      <3>2. QED
        BY <3>1
    <2>3. PICK u \in Seq(P), up \in Seq(P), v \in Seq(P) :
              u = Ups(Len(r)) /\ Len(up) = 1 /\ up[1] = DotDot /\ v = Ups(Len(s)) /\ v = up \o u
      <3>1. Ups(Len(r)) \in Seq(P) /\ Ups(Len(s)) \in Seq(P) /\ Len(Ups(Len(r))) = Len(r)
            /\ Len(Ups(Len(s))) = Len(s) /\ Ups(1) \in Seq(P) /\ Len(Ups(1)) = 1
        <4>1. \A k \in Nat : Ups(k) \in Seq(P) /\ Len(Ups(k)) = k
          BY UpsAre
        <4>2. Len(r) \in Nat /\ Len(s) \in Nat /\ 1 \in Nat
          BY <2>1, <2>2
        <4>3. QED
          BY <4>1, <4>2
      <3>2. PICK u \in Seq(P), up \in Seq(P), v \in Seq(P) :
                u = Ups(Len(r)) /\ up = Ups(1) /\ v = Ups(Len(s))
        BY <3>1
      <3>3. /\ up \o u \in Seq(P) /\ Len(up \o u) = Len(up) + Len(u)
            /\ \A i \in 1..(Len(up) + Len(u)) :
                    (up \o u)[i] = IF i <= Len(up) THEN up[i] ELSE u[i - Len(up)]
        BY ConcatProperties
      <3>4. /\ \A i \in 1..Len(r) : u[i] = DotDot
            /\ up[1] = DotDot
            /\ \A i \in 1..Len(s) : v[i] = DotDot
        BY <2>1, <2>2, <3>2 DEF Ups
      <3>5. Len(up) = 1 /\ Len(u) = Len(r) /\ Len(v) = Len(r) + 1
        BY <2>2, <3>1, <3>2
      <3>6. PICK w \in Seq(P) : w = up \o u
        BY <3>3
      <3>7. Len(w) = Len(v)
        BY <2>1, <3>3, <3>5, <3>6
      <3>8. ASSUME NEW i \in 1..Len(w)
            PROVE  w[i] = v[i]
        <4>1. i \in 1..(Len(r) + 1) /\ i \in 1..Len(s)
          BY <2>2, <3>5, <3>7
        <4>2. w[i] = IF i <= 1 THEN up[i] ELSE u[i - 1]
          BY <2>1, <3>3, <3>5, <3>6, <4>1
        <4>3. CASE i = 1
          BY <3>4, <4>1, <4>2, <4>3
        <4>4. CASE i # 1
          <5>1. i - 1 \in 1..Len(r) /\ ~ (i <= 1)
            BY <2>1, <4>1, <4>4
          <5>2. u[i - 1] = DotDot
            BY <3>4, <5>1
          <5>3. QED
            BY <3>4, <4>1, <4>2, <5>1, <5>2
        <4>5. QED
          BY <4>3, <4>4
      <3>9. w = v
        BY <3>7, <3>8, SeqEqual
      <3>10. QED
        BY <3>2, <3>4, <3>5, <3>6, <3>9
    <2>4. ASSUME NEW a \in Seq(P)
          PROVE  Lead(P, Lead(P, a, s), v) = a
      <3>1. PICK b \in Seq(P) : b = Lead(P, a, r)
        BY <2>1, LeadSteps
      <3>2. Lead(P, a, Append(r, x)) = GoTo(Lead(P, a, r), x)
        BY <2>1, LeadSteps
      <3>3. PICK d \in Seq(P) : d = Append(b, x)
        <4>1. Append(b, x) \in Seq(P)
          BY <2>1
        <4>2. QED
          BY <4>1
      <3>4. Lead(P, a, s) = d
        BY <2>1, <2>2, <3>1, <3>2, <3>3 DEF GoTo
      <3>5. Lead(P, d, v) = Lead(P, Lead(P, d, up), u)
        BY <2>3, LeadSteps
      <3>6. Lead(P, d, up) = GoTo(d, DotDot)
        BY <2>3, LeadOne
      <3>7. GoTo(d, DotDot) = b
        <4>1. Len(d) = Len(b) + 1 /\ d[Len(d)] = x /\ d # <<>> /\ Len(b) \in Nat
          <5>1. x \in P /\ d = Append(b, x)
            BY <2>1, <3>3
          <5>2. Append(b, x) # <<>> /\ Append(b, x)[Len(Append(b, x))] = x
            BY <5>1, LastIs
          <5>3. Len(Append(b, x)) = Len(b) + 1 /\ Len(b) \in Nat
            BY <5>1, AppendProperties
          <5>4. QED
            BY <5>1, <5>2, <5>3
        <4>2. SubSeq(d, 1, Len(d) - 1) = b
          BY <2>1, <3>3, AppendProperties
        <4>3. QED
          BY <2>1, <4>1, <4>2, CharsAre DEF GoTo
      <3>8. Lead(P, b, u) = a
        BY <2>3, <3>1
      <3>9. QED
        BY <3>4, <3>5, <3>6, <3>7, <3>8
    <2>5. QED
      BY <2>2, <2>3, <2>4
  <1>4. Good \in SUBSET Seq(N)
    OBVIOUS
  <1>5. ns \in Good
    <2> HIDE DEF Good
    <2>1. QED
      BY <1>1, <1>2, <1>3, <1>4, AllSequences
  <1>6. QED
    BY <1>5

\* A part that is the directory itself says nothing where it comes first.
LEMMA WithoutDotLeads ==
    ASSUME NEW P, Dot \in P, NEW ps \in Seq(P)
    PROVE  WithoutDot(ps) \in Seq(P) /\ Resolve(WithoutDot(ps)) = Resolve(ps)
  <1>1. CASE ps # <<>> /\ Head(ps) = Dot
    <2>1. PICK r \in Seq(P) : r = Tail(ps)
      <3>1. Tail(ps) \in Seq(P)
        BY <1>1
      <3>2. QED
        BY <3>1
    <2>2. ps = <<Head(ps)>> \o r
      BY <1>1, <2>1, HeadTailProperties
    <2>3. Resolve(<<Dot>> \o r) = Resolve(r)
      BY DotStays
    <2>4. WithoutDot(ps) = r
      BY <1>1, <2>1 DEF WithoutDot
    <2>5. QED
      BY <1>1, <2>2, <2>3, <2>4
  <1>2. CASE ~ (ps # <<>> /\ Head(ps) = Dot)
    BY <1>2 DEF WithoutDot
  <1>3. QED
    BY <1>1, <1>2

LEMMA ResolveAfterDot ==
    ASSUME NEW P, Dot \in P, NEW ps \in Seq(P), NEW r \in Seq(P)
    PROVE  Resolve(ps \o r) = Resolve(WithoutDot(ps) \o r)
  <1>1. PICK qs \in Seq(P) : qs = WithoutDot(ps)
    BY WithoutDotLeads
  <1>2. Resolve(qs) = Resolve(ps)
    BY <1>1, WithoutDotLeads
  <1>3. PICK e \in Seq(P) : e = <<>>
    <2>1. <<>> \in Seq(P)
      OBVIOUS
    <2>2. QED
      BY <2>1
  <1>4. \A s \in Seq(P) : Resolve(s) = Lead(P, e, s)
    BY <1>3, ResolveIsLead
  <1>5. \A s \in Seq(P) : s \o r \in Seq(P) /\ Lead(P, e, s \o r) = Lead(P, Lead(P, e, s), r)
    BY LeadSteps, ConcatProperties
  <1>6. Lead(P, e, qs) = Lead(P, e, ps)
    BY <1>2, <1>4
  <1>7. Resolve(ps \o r) = Lead(P, e, ps \o r) /\ Resolve(qs \o r) = Lead(P, e, qs \o r)
    BY <1>4, <1>5
  <1>8. QED
    BY <1>1, <1>5, <1>6, <1>7

\* From where the second sequence of parts leads, the way back up to where they
\* part, and from there down the first, leads to where the first does.
LEMMA Detour ==
    ASSUME NEW P, Dot \in P, DotDot \in P,
           NEW a \in Seq(P), NEW b \in Seq(P), NEW c \in Seq(P \ {Dot, DotDot}),
           NEW u, u = Ups(Len(c))
    PROVE  /\ u \in Seq(P) /\ c \in Seq(P)
           /\ Lead(P, <<>>, (a \o c) \o u) = Lead(P, <<>>, a)
           /\ Lead(P, <<>>, (a \o c) \o (<<Dot>> \o u \o b)) = Lead(P, <<>>, a \o b)
  <1>1. c \in Seq(P) /\ u \in Seq(P)
    <2>1. Len(c) \in Nat
      OBVIOUS
    <2>2. Ups(Len(c)) \in Seq(P)
      BY <2>1, UpsAre
    <2>3. QED
      BY <2>2
  <1>2. PICK e \in Seq(P), d \in Seq(P) : e = <<>> /\ d = <<Dot>> /\ Len(d) = 1 /\ d[1] = Dot
    <2>1. <<>> \in Seq(P) /\ <<Dot>> \in Seq(P) /\ Len(<<Dot>>) = 1 /\ <<Dot>>[1] = Dot
      OBVIOUS
    <2>2. QED
      BY <2>1
  <1>3. PICK x \in Seq(P), y \in Seq(P), z \in Seq(P) :
            x = Lead(P, e, a) /\ y = Lead(P, x, c) /\ z = Lead(P, x, b)
    <2>1. PICK x \in Seq(P) : x = Lead(P, e, a)
      BY LeadSteps
    <2>2. PICK y \in Seq(P) : y = Lead(P, x, c)
      BY <1>1, LeadSteps
    <2>3. PICK z \in Seq(P) : z = Lead(P, x, b)
      BY LeadSteps
    <2>4. QED
      BY <2>1, <2>2, <2>3
  <1>4. Lead(P, y, u) = x
    BY <1>3, ClimbBack
  <1>5. PICK ac \in Seq(P), ab \in Seq(P), du \in Seq(P) : ac = a \o c /\ ab = a \o b /\ du = d \o u
    <2>1. a \o c \in Seq(P) /\ a \o b \in Seq(P) /\ d \o u \in Seq(P)
      BY <1>1, ConcatProperties
    <2>2. QED
      BY <2>1
  <1>6. PICK dub \in Seq(P) : dub = du \o b
    <2>1. du \o b \in Seq(P)
      BY ConcatProperties
    <2>2. QED
      BY <2>1
  <1>7. Lead(P, e, ac) = y /\ Lead(P, e, ab) = z
    BY <1>1, <1>3, <1>5, LeadSteps
  <1>8. Lead(P, e, ac \o u) = Lead(P, y, u)
    BY <1>1, <1>7, LeadSteps
  <1>9. Lead(P, y, d) = y
    <2>1. Lead(P, y, d) = GoTo(y, d[1])
      BY <1>2, LeadOne
    <2>2. QED
      BY <1>2, <2>1 DEF GoTo
  <1>10. Lead(P, y, du) = x
    <2>1. Lead(P, y, d \o u) = Lead(P, Lead(P, y, d), u)
      BY <1>1, LeadSteps
    <2>2. QED
      BY <1>4, <1>5, <1>9, <2>1
  <1>11. Lead(P, y, dub) = z
    <2>1. Lead(P, y, du \o b) = Lead(P, Lead(P, y, du), b)
      BY LeadSteps
    <2>2. QED
      BY <1>3, <1>6, <1>10, <2>1
  <1>12. Lead(P, e, ac \o dub) = z
    <2>1. Lead(P, e, ac \o dub) = Lead(P, Lead(P, e, ac), dub)
      BY LeadSteps
    <2>2. QED
      BY <1>7, <1>11, <2>1
  <1>13. Lead(P, e, ac \o u) = Lead(P, e, a)
    BY <1>3, <1>4, <1>8
  <1>14. Lead(P, e, ac \o dub) = Lead(P, e, ab)
    BY <1>7, <1>12
  <1>15. QED
    BY <1>1, <1>2, <1>5, <1>6, <1>13, <1>14

\* A string whose first character is no separator begins with its first word.
Led(x, v, ws) == IF ws = <<>> THEN v # <<>> /\ v[1] = x ELSE ws[1][1] = x

LEMMA AppendKeepsFirst ==
    ASSUME NEW D, NEW s \in Seq(D), NEW c \in D
    PROVE  /\ Append(s, c) # <<>> /\ Append(s, c) \in Seq(D)
           /\ Append(s, c)[1] = IF s = <<>> THEN c ELSE s[1]
  <1>1. Append(s, c) \in Seq(D) /\ Append(s, c) # <<>>
    BY AppendProperties, LastIs
  <1>2. CASE s = <<>>
    BY <1>2
  <1>3. CASE s # <<>>
    <2>1. 1 \in 1..Len(s)
      BY <1>3
    <2>2. QED
      BY <1>3, <2>1, AppendProperties
  <1>4. QED
    BY <1>1, <1>2, <1>3

LEMMA LedGoesOn ==
    ASSUME NEW C, NEW sep, NEW x, NEW v \in Word(C, sep), NEW ws \in Words(C, sep), Led(x, v, ws)
    PROVE  /\ \A c \in C \ {sep} : Append(v, c) \in Word(C, sep) /\ Led(x, Append(v, c), ws)
           /\ v # <<>> => Append(ws, v) \in Words(C, sep) /\ Led(x, <<>>, Append(ws, v))
           /\ v = <<>> => Led(x, <<>>, ws)
  <1>1. ASSUME NEW c \in C \ {sep}
        PROVE  Append(v, c) \in Word(C, sep) /\ Led(x, Append(v, c), ws)
    <2>1. v \in Seq(C \ {sep})
      BY DEF Word
    <2>2. /\ Append(v, c) # <<>> /\ Append(v, c) \in Seq(C \ {sep})
          /\ Append(v, c)[1] = IF v = <<>> THEN c ELSE v[1]
      BY <2>1, AppendKeepsFirst
    <2>3. QED
      BY <2>2 DEF Led, Word
  <1>2. ASSUME v # <<>>
        PROVE  Append(ws, v) \in Words(C, sep) /\ Led(x, <<>>, Append(ws, v))
    <2>1. PICK D : D = Word(C, sep) \ {<<>>}
      OBVIOUS
    <2>2. ws \in Seq(D) /\ v \in D
      BY <1>2, <2>1 DEF Words
    <2>3. /\ Append(ws, v) # <<>> /\ Append(ws, v) \in Seq(D)
          /\ Append(ws, v)[1] = IF ws = <<>> THEN v ELSE ws[1]
      BY <2>2, AppendKeepsFirst
    <2>4. QED
      BY <2>1, <2>3 DEF Led, Words
  <1>3. v = <<>> => Led(x, <<>>, ws)
    BY DEF Led
  <1>4. QED
    BY <1>1, <1>2, <1>3

LEMMA FirstIs ==
    ASSUME NEW C, NEW sep \in C, NEW p \in Seq(C), p # <<>>, p[1] # sep
    PROVE  aven_str_split(p, sep) # <<>> /\ aven_str_split(p, sep)[1][1] = p[1]
  <1> DEFINE Begun(s) == \E v \in Word(C, sep), ws \in Words(C, sep) :
                            Rd(C, sep, s) = Now(v, ws) /\ Led(s[1], v, ws)
             Good == {s \in Seq(C) : s # <<>> /\ s[1] # sep => Begun(s)}
  <1>1. <<>> \in Good
    OBVIOUS
  <1>2. ASSUME NEW s \in Good, NEW c \in C
        PROVE  Append(s, c) \in Good
    <2>1. s \in Seq(C)
      OBVIOUS
    <2>2. PICK r \in Seq(C) : r = Append(s, c)
      BY <2>1, AppendKeepsFirst
    <2>3. r # <<>> /\ r[1] = IF s = <<>> THEN c ELSE s[1]
      BY <2>1, <2>2, AppendKeepsFirst
    <2>4. CASE s = <<>> /\ c # sep
      <3>1. PICK v \in Word(C, sep) : v = Append(s, c)
        <4>1. <<>> \in Seq(C \ {sep}) /\ c \in C \ {sep}
          BY <2>4
        <4>2. Append(<<>>, c) \in Seq(C \ {sep})
          BY <4>1, AppendKeepsFirst
        <4>3. QED
          BY <2>4, <4>2 DEF Word
      <3>2. Rd(C, sep, r) = Now(v, <<>>) /\ r = v
        BY <2>2, <3>1, SplitWord
      <3>3. Led(r[1], v, <<>>) /\ <<>> \in Words(C, sep)
        BY <2>3, <3>2 DEF Led, Words
      <3>4. Begun(r)
        BY <3>2, <3>3
      <3>5. QED
        BY <2>2, <3>4
    <2>5. CASE s # <<>> /\ s[1] # sep
      <3>1. PICK v \in Word(C, sep), ws \in Words(C, sep) :
                Rd(C, sep, s) = Now(v, ws) /\ Led(s[1], v, ws)
        BY <2>5
      <3>2. PICK x : x = s[1]
        OBVIOUS
      <3>3. /\ \A d \in C \ {sep} : Append(v, d) \in Word(C, sep) /\ Led(x, Append(v, d), ws)
            /\ v # <<>> => Append(ws, v) \in Words(C, sep) /\ Led(x, <<>>, Append(ws, v))
            /\ v = <<>> => Led(x, <<>>, ws)
        BY <3>1, <3>2, LedGoesOn
      <3>4. r[1] = x
        BY <2>3, <2>5, <3>2
      <3>5. CASE c = sep
        <4>1. Rd(C, sep, r) = Flush(Now(v, ws))
          BY <2>1, <2>2, <3>1, <3>5, ReadSteps
        <4>2. Rd(C, sep, r) = Now(<<>>, IF v = <<>> THEN ws ELSE Append(ws, v))
          BY <4>1, NowIs
        <4>3. <<>> \in Word(C, sep)
          BY DEF Word
        <4>4. \E us \in Words(C, sep) : Rd(C, sep, r) = Now(<<>>, us) /\ Led(x, <<>>, us)
          BY <3>3, <4>2
        <4>5. Begun(r)
          BY <3>4, <4>3, <4>4
        <4>6. QED
          BY <2>2, <4>5
      <3>6. CASE c # sep
        <4>1. Rd(C, sep, r) = Add(Now(v, ws), c)
          BY <2>1, <2>2, <3>1, <3>6, ReadSteps
        <4>2. Rd(C, sep, r) = Now(Append(v, c), ws)
          BY <4>1, NowIs
        <4>3. Append(v, c) \in Word(C, sep) /\ Led(x, Append(v, c), ws)
          BY <3>3, <3>6
        <4>4. Begun(r)
          BY <3>4, <4>2, <4>3
        <4>5. QED
          BY <2>2, <4>4
      <3>7. QED
        BY <3>5, <3>6
    <2>6. CASE ~ (s = <<>> /\ c # sep) /\ ~ (s # <<>> /\ s[1] # sep)
      <3>1. r[1] = sep
        BY <2>3, <2>6
      <3> HIDE DEF Begun
      <3>2. QED
        BY <2>2, <3>1
    <2>7. QED
      BY <2>4, <2>5, <2>6
  <1>3. Begun(p)
    <2> HIDE DEF Begun
    <2>1. Good \in SUBSET Seq(C)
      OBVIOUS
    <2>2. p \in Good
      <3> HIDE DEF Good
      <3>1. QED
        BY <1>1, <1>2, <2>1, AllSequences
    <2>3. QED
      BY <2>2
  <1>4. PICK v \in Word(C, sep), ws \in Words(C, sep) :
            Rd(C, sep, p) = Now(v, ws) /\ Led(p[1], v, ws)
    BY <1>3
  <1>5. aven_str_split(p, sep) = IF v = <<>> THEN ws ELSE Append(ws, v)
    BY <1>4, SplitIs
  <1>6. Led(p[1], <<>>, aven_str_split(p, sep))
    BY <1>4, <1>5, LedGoesOn
  <1>7. QED
    BY <1>6 DEF Led

\* What Comparable says of the parts of the two paths.
LEMMA ComparableParts ==
    ASSUME NEW P, P = Word(Chars, Sep) \ {<<>>}, PathsAreStrings, Comparable
    PROVE  \E a, b \in Seq(P), c \in Seq(P \ {Dot, DotDot}) :
               LET ps == WithoutDot(Parts(path1))
                   qs == WithoutDot(Parts(path2))
                   n  == Same(ps, qs)
               IN  /\ a = SubSeq(ps, 1, n) /\ Len(a) = n /\ ps = a \o b
                   /\ b = SubSeq(ps, n + 1, Len(ps))
                   /\ qs = a \o c /\ Climb(qs, n) = Ups(Len(c))
  <1>1. PICK p \in Seq(Chars), q \in Seq(Chars) : p = path1 /\ q = path2
    BY DEF PathsAreStrings
  <1>2. Dot \in P /\ DotDot \in P
    BY CharsAre
  <1>3. Parts(p) \in Seq(P) /\ Parts(q) \in Seq(P)
    <2>1. Parts(p) \in Words(Chars, Sep) /\ Parts(q) \in Words(Chars, Sep)
      BY CharsAre, SplitType DEF Parts
    <2>2. QED
      BY <2>1 DEF Words
  <1>4. PICK ps \in Seq(P), qs \in Seq(P) : ps = WithoutDot(Parts(p)) /\ qs = WithoutDot(Parts(q))
    BY <1>2, <1>3, WithoutDotLeads
  <1>5. PICK n : n = Same(ps, qs)
    OBVIOUS
  <1>6. PICK a, b, c \in Seq(P) :
            /\ a = SubSeq(ps, 1, n) /\ Len(a) = n
            /\ b = SubSeq(ps, n + 1, Len(ps)) /\ ps = a \o b
            /\ c = SubSeq(qs, n + 1, Len(qs)) /\ qs = a \o c /\ Len(c) = Len(qs) - n
    <2>1. Fork(P, ps, qs, n)
      BY <1>5, SamePrefix
    <2>2. QED
      BY <2>1 DEF Fork
  <1>7. c \in Seq(P \ {Dot, DotDot})
    <2>1. Beyond = c
      BY <1>1, <1>4, <1>5, <1>6 DEF Beyond
    <2>2. \A i \in 1..Len(c) : c[i] # Dot /\ c[i] # DotDot
      <3>1. Range(c) \cap {Dot, DotDot} = {}
        BY <2>1 DEF Comparable
      <3>2. \A i \in 1..Len(c) : c[i] \in Range(c)
        BY DEF Range
      <3>3. QED
        BY <3>1, <3>2
    <2>3. \A i \in 1..Len(c) : c[i] \in P \ {Dot, DotDot}
      BY <2>2
    <2>4. QED
      BY <2>3, ItsElementsIn
  <1>8. Climb(qs, n) = Ups(Len(c))
    BY <1>6 DEF Climb, Ups
  <1>9. /\ ps = WithoutDot(Parts(path1)) /\ qs = WithoutDot(Parts(path2))
        /\ n = Same(ps, qs)
    BY <1>1, <1>4, <1>5
  <1>10. /\ a = SubSeq(ps, 1, n) /\ Len(a) = n /\ ps = a \o b
         /\ b = SubSeq(ps, n + 1, Len(ps))
         /\ qs = a \o c /\ Climb(qs, n) = Ups(Len(c))
    BY <1>6, <1>8
  <1>11. \E k \in Seq(P \ {Dot, DotDot}) :
            /\ a = SubSeq(ps, 1, n) /\ Len(a) = n /\ ps = a \o b
            /\ b = SubSeq(ps, n + 1, Len(ps))
            /\ qs = a \o k /\ Climb(qs, n) = Ups(Len(k))
    BY <1>7, <1>10
  <1>12. QED
    BY <1>9, <1>11

LEMMA DiffLeadsHolds ==
    ASSUME PathsAreStrings
    PROVE  DiffLeads
  <1> SUFFICES ASSUME Comparable
               PROVE  Resolve(Parts(path2) \o Parts(aven_path_rel_diff(path1, path2)))
                        = Resolve(Parts(path1))
    BY DEF DiffLeads
  <1>1. PICK P : P = Word(Chars, Sep) \ {<<>>}
    OBVIOUS
  <1>2. PICK ps, qs, n : /\ ps = WithoutDot(Parts(path1)) /\ qs = WithoutDot(Parts(path2))
                         /\ n = Same(ps, qs)
    OBVIOUS
  <1>3. PICK a \in Seq(P), b \in Seq(P), c \in Seq(P \ {Dot, DotDot}) :
            /\ ps = a \o b /\ b = SubSeq(ps, n + 1, Len(ps))
            /\ qs = a \o c /\ Climb(qs, n) = Ups(Len(c))
    BY <1>1, <1>2, ComparableParts
  <1>4. Dot \in P /\ DotDot \in P /\ Sep \in Chars
    BY <1>1, CharsAre
  <1>5. Parts(path1) \in Seq(P) /\ Parts(path2) \in Seq(P)
    <2>1. Parts(path1) \in Words(Chars, Sep) /\ Parts(path2) \in Words(Chars, Sep)
      BY CharsAre, SplitType DEF Parts, PathsAreStrings
    <2>2. QED
      BY <1>1, <2>1 DEF Words
  <1>6. PICK u : u = Ups(Len(c))
    OBVIOUS
  <1>7. /\ u \in Seq(P) /\ c \in Seq(P)
        /\ Lead(P, <<>>, (a \o c) \o (<<Dot>> \o u \o b)) = Lead(P, <<>>, a \o b)
    BY <1>4, <1>6, Detour
  <1>8. PICK d \in Seq(P) : d = <<Dot>> \o u \o b
    <2>1. PICK e \in Seq(P) : e = <<Dot>>
      <3>1. <<Dot>> \in Seq(P)
        BY <1>4
      <3>2. QED
        BY <3>1
    <2>2. PICK f \in Seq(P) : f = e \o u
      <3>1. e \o u \in Seq(P)
        BY <1>7, ConcatProperties
      <3>2. QED
        BY <3>1
    <2>3. f \o b \in Seq(P)
      BY ConcatProperties
    <2>4. QED
      BY <2>1, <2>2, <2>3
  <1>9. Parts(aven_path_rel_diff(path1, path2)) = d
    <2>1. aven_path_rel_diff(path1, path2) = aven_path(d)
      BY <1>2, <1>3, <1>6, <1>8 DEF aven_path_rel_diff, DiffParts
    <2>2. d \in Words(Chars, Sep)
      BY <1>1 DEF Words
    <2>3. Parts(aven_path(d)) = d
      BY <1>4, <2>2, JoinKeeps
    <2>4. QED
      BY <2>1, <2>3
  <1>10. Resolve(ps) = Resolve(Parts(path1))
    BY <1>2, <1>4, <1>5, WithoutDotLeads
  <1>11. Resolve(Parts(path2) \o d) = Resolve(qs \o d)
    BY <1>2, <1>4, <1>5, ResolveAfterDot
  <1>12. qs \in Seq(P) /\ ps \in Seq(P) /\ qs \o d \in Seq(P)
    <2>1. a \o c \in Seq(P) /\ a \o b \in Seq(P)
      BY <1>7, ConcatProperties
    <2>2. qs \in Seq(P) /\ ps \in Seq(P)
      BY <1>3, <2>1
    <2>3. QED
      BY <2>2, ConcatProperties
  <1>13. Lead(P, <<>>, qs \o d) = Lead(P, <<>>, ps)
    BY <1>3, <1>7, <1>8
  <1>14. Resolve(qs \o d) = Resolve(ps)
    BY <1>12, <1>13, ResolveIsLead
  <1>15. QED
    BY <1>9, <1>10, <1>11, <1>14

LEMMA DiffMeetsHolds ==
    ASSUME PathsAreStrings
    PROVE  DiffMeetsIntersect
  <1> SUFFICES ASSUME Comparable, Dot \notin {Head(Parts(path1)), Head(Parts(path2))}
               PROVE  Resolve(Parts(path2) \o Climb(Parts(path2), Same(Parts(path1), Parts(path2))))
                        = Resolve(Parts(aven_path_rel_intersect(path1, path2)))
    BY DEF DiffMeetsIntersect
  <1>1. PICK P : P = Word(Chars, Sep) \ {<<>>}
    OBVIOUS
  <1>2. Dot \in P /\ DotDot \in P /\ Sep \in Chars
    BY <1>1, CharsAre
  <1>3. PICK ps \in Seq(P), qs \in Seq(P) : ps = Parts(path1) /\ qs = Parts(path2)
    <2>1. Parts(path1) \in Words(Chars, Sep) /\ Parts(path2) \in Words(Chars, Sep)
      BY CharsAre, SplitType DEF Parts, PathsAreStrings
    <2>2. Parts(path1) \in Seq(P) /\ Parts(path2) \in Seq(P)
      BY <1>1, <2>1 DEF Words
    <2>3. QED
      BY <2>2
  <1>4. WithoutDot(ps) = ps /\ WithoutDot(qs) = qs
    BY <1>3 DEF WithoutDot
  <1>5. PICK n : n = Same(ps, qs)
    OBVIOUS
  <1>6. PICK a \in Seq(P), b \in Seq(P), c \in Seq(P \ {Dot, DotDot}) :
            /\ a = SubSeq(ps, 1, n) /\ Len(a) = n
            /\ qs = a \o c /\ Climb(qs, n) = Ups(Len(c))
    BY <1>1, <1>3, <1>4, <1>5, ComparableParts
  <1>7. PICK u : u = Ups(Len(c))
    OBVIOUS
  <1>8. u \in Seq(P) /\ c \in Seq(P) /\ Lead(P, <<>>, (a \o c) \o u) = Lead(P, <<>>, a)
    BY <1>2, <1>7, Detour
  <1>9. Resolve(qs \o u) = Resolve(a)
    <2>1. Lead(P, <<>>, qs \o u) = Lead(P, <<>>, a)
      BY <1>6, <1>8
    <2>2. qs \o u \in Seq(P)
      BY <1>8, ConcatProperties
    <2>3. QED
      BY <2>1, <2>2, ResolveIsLead
  <1>10. path1 # <<>> /\ path2 # <<>> /\ path1[1] # Sep /\ path2[1] # Sep
    BY DEF Comparable, Relative, aven_path_is_abs
  <1>11. Parts(aven_path_rel_intersect(path1, path2)) = a
    <2>1. CASE path1[1] = path2[1]
      <3>1. aven_path_rel_intersect(path1, path2) = aven_path(a)
        BY <1>3, <1>5, <1>6, <1>10, <2>1 DEF aven_path_rel_intersect
      <3>2. a \in Words(Chars, Sep)
        BY <1>1 DEF Words
      <3>3. Parts(aven_path(a)) = a
        BY <1>2, <3>2, JoinKeeps
      <3>4. QED
        BY <3>1, <3>3
    <2>2. CASE path1[1] # path2[1]
      <3>1. aven_path_rel_intersect(path1, path2) = <<>>
        BY <2>2 DEF aven_path_rel_intersect
      <3>2. Parts(<<>>) = <<>>
        <4>1. <<>> \in Seq(Chars)
          OBVIOUS
        <4>2. QED
          BY <1>2, <4>1, SplitEnds DEF Parts
      <3>3. /\ ps # <<>> /\ ps[1][1] = path1[1]
            /\ qs # <<>> /\ qs[1][1] = path2[1]
        BY <1>2, <1>3, <1>10, FirstIs DEF Parts, PathsAreStrings
      <3>4. n = 0
        <4>1. n \in 0..Len(ps) /\ \A i \in 1..n : ps[i] = qs[i]
          BY <1>5, SameIs
        <4>2. ~ (1 \in 1..n)
          BY <2>2, <3>3, <4>1
        <4>3. QED
          BY <4>1, <4>2
      <3>5. a = <<>>
        BY <1>6, <3>4
      <3>6. QED
        BY <3>1, <3>2, <3>5
    <2>3. QED
      BY <2>1, <2>2
  <1>12. QED
    BY <1>3, <1>5, <1>6, <1>7, <1>9, <1>11

LEMMA CountedHolds ==
    ASSUME PathsAreStrings
    PROVE  CountedAsFilled
  <1>1. PICK p \in Seq(Chars), q \in Seq(Chars) : p = path1 /\ q = path2
    BY DEF PathsAreStrings
  <1>2. JoinFits(<<path1, path2, path1>>)
    <2>1. <<p, q, p>> \in Seq(Seq(Chars))
      OBVIOUS
    <2>2. QED
      BY <1>1, <2>1, CharsAre, JoinLenIs
  <1>3. PICK P : P = Word(Chars, Sep) \ {<<>>}
    OBVIOUS
  <1>4. Dot \in P /\ DotDot \in P
    BY <1>3, CharsAre
  <1>5. Parts(p) \in Seq(P) /\ Parts(q) \in Seq(P)
    <2>1. Parts(p) \in Words(Chars, Sep) /\ Parts(q) \in Words(Chars, Sep)
      BY CharsAre, SplitType DEF Parts
    <2>2. QED
      BY <1>3, <2>1 DEF Words
  <1>6. PICK ps \in Seq(P), qs \in Seq(P) : ps = WithoutDot(Parts(p)) /\ qs = WithoutDot(Parts(q))
    BY <1>4, <1>5, WithoutDotLeads
  <1>7. PICK n : n = Same(ps, qs)
    OBVIOUS
  <1>8. n \in 0..Len(ps) /\ n \in 0..Len(qs) /\ Len(ps) \in Nat /\ Len(qs) \in Nat
    BY <1>7, SameIs
  <1>9. PICK d \in Seq(P) : d = DiffParts(ps, qs, n) /\ Len(d) = DiffLen(ps, qs, n)
    <2>1. PICK e \in Seq(P) : e = <<Dot>> /\ Len(e) = 1
      <3>1. <<Dot>> \in Seq(P) /\ Len(<<Dot>>) = 1
        BY <1>4
      <3>2. QED
        BY <3>1
    <2>2. PICK u \in Seq(P) : u = Climb(qs, n) /\ Len(u) = Len(qs) - n
      <3>1. PICK k : k = Len(qs) - n
        OBVIOUS
      <3>2. k \in Nat
        BY <1>8, <3>1
      <3>3. Climb(qs, n) = Ups(k)
        BY <3>1 DEF Climb, Ups
      <3>4. QED
        BY <1>4, <3>1, <3>2, <3>3, UpsAre
    <2>3. PICK b \in Seq(P) : b = SubSeq(ps, n + 1, Len(ps)) /\ Len(b) = Len(ps) - n
      <3>1. Fork(P, ps, qs, n)
        BY <1>7, SamePrefix
      <3>2. PICK a \in Seq(P), b \in Seq(P) :
                Len(a) = n /\ b = SubSeq(ps, n + 1, Len(ps)) /\ ps = a \o b
        BY <3>1 DEF Fork
      <3>3. Len(a \o b) = Len(a) + Len(b) /\ Len(b) \in Nat
        BY ConcatProperties
      <3>4. PICK m : m = Len(b)
        OBVIOUS
      <3>5. Len(ps) = n + m /\ m \in Nat
        BY <3>2, <3>3, <3>4
      <3>6. m = Len(ps) - n
        BY <1>8, <3>5
      <3>7. QED
        BY <3>2, <3>4, <3>6
    <2>4. PICK f \in Seq(P) : f = e \o u /\ Len(f) = Len(e) + Len(u)
      BY ConcatProperties
    <2>5. f \o b \in Seq(P) /\ Len(f \o b) = Len(f) + Len(b)
      BY ConcatProperties
    <2>6. DiffParts(ps, qs, n) = f \o b
      BY <2>1, <2>2, <2>3, <2>4 DEF DiffParts
    <2>7. 1 + (Len(qs) - n) + (Len(ps) - n) = DiffLen(ps, qs, n)
      BY <1>8 DEF DiffLen
    <2>8. QED
      BY <2>1, <2>2, <2>3, <2>4, <2>5, <2>6, <2>7
  <1>10. JoinFits(d)
    <2>1. P \subseteq Seq(Chars)
      BY <1>3 DEF Word
    <2>2. d \in Seq(Seq(Chars))
      BY <2>1, SeqMonotonic
    <2>3. QED
      BY <2>2, CharsAre, JoinLenIs
  <1>11. /\ ps = WithoutDot(Parts(path1)) /\ qs = WithoutDot(Parts(path2))
         /\ n = Same(ps, qs)
    BY <1>1, <1>6, <1>7
  <1>12. QED
    BY <1>2, <1>9, <1>10, <1>11 DEF CountedAsFilled

\* Both paths are strings of characters.
LEMMA PathsStay == Spec => []PathsAreStrings
  <1>1. Init => PathsAreStrings
    BY DEF Init, PathsAreStrings
  <1>2. PathsAreStrings /\ [Next]_<<path1, path2>> => PathsAreStrings'
    <2> SUFFICES ASSUME PathsAreStrings, [Next]_<<path1, path2>>
                 PROVE  PathsAreStrings'
      OBVIOUS
    <2>1. Letter \subseteq Chars
      BY DEF Chars
    <2>2. CASE Next
      <3>1. PICK c \in Letter : \/ path1' = Append(path1, c) /\ UNCHANGED path2
                                \/ path2' = Append(path2, c) /\ UNCHANGED path1
        BY <2>2 DEF Next
      <3>2. c \in Chars
        BY <2>1
      <3>3. \A s \in Seq(Chars) : Append(s, c) \in Seq(Chars)
        BY <3>2
      <3>4. QED
        BY <3>1, <3>3 DEF PathsAreStrings
    <2>3. CASE UNCHANGED <<path1, path2>>
      BY <2>3 DEF PathsAreStrings
    <2>4. QED
      BY <2>2, <2>3
  <1>3. QED
    BY <1>1, <1>2, PTL DEF Spec

\* The parts of a joined path are those of its arguments, in their order: of
\* paths of any length aven_path loses none, and no two run together.
THEOREM PathsConcatenate == Spec => []PathConcatenates
  BY PathsStay, ConcatenatesHolds, PTL

\* The name of a file before its extension survives aven_path_fname, of which
\* the last character does not, however long the path is.
THEOREM StemsAreKept == Spec => []StemKept
  BY PathsStay, StemKeptHolds, PTL

\* What aven_path_rel_dir cuts off a relative path is its last part, and the
\* rest leads to the directory that part is in.
THEOREM DirThenNameAlways == Spec => []DirThenName
  BY PathsStay, DirThenNameHolds, PTL

\* The path aven_path_rel_diff makes leads from the second path to the first,
\* whatever the two have in common and however far they part.
THEOREM DifferencesLead == Spec => []DiffLeads
  BY PathsStay, DiffLeadsHolds, PTL

\* The levels aven_path_rel_diff goes up lead to what aven_path_rel_intersect
\* says the two paths have in common.
THEOREM DifferencesMeet == Spec => []DiffMeetsIntersect
  BY PathsStay, DiffMeetsHolds, PTL

\* The memory of what is joined, of any strings, and the array of the parts of a
\* difference have the lengths of what the loops that follow put into them.
THEOREM LengthsAreExact == Spec => []CountedAsFilled
  BY PathsStay, CountedHolds, PTL

\* What aven_dl_open leaves beside a library of any name is what -soext names.
THEOREM LoadedIsAlwaysCleaned == Spec => []LoadedIsCleaned
  BY PathsStay, LoadedHolds, PTL
=============================================================================
