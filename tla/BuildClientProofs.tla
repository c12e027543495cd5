-------------------------- MODULE BuildClientProofs ---------------------------
(***************************************************************************)
(* What the constructors of steps make of a graph, for all options, all    *)
(* lengths of lists and all clients: every step they append is whole, and  *)
(* what it needs is made by the steps below it.  A graph is known by       *)
(* GraphInv; one lemma per constructor leads to BuildKeeps.                *)
(***************************************************************************)
EXTENDS BuildClient, SequenceTheorems, FiniteSetTheorems, TLAPS

(* Sequences of anything, and the least of a set of numbers.                *)

\* A sequence of anything.
IsSeq(s) == \E S : s \in Seq(S)

\* What Append and \o do to the places of a sequence.
LEMMA SeqAppend ==
    ASSUME NEW s, IsSeq(s), NEW e
    PROVE  /\ IsSeq(Append(s, e))
           /\ Len(s) \in Nat /\ Len(Append(s, e)) = Len(s) + 1
           /\ \A n \in 1..Len(s) : Append(s, e)[n] = s[n]
           /\ Append(s, e)[Len(s) + 1] = e
  <1>1. PICK S : s \in Seq(S)
    BY DEF IsSeq
  <1>2. s \in Seq(S \cup {e}) /\ e \in S \cup {e}
    BY <1>1, SeqMonotonic
  <1>3. Append(s, e) \in Seq(S \cup {e})
    BY <1>2
  <1>4. IsSeq(Append(s, e))
    BY <1>3 DEF IsSeq
  <1>5. QED
    BY <1>2, <1>4

LEMMA SeqConcat ==
    ASSUME NEW s, IsSeq(s), NEW t, IsSeq(t)
    PROVE  /\ IsSeq(s \o t)
           /\ Len(s) \in Nat /\ Len(t) \in Nat
           /\ Len(s \o t) = Len(s) + Len(t)
           /\ \A n \in 1..Len(s) : (s \o t)[n] = s[n]
           /\ \A n \in 1..Len(t) : (s \o t)[Len(s) + n] = t[n]
  <1>1. PICK S : s \in Seq(S)
    BY DEF IsSeq
  <1>2. PICK T : t \in Seq(T)
    BY DEF IsSeq
  <1>3. s \in Seq(S \cup T) /\ t \in Seq(S \cup T)
    BY <1>1, <1>2, SeqMonotonic
  <1> DEFINE U == S \cup T
  <1> HIDE DEF U
  <1>4. s \in Seq(U) /\ t \in Seq(U)
    BY <1>3 DEF U
  <1>5. s \o t \in Seq(U)
    BY <1>4
  <1>6. IsSeq(s \o t)
    BY <1>5 DEF IsSeq
  <1>7. QED
    BY <1>4, <1>6

\* A function on 1..n is a sequence.
LEMMA SeqFunction ==
    ASSUME NEW f, NEW n \in Nat, f = [k \in 1..n |-> f[k]]
    PROVE  IsSeq(f) /\ Len(f) = n
  <1> DEFINE S == {f[k] : k \in 1..n}
  <1>1. f \in [1..n -> S]
    OBVIOUS
  <1>2. f \in Seq(S)
    BY <1>1
  <1>3. f \in Seq(S) /\ DOMAIN f = 1..n
    BY <1>1, <1>2
  <1> HIDE DEF S
  <1>4. Len(f) \in Nat /\ DOMAIN f = 1..Len(f)
    BY <1>3, LenProperties
  <1>5. Len(f) = n
    BY <1>3, <1>4
  <1>6. QED
    BY <1>3, <1>5 DEF IsSeq

\* A set of numbers has a least one, because inclusion among the finite sets of
\* numbers is well founded.  Induction over numbers rests on this.
LEMMA Least ==
    ASSUME NEW T \in SUBSET Nat, T # {}
    PROVE  \E n \in T : \A m \in T : n <= m
  <1> DEFINE U == {0..n : n \in T}
  <1>1. U \subseteq FiniteSubsetsOf(Nat) /\ U # {}
    <2>1. ASSUME NEW n \in T
          PROVE  0..n \in FiniteSubsetsOf(Nat)
      <3>1. n \in Int /\ 0 \in Int /\ 0..n \subseteq Nat
        OBVIOUS
      <3>2. IsFiniteSet(0..n)
        BY <3>1, FS_Interval
      <3>3. QED
        BY <3>1, <3>2 DEF FiniteSubsetsOf
    <2>2. QED
      BY <2>1
  <1>2. PICK x \in U : \A y \in U : ~ (<<y, x>> \in StrictSubsetOrdering(Nat))
    <2> HIDE DEF U
    <2>1. QED
      BY <1>1, FS_StrictSubsetOrderingWellFounded, WFMin
  <1>3. PICK n \in T : x = 0..n
    OBVIOUS
  <1>4. ASSUME NEW m \in T, m < n
        PROVE  FALSE
    <2>1. 0..m \in U /\ 0..m \subseteq Nat /\ 0..n \subseteq Nat
      OBVIOUS
    <2>2. n \in 0..n /\ n \notin 0..m /\ 0..m \subseteq 0..n
      BY <1>4
    <2>3. <<0..m, x>> \in StrictSubsetOrdering(Nat)
      BY <1>3, <2>1, <2>2 DEF StrictSubsetOrdering
    <2>4. QED
      BY <1>2, <2>1, <2>3
  <1>5. QED
    BY <1>4

-----------------------------------------------------------------------------
\* A graph in which every step depends on older ones only.
IsGraph(g) ==
    /\ IsSeq(g)
    /\ \A s \in StepsOf(g) : DepsOf(g, s) \subseteq 1..(s - 1)

\* The recursive function Below exists: it can be continued from each step to the
\* next, so that no step is the least where it fails.
LEMMA BelowUnfolds ==
    ASSUME NEW g, IsGraph(g)
    PROVE  \A s \in StepsOf(g) :
            Below(g)[s] = DepsOf(g, s) \cup UNION {Below(g)[d] : d \in DepsOf(g, s)}
  <1>1. PICK D : D = [s \in StepsOf(g) |-> DepsOf(g, s)]
    OBVIOUS
  <1>2. Len(g) \in Nat /\ \A s \in 1..Len(g) : D[s] = DepsOf(g, s) /\ D[s] \subseteq 1..(s - 1)
    BY <1>1, SeqAppend DEF IsGraph, StepsOf
  <1> DEFINE Solves(f, n) == f = [s \in 1..n |-> D[s] \cup UNION {f[d] : d \in D[s]}]
             T == {n \in 0..Len(g) : ~ \E f : Solves(f, n)}
  <1>3. ASSUME NEW n \in 1..Len(g), NEW f, Solves(f, n - 1)
        PROVE  \E h : Solves(h, n)
    <2> DEFINE h == [s \in 1..n |-> IF s < n THEN f[s] ELSE D[s] \cup UNION {f[d] : d \in D[s]}]
    <2>1. \A s \in 1..(n - 1) : f[s] = D[s] \cup UNION {f[d] : d \in D[s]}
      BY <1>3
    <2>2. \A s \in 1..n : h[s] = D[s] \cup UNION {f[d] : d \in D[s]}
      <3> TAKE s \in 1..n
      <3>1. CASE s < n
        BY <2>1, <3>1
      <3>2. CASE ~ (s < n)
        BY <3>2
      <3>3. QED
        BY <3>1, <3>2
    <2>3. \A s \in 1..n : \A d \in D[s] : h[d] = f[d]
      <3> TAKE s \in 1..n
      <3> TAKE d \in D[s]
      <3>1. d \in 1..(s - 1) /\ s <= Len(g)
        BY <1>2
      <3>2. d \in 1..n /\ d < n
        BY <3>1
      <3>3. QED
        BY <3>2
    <2>4. h = [s \in 1..n |-> h[s]]
      OBVIOUS
    <2> HIDE DEF h
    <2>5. \A s \in 1..n : {h[d] : d \in D[s]} = {f[d] : d \in D[s]}
      BY <2>3
    <2>6. Solves(h, n)
      BY <2>2, <2>4, <2>5
    <2>7. QED
      BY <2>6
  <1>4. \E f : Solves(f, 0)
    <2>1. Solves([s \in 1..0 |-> {}], 0)
      OBVIOUS
    <2>2. QED
      BY <2>1
  <1>5. Len(g) \notin T
    <2> SUFFICES ASSUME Len(g) \in T
                 PROVE  FALSE
      OBVIOUS
    <2> HIDE DEF Solves
    <2>1. T \in SUBSET Nat /\ T # {}
      BY <1>2
    <2>2. PICK n \in T : \A m \in T : n <= m
      <3> HIDE DEF T
      <3>1. QED
        BY <2>1, Least
    <2>3. n \in 0..Len(g) /\ ~ \E f : Solves(f, n)
      OBVIOUS
    <2>a. n # 0
      BY <1>4, <2>3
    <2>4. n \in 1..Len(g) /\ n - 1 \in 0..Len(g)
      BY <1>2, <2>3, <2>a
    <2>5. n - 1 \notin T
      BY <2>2, <2>4
    <2>6. \E f : Solves(f, n - 1)
      BY <2>4, <2>5
    <2>7. QED
      BY <1>3, <2>3, <2>4, <2>6
  <1>6. PICK f : f = [s \in StepsOf(g) |-> D[s] \cup UNION {f[d] : d \in D[s]}]
    BY <1>2, <1>5 DEF StepsOf
  <1>7. f = [s \in StepsOf(g) |-> DepsOf(g, s) \cup UNION {f[d] : d \in DepsOf(g, s)}]
    BY <1>2, <1>6 DEF StepsOf
  <1>8. Below(g) = [s \in StepsOf(g) |->
            DepsOf(g, s) \cup UNION {Below(g)[d] : d \in DepsOf(g, s)}]
    BY <1>7 DEF Below
  <1>9. QED
    BY <1>8

\* Below a step lies nothing but what closes its dependencies.
LEMMA BelowLeast ==
    ASSUME NEW g, IsGraph(g), NEW S, NEW s \in StepsOf(g), DepsOf(g, s) \subseteq S,
           \A t \in S \cap StepsOf(g) : DepsOf(g, t) \subseteq S
    PROVE  Below(g)[s] \subseteq S
  <1> DEFINE T == {n \in StepsOf(g) : DepsOf(g, n) \subseteq S /\ ~ (Below(g)[n] \subseteq S)}
  <1>1. Len(g) \in Nat /\ \A n \in 1..Len(g) : DepsOf(g, n) \subseteq 1..(n - 1)
    BY SeqAppend DEF IsGraph, StepsOf
  <1>2. ASSUME NEW n \in T, \A m \in T : n <= m
        PROVE  FALSE
    <2>1. n \in 1..Len(g)
      BY DEF StepsOf
    <2>2. ASSUME NEW d \in DepsOf(g, n)
          PROVE  Below(g)[d] \subseteq S
      <3>1. d \in StepsOf(g) /\ d < n
        BY <1>1, <2>1 DEF StepsOf
      <3>2. DepsOf(g, d) \subseteq S
        BY <3>1
      <3>3. d \in Nat /\ n \in Nat /\ ~ (n <= d)
        BY <1>1, <2>1, <3>1 DEF StepsOf
      <3>4. d \notin T
        BY <1>2, <3>3
      <3>5. QED
        BY <3>1, <3>2, <3>4
    <2>3. Below(g)[n] = DepsOf(g, n) \cup UNION {Below(g)[d] : d \in DepsOf(g, n)}
      BY BelowUnfolds
    <2>4. QED
      BY <2>2, <2>3
  <1>3. T \in SUBSET Nat
    BY <1>1 DEF StepsOf
  <1>4. T = {}
    <2> HIDE DEF T
    <2>1. QED
      BY <1>2, <1>3, Least
  <1>5. QED
    BY <1>4

\* A step is below another only if it is older, and what is below it is too.
LEMMA BelowFacts ==
    ASSUME NEW g, IsGraph(g), NEW s \in StepsOf(g)
    PROVE  /\ Below(g)[s] \subseteq StepsOf(g)
           /\ Below(g)[s] \subseteq 1..(s - 1)
           /\ DepsOf(g, s) \subseteq Below(g)[s]
           /\ \A t \in Below(g)[s] : Below(g)[t] \subseteq Below(g)[s]
           /\ \A t \in Below(g)[s] : \E r \in Below(g)[s] \cup {s} : t \in DepsOf(g, r)
  <1>1. Len(g) \in Nat /\ \A n \in 1..Len(g) : DepsOf(g, n) \subseteq 1..(n - 1)
    BY SeqAppend DEF IsGraph, StepsOf
  <1>2. Below(g)[s] \subseteq 1..(s - 1)
    <2>1. ASSUME NEW t \in 1..(s - 1) \cap StepsOf(g)
          PROVE  DepsOf(g, t) \subseteq 1..(s - 1)
      <3>1. DepsOf(g, t) \subseteq 1..(t - 1) /\ s \in Nat /\ t \in 1..(s - 1)
        BY <1>1 DEF StepsOf
      <3>2. QED
        BY <3>1
    <2>2. DepsOf(g, s) \subseteq 1..(s - 1)
      BY <1>1 DEF StepsOf
    <2>3. QED
      BY <2>1, <2>2, BelowLeast
  <1>3. Below(g)[s] \subseteq StepsOf(g)
    BY <1>1, <1>2 DEF StepsOf
  <1>4. \A n \in StepsOf(g) : DepsOf(g, n) \subseteq StepsOf(g)
    BY <1>1 DEF StepsOf
  <1>5. \A n \in StepsOf(g) : /\ DepsOf(g, n) \subseteq Below(g)[n]
                              /\ \A d \in DepsOf(g, n) : Below(g)[d] \subseteq Below(g)[n]
    BY BelowUnfolds
  <1>6. \A t \in Below(g)[s] : Below(g)[t] \subseteq Below(g)[s]
    <2> DEFINE S == {t \in Below(g)[s] : Below(g)[t] \subseteq Below(g)[s]}
    <2>1. DepsOf(g, s) \subseteq S
      BY <1>5
    <2>2. \A t \in S \cap StepsOf(g) : DepsOf(g, t) \subseteq S
      BY <1>5
    <2>3. Below(g)[s] \subseteq S
      <3> HIDE DEF S
      <3>1. QED
        BY <2>1, <2>2, BelowLeast
    <2>4. QED
      BY <2>3
  <1>7. \A t \in Below(g)[s] : \E r \in Below(g)[s] \cup {s} : t \in DepsOf(g, r)
    <2> DEFINE S == UNION {DepsOf(g, r) : r \in Below(g)[s] \cup {s}}
    <2>1. DepsOf(g, s) \subseteq S
      OBVIOUS
    <2>2. S \subseteq Below(g)[s]
      BY <1>3, <1>5, <1>6
    <2>3. \A t \in S \cap StepsOf(g) : DepsOf(g, t) \subseteq S
      BY <2>2
    <2>4. Below(g)[s] \subseteq S
      <3> HIDE DEF S
      <3>1. QED
        BY <2>1, <2>3, BelowLeast
    <2>5. QED
      BY <2>4
  <1>8. QED
    BY <1>2, <1>3, <1>5, <1>6, <1>7

\* More dependencies put no less below a step.
LEMMA BelowMonotonic ==
    ASSUME NEW g, IsGraph(g), NEW h, IsGraph(h), NEW n \in Nat,
           n <= Len(g), n <= Len(h),
           \A t \in 1..n : DepsOf(g, t) \subseteq DepsOf(h, t),
           NEW s \in 1..n
    PROVE  Below(g)[s] \subseteq Below(h)[s]
  <1>1. /\ Len(g) \in Nat /\ Len(h) \in Nat
        /\ \A t \in 1..n : t \in StepsOf(g) /\ t \in StepsOf(h)
    BY SeqAppend DEF IsGraph, StepsOf
  <1>2. Below(h)[s] \subseteq 1..(s - 1)
    BY <1>1, BelowFacts
  <1>3. \A t \in Below(h)[s] : t \in 1..n
    BY <1>2
  <1>4. DepsOf(g, s) \subseteq Below(h)[s]
    BY <1>1, BelowFacts
  <1>5. \A t \in Below(h)[s] \cap StepsOf(g) : DepsOf(g, t) \subseteq Below(h)[s]
    BY <1>1, <1>3, BelowFacts
  <1>6. QED
    BY <1>1, <1>4, <1>5, BelowLeast
-----------------------------------------------------------------------------
(* The words of a command *)

\* The files that words of these kinds name.
Files(words, kinds) ==
    {words[k].path : k \in {n \in 1..Len(words) : words[n].kind \in kinds}}

\* These are n words, which name the files outs to be made and ins to be read.
Spells(words, n, outs, ins) ==
    /\ IsSeq(words) /\ Len(words) = n /\ n \in Nat
    /\ Files(words, {"out"}) = outs
    /\ Files(words, {"obj", "exe"}) = ins

\* The files that words name are those their parts name.
LEMMA FilesConcat ==
    ASSUME NEW v, IsSeq(v), NEW w, IsSeq(w), NEW K
    PROVE  Files(v \o w, K) = Files(v, K) \cup Files(w, K)
  <1>1. /\ Len(v) \in Nat /\ Len(w) \in Nat
        /\ Len(v \o w) = Len(v) + Len(w)
        /\ \A n \in 1..Len(v) : (v \o w)[n] = v[n]
        /\ \A n \in 1..Len(w) : (v \o w)[Len(v) + n] = w[n]
    BY SeqConcat
  <1>2. PICK x : x = v \o w
    OBVIOUS
  <1>3. /\ Len(x) = Len(v) + Len(w)
        /\ \A n \in 1..Len(v) : x[n] = v[n]
        /\ \A n \in 1..Len(w) : x[Len(v) + n] = w[n]
    BY <1>1, <1>2
  <1>4. Files(v, K) \subseteq Files(x, K)
    <2>1. \A n \in 1..Len(v) : n \in 1..Len(x)
      BY <1>1, <1>3
    <2>2. QED
      BY <1>3, <2>1 DEF Files
  <1>5. Files(w, K) \subseteq Files(x, K)
    <2>1. \A n \in 1..Len(w) : Len(v) + n \in 1..Len(x)
      BY <1>1, <1>3
    <2>2. QED
      BY <1>3, <2>1 DEF Files
  <1>6. Files(x, K) \subseteq Files(v, K) \cup Files(w, K)
    <2> SUFFICES ASSUME NEW n \in 1..Len(x), x[n].kind \in K
                 PROVE  x[n].path \in Files(v, K) \cup Files(w, K)
      BY DEF Files
    <2>1. CASE n \in 1..Len(v)
      BY <1>3, <2>1 DEF Files
    <2>2. CASE n \notin 1..Len(v)
      <3>1. PICK k \in 1..Len(w) : n = Len(v) + k
        <4>1. n - Len(v) \in 1..Len(w) /\ n = Len(v) + (n - Len(v))
          BY <1>1, <1>3, <2>2
        <4>2. QED
          BY <4>1
      <3>2. x[n] = w[k]
        BY <1>3, <3>1
      <3>3. QED
        BY <3>1, <3>2 DEF Files
    <2>3. QED
      BY <2>1, <2>2
  <1>7. QED
    BY <1>2, <1>4, <1>5, <1>6

\* What the words of a command spell is what their parts spell, and each of the
\* operators that make words spells what it is for.
LEMMA SpellsConcat ==
    ASSUME NEW v, NEW w, NEW n1, NEW o1, NEW i1, Spells(v, n1, o1, i1),
           NEW n2, NEW o2, NEW i2, Spells(w, n2, o2, i2)
    PROVE  Spells(v \o w, n1 + n2, o1 \cup o2, i1 \cup i2)
  <1>1. IsSeq(v) /\ IsSeq(w) /\ n1 \in Nat /\ n2 \in Nat /\ n1 + n2 \in Nat
    BY DEF Spells
  <1>2. IsSeq(v \o w) /\ Len(v \o w) = n1 + n2
    BY <1>1, SeqConcat DEF Spells
  <1>3. QED
    BY <1>1, <1>2, FilesConcat DEF Spells

LEMMA SpellsPlain ==
    ASSUME NEW n \in Nat
    PROVE  Spells(Plain(n), n, {}, {})
  <1>1. PICK w : w = Plain(n)
    OBVIOUS
  <1>2. w = [k \in 1..n |-> Word("word", NoPath)]
    BY <1>1 DEF Plain
  <1>3. w = [k \in 1..n |-> w[k]] /\ \A k \in 1..n : w[k].kind = "word"
    BY <1>2 DEF Word
  <1>4. IsSeq(w) /\ Len(w) = n
    BY <1>3, SeqFunction
  <1>5. QED
    BY <1>1, <1>3, <1>4 DEF Spells, Files

LEMMA SpellsOne ==
    ASSUME NEW p
    PROVE  /\ Spells(<<Word("out", p)>>, 1, {p}, {})
           /\ Spells(<<Word("src", p)>>, 1, {}, {})
           /\ Spells(<<Word("exe", p)>>, 1, {}, {p})
  <1>1. ASSUME NEW kind
        PROVE  LET w == <<Word(kind, p)>>
               IN  /\ IsSeq(w) /\ Len(w) = 1
                   /\ \A K : Files(w, K) = IF kind \in K THEN {p} ELSE {}
    <2>1. PICK w : w = <<Word(kind, p)>>
      OBVIOUS
    <2>2. w \in Seq({w[1]}) /\ Len(w) = 1 /\ w[1].kind = kind /\ w[1].path = p
      BY <2>1 DEF Word
    <2>3. \A K : Files(w, K) = IF kind \in K THEN {p} ELSE {}
      BY <2>2 DEF Files
    <2>4. QED
      BY <2>1, <2>2, <2>3 DEF IsSeq
  <1>2. QED
    BY <1>1 DEF Spells

LEMMA SpellsFlagged ==
    ASSUME NEW n \in Nat, NEW sep
    PROVE  Spells(Flagged(n, sep), IF sep > 0 THEN 2 * n ELSE n, {}, {})
  <1>1. CASE sep > 0
    BY <1>1, SpellsPlain, 2 * n \in Nat DEF Flagged
  <1>2. CASE ~ (sep > 0)
    BY <1>2, SpellsPlain DEF Flagged
  <1>3. QED
    BY <1>1, <1>2

LEMMA SpellsOutWords ==
    ASSUME NEW target, NEW sep
    PROVE  Spells(OutWords(target, sep), IF sep > 0 THEN 2 ELSE 1, {target}, {})
  <1>1. CASE sep > 0
    <2>1. Spells(Plain(1) \o <<Word("out", target)>>, 1 + 1, {} \cup {target}, {} \cup {})
      BY SpellsPlain, SpellsOne, SpellsConcat
    <2>2. QED
      BY <1>1, <2>1 DEF OutWords
  <1>2. CASE ~ (sep > 0)
    <2>1. Spells(Plain(0) \o <<Word("out", target)>>, 0 + 1, {} \cup {target}, {} \cup {})
      BY SpellsPlain, SpellsOne, SpellsConcat
    <2>2. QED
      BY <1>2, <2>1 DEF OutWords
  <1>3. QED
    BY <1>1, <1>2

LEMMA SpellsObjWords ==
    ASSUME NEW g, NEW objs, IsSeq(objs)
    PROVE  Spells(ObjWords(g, objs), Len(objs), {}, {g[objs[k]].out : k \in 1..Len(objs)})
  <1>1. PICK w : w = ObjWords(g, objs)
    OBVIOUS
  <1>2. w = [k \in 1..Len(objs) |-> Word("obj", g[objs[k]].out)] /\ Len(objs) \in Nat
    BY <1>1, SeqAppend DEF ObjWords
  <1>3. /\ w = [k \in 1..Len(objs) |-> w[k]]
        /\ \A k \in 1..Len(objs) : w[k].kind = "obj" /\ w[k].path = g[objs[k]].out
    BY <1>2 DEF Word
  <1>4. IsSeq(w) /\ Len(w) = Len(objs)
    BY <1>2, <1>3, SeqFunction
  <1>5. Files(w, {"out"}) = {}
    BY <1>3, <1>4 DEF Files
  <1>6. Files(w, {"obj", "exe"}) = {g[objs[k]].out : k \in 1..Len(objs)}
    <2>1. {n \in 1..Len(w) : w[n].kind \in {"obj", "exe"}} = 1..Len(objs)
      BY <1>3, <1>4
    <2>2. QED
      BY <1>3, <2>1 DEF Files
  <1>7. QED
    BY <1>1, <1>2, <1>4, <1>5, <1>6 DEF Spells
-----------------------------------------------------------------------------
(* Graphs that grow *)

\* A path that is valid, the kinds of steps that make their output themselves,
\* and all that clients make.
IsFile(p) == p = File(p.in, p.base, p.ext)
Makes == {"MKDIR", "TRUNC", "COPY"}
Kinds == {"ROOT", "PATH", "CMD", "RM"} \cup Makes

LEMMA FileIs ==
    ASSUME NEW dir, NEW base, NEW ext
    PROVE  /\ IsFile(File(dir, base, ext))
           /\ File(dir, base, ext).in = dir /\ File(dir, base, ext).ext = ext
  BY DEF IsFile, File

\* A step whose lists are sequences and whose words fill their slots.
IsStep(r) ==
    /\ r.type \in Kinds
    /\ r = [type |-> r.type, dep |-> r.dep, out |-> r.out, arg |-> r.arg,
            words |-> r.words, slots |-> r.slots]
    /\ IsSeq(r.dep)
    /\ IsSeq(r.words) /\ Len(r.words) = r.slots

\* The step t is the command that makes the file p.
Builds(g, t, p) == g[t].type = "CMD" /\ p \in Outputs(g, t)

\* A side file is in a directory that a step below makes.
Placed(g, s) ==
    /\ \A p \in Outputs(g, s) : IsFile(p)
    /\ g[s].type = "PATH" =>
        /\ IsFile(g[s].out)
        /\ \E t \in Below(g)[s] : g[t].type = "MKDIR" /\ g[t].out = g[s].out.in

\* What a step needs of the steps below it.
Sound(g, s) ==
    /\ IsStep(g[s]) /\ Placed(g, s)
    /\ \A p \in Inputs(g, s) : \E t \in Below(g)[s] : Builds(g, t, p)
    /\ \A p \in Products(g, s) :
        p.in = NoPath \/ \E t \in Below(g)[s] : g[t].type = "MKDIR" /\ g[t].out = p.in
    /\ g[s].type # "PATH" /\ g[s].out # NoPath =>
        \E t \in Below(g)[s] \cup {s} :
            /\ g[s].out \in Outputs(g, t)
            /\ g[s].type \notin Makes => g[t].type = "CMD"

\* What a step makes is its output or that of a step below it, or else, if the
\* client does not hold the step, of every step that depends on it.
Recorded(g, m, s) == \A p \in Products(g, s) :
    \/ \E t \in Below(g)[s] \cup {s} : g[t].out = p
    \/ s \notin m /\ \A r \in StepsOf(g) : s \in DepsOf(g, r) => g[r].out = p

\* A graph and the steps of it that the client holds.
Made(g, m) ==
    /\ IsGraph(g)
    /\ m \subseteq StepsOf(g)
    /\ \A s \in StepsOf(g) : Sound(g, s) /\ Recorded(g, m, s)

\* The graph h is made from g by more steps, more dependencies of a root, and
\* commands that give up their outputs.
Grows(g, h) ==
    /\ IsGraph(g) /\ IsGraph(h)
    /\ Len(g) <= Len(h)
    /\ \A s \in StepsOf(g) :
        /\ h[s].type = g[s].type /\ h[s].words = g[s].words /\ h[s].arg = g[s].arg
        /\ h[s].out = g[s].out \/ (g[s].type = "CMD" /\ h[s].out = NoPath)
        /\ DepsOf(g, s) \subseteq DepsOf(h, s)
        /\ g[s].type # "ROOT" => DepsOf(h, s) = DepsOf(g, s)

\* What is known of a step is not changed by steps appended after it.
LEMMA GrowsKeeps ==
    ASSUME NEW g, NEW h, Grows(g, h), NEW s \in StepsOf(g)
    PROVE  /\ s \in StepsOf(h)
           /\ Inputs(h, s) = Inputs(g, s)
           /\ Outputs(h, s) = Outputs(g, s)
           /\ Products(h, s) = Products(g, s)
           /\ Below(g)[s] \subseteq Below(h)[s]
  <1>1. Len(g) \in Nat /\ Len(h) \in Nat /\ Len(g) <= Len(h) /\ IsGraph(g) /\ IsGraph(h)
    BY SeqAppend DEF Grows, IsGraph
  <1>2. s \in StepsOf(h) /\ s \in 1..Len(g) /\ StepsOf(g) = 1..Len(g)
    BY <1>1 DEF StepsOf
  <1>3. \A K : Named(h, s, K) = Named(g, s, K)
    BY DEF Grows, Named
  <1>4. Inputs(h, s) = Inputs(g, s)
    BY <1>3 DEF Grows, Inputs
  <1>5. Outputs(h, s) = Outputs(g, s)
    <2>1. CASE g[s].type = "CMD"
      BY <1>3, <2>1 DEF Grows, Outputs
    <2>2. CASE g[s].type # "CMD"
      <3>1. h[s].type = g[s].type /\ h[s].out = g[s].out
        BY <2>2 DEF Grows
      <3>2. QED
        BY <2>2, <3>1 DEF Outputs
    <2>3. QED
      BY <2>1, <2>2
  <1>6. Products(h, s) = Products(g, s)
    <2>1. CASE g[s].type = "CMD"
      <3>1. DepsOf(h, s) = DepsOf(g, s) /\ DepsOf(g, s) \subseteq StepsOf(g)
        BY <1>1, <1>2, <2>1 DEF Grows, IsGraph
      <3>2. {d \in DepsOf(h, s) : h[d].type = "PATH"} = {d \in DepsOf(g, s) : g[d].type = "PATH"}
        BY <3>1 DEF Grows
      <3>3. \A d \in {e \in DepsOf(g, s) : g[e].type = "PATH"} : h[d].out = g[d].out
        BY <3>1 DEF Grows
      <3>4. h[s].type = "CMD"
        BY <2>1 DEF Grows
      <3>5. {h[d].out : d \in {e \in DepsOf(h, s) : h[e].type = "PATH"}}
                = {g[d].out : d \in {e \in DepsOf(g, s) : g[e].type = "PATH"}}
        BY <3>2, <3>3
      <3>6. QED
        BY <1>5, <2>1, <3>4, <3>5 DEF Products
    <2>2. CASE g[s].type # "CMD"
      BY <1>5, <2>2 DEF Products, Grows
    <2>3. QED
      BY <2>1, <2>2
  <1>7. Below(g)[s] \subseteq Below(h)[s]
    BY <1>1, <1>2, BelowMonotonic DEF Grows
  <1>8. QED
    BY <1>2, <1>4, <1>5, <1>6, <1>7

LEMMA GrowsSound ==
    ASSUME NEW g, NEW h, Grows(g, h), NEW s \in StepsOf(g), Sound(g, s), IsStep(h[s])
    PROVE  Sound(h, s)
  <1>1. Below(g)[s] \subseteq StepsOf(g)
    BY BelowFacts DEF Grows
  <1>2. /\ Inputs(h, s) = Inputs(g, s) /\ Products(h, s) = Products(g, s)
        /\ Below(g)[s] \subseteq Below(h)[s]
        /\ \A t \in StepsOf(g) : Outputs(h, t) = Outputs(g, t) /\ Products(h, t) = Products(g, t)
    BY GrowsKeeps
  <1>b. \A t \in StepsOf(g) : \A p : Builds(g, t, p) => Builds(h, t, p)
    BY <1>2 DEF Builds, Grows
  <1>3. \A p \in Inputs(h, s) : \E t \in Below(h)[s] : Builds(h, t, p)
    BY <1>1, <1>2, <1>b DEF Sound
  <1>4. ASSUME NEW p \in Products(h, s), p.in # NoPath
        PROVE  \E t \in Below(h)[s] : h[t].type = "MKDIR" /\ h[t].out = p.in
    <2>1. PICK t \in Below(g)[s] : g[t].type = "MKDIR" /\ g[t].out = p.in
      BY <1>2, <1>4 DEF Sound
    <2>2. h[t].type = "MKDIR" /\ h[t].out = p.in
      BY <1>1, <2>1 DEF Grows
    <2>3. QED
      BY <1>2, <2>2
  <1>5. ASSUME h[s].type # "PATH", h[s].out # NoPath
        PROVE  \E t \in Below(h)[s] \cup {s} :
                    /\ h[s].out \in Outputs(h, t)
                    /\ h[s].type \notin Makes => h[t].type = "CMD"
    <2>1. /\ g[s].type # "PATH" /\ g[s].out # NoPath
          /\ h[s].out = g[s].out /\ h[s].type = g[s].type
      BY <1>5 DEF Grows
    <2>2. PICK t \in Below(g)[s] \cup {s} :
            /\ g[s].out \in Outputs(g, t)
            /\ g[s].type \notin Makes => g[t].type = "CMD"
      BY <2>1 DEF Sound
    <2>3. t \in StepsOf(g)
      BY <1>1
    <2>4. h[t].type = g[t].type
      BY <2>3 DEF Grows
    <2>5. QED
      BY <1>2, <2>1, <2>2, <2>3, <2>4
  <1>7. Placed(h, s)
    <2>1. \A p \in Outputs(h, s) : IsFile(p)
      BY <1>2 DEF Sound, Placed
    <2>2. ASSUME h[s].type = "PATH"
          PROVE  /\ IsFile(h[s].out)
                 /\ \E t \in Below(h)[s] : h[t].type = "MKDIR" /\ h[t].out = h[s].out.in
      <3>1. g[s].type = "PATH" /\ h[s].out = g[s].out
        BY <2>2 DEF Grows
      <3>2. IsFile(g[s].out)
        BY <3>1 DEF Sound, Placed
      <3>3. PICK t \in Below(g)[s] : g[t].type = "MKDIR" /\ g[t].out = g[s].out.in
        BY <3>1 DEF Sound, Placed
      <3>4. h[t].type = "MKDIR" /\ h[t].out = g[t].out
        BY <1>1, <3>3 DEF Grows
      <3>5. QED
        BY <1>2, <3>1, <3>2, <3>3, <3>4
    <2>3. QED
      BY <2>1, <2>2 DEF Placed
  <1>6. QED
    BY <1>3, <1>4, <1>5, <1>7 DEF Sound

\* A step that is not in the graph yet.
Elements(ds) == {ds[k] : k \in 1..Len(ds)}
DepSet(r) == Elements(r.dep)
InputsOf(r) == Files(r.words, {"obj", "exe"}) \cup IF r.type = "COPY" THEN {r.arg} ELSE {}
OutputsOf(r) ==
    CASE r.type = "CMD" -> Files(r.words, {"out"})
      [] r.type \in {"TRUNC", "COPY", "MKDIR"} -> {r.out}
      [] OTHER -> {}
ProductsOf(g, r) == OutputsOf(r) \cup
    IF r.type = "CMD" THEN {g[d].out : d \in {e \in DepSet(r) : g[e].type = "PATH"}} ELSE {}
BelowNew(g, r) == DepSet(r) \cup UNION {Below(g)[d] : d \in DepSet(r)}

\* What Made asks of it.
PlacedNew(g, r) ==
    /\ \A p \in OutputsOf(r) : IsFile(p)
    /\ r.type = "PATH" =>
        /\ IsFile(r.out)
        /\ \E t \in BelowNew(g, r) : g[t].type = "MKDIR" /\ g[t].out = r.out.in
Fits(g, m, r) ==
    /\ IsStep(r) /\ PlacedNew(g, r)
    /\ DepSet(r) \subseteq StepsOf(g)
    /\ \A d \in DepSet(r) \ m : \A p \in Products(g, d) :
        r.out = p \/ \E t \in Below(g)[d] \cup {d} : g[t].out = p
    /\ \A p \in InputsOf(r) : \E t \in BelowNew(g, r) : Builds(g, t, p)
    /\ \A p \in ProductsOf(g, r) :
        /\ p.in = NoPath \/ \E t \in BelowNew(g, r) : g[t].type = "MKDIR" /\ g[t].out = p.in
        /\ r.out = p \/ \E t \in BelowNew(g, r) : g[t].out = p
    /\ r.type # "PATH" /\ r.out # NoPath =>
        \/ r.out \in OutputsOf(r) /\ r.type # "RM"
        \/ \E t \in BelowNew(g, r) : Builds(g, t, r.out)

\* The graph h is g with one step more.
OneMore(g, h, r) ==
    /\ Grows(g, h)
    /\ Len(h) = Len(g) + 1 /\ Len(h) \in Nat /\ StepsOf(h) = StepsOf(g) \cup {Len(h)}
    /\ h[Len(h)] = r
    /\ \A s \in StepsOf(g) : h[s] = g[s]
    /\ Below(h)[Len(h)] = BelowNew(g, r)
    /\ Inputs(h, Len(h)) = InputsOf(r) /\ Outputs(h, Len(h)) = OutputsOf(r)
    /\ Products(h, Len(h)) = ProductsOf(g, r)

\* A step that depends on steps of the graph can be appended.
LEMMA AppendGrows ==
    ASSUME NEW g, IsGraph(g), NEW r, DepSet(r) \subseteq StepsOf(g), NEW h, h = Append(g, r)
    PROVE  OneMore(g, h, r)
  <1>1. /\ IsSeq(h) /\ Len(g) \in Nat /\ Len(h) = Len(g) + 1
        /\ h[Len(h)] = r /\ \A s \in 1..Len(g) : h[s] = g[s]
    BY SeqAppend DEF IsGraph
  <1>2. /\ StepsOf(g) = 1..Len(g) /\ StepsOf(h) = 1..Len(h) /\ Len(h) \in StepsOf(h)
        /\ StepsOf(h) = StepsOf(g) \cup {Len(h)}
    BY <1>1 DEF StepsOf
  <1>3. /\ \A s \in StepsOf(g) : DepsOf(h, s) = DepsOf(g, s)
        /\ DepsOf(h, Len(h)) = DepSet(r)
    BY <1>1, <1>2 DEF DepsOf, DepSet, Elements
  <1>4. IsGraph(h)
    <2>1. ASSUME NEW s \in StepsOf(h)
          PROVE  DepsOf(h, s) \subseteq 1..(s - 1)
      <3>1. CASE s \in StepsOf(g)
        BY <1>3, <3>1 DEF IsGraph
      <3>2. CASE s = Len(h)
        BY <1>1, <1>2, <1>3, <3>2
      <3>3. QED
        BY <1>2, <3>1, <3>2
    <2>2. QED
      BY <1>1, <2>1 DEF IsGraph
  <1>5. Grows(g, h)
    BY <1>1, <1>2, <1>3, <1>4 DEF Grows
  <1>6. \A s \in StepsOf(g) : Below(h)[s] = Below(g)[s]
    <2> TAKE s \in StepsOf(g)
    <2>1. Below(g)[s] \subseteq Below(h)[s]
      BY <1>5, GrowsKeeps
    <2>2. \A t \in 1..Len(g) : DepsOf(h, t) \subseteq DepsOf(g, t)
      BY <1>2, <1>3
    <2>3. Len(g) <= Len(h) /\ Len(g) <= Len(g) /\ s \in 1..Len(g)
      BY <1>1, <1>2
    <2>4. Below(h)[s] \subseteq Below(g)[s]
      BY <1>1, <1>4, <2>2, <2>3, BelowMonotonic
    <2>5. QED
      BY <2>1, <2>4
  <1>7. Below(h)[Len(h)] = BelowNew(g, r)
    <2>1. Below(h)[Len(h)] = DepSet(r) \cup UNION {Below(h)[d] : d \in DepSet(r)}
      BY <1>2, <1>3, <1>4, BelowUnfolds
    <2>2. \A d \in DepSet(r) : Below(h)[d] = Below(g)[d]
      BY <1>6
    <2>3. {Below(h)[d] : d \in DepSet(r)} = {Below(g)[d] : d \in DepSet(r)}
      BY <2>2
    <2>4. QED
      BY <2>1, <2>3 DEF BelowNew
  <1>8. \A K : Named(h, Len(h), K) = Files(r.words, K)
    BY <1>1 DEF Named, Files
  <1>9. Inputs(h, Len(h)) = InputsOf(r) /\ Outputs(h, Len(h)) = OutputsOf(r)
    BY <1>1, <1>8 DEF Inputs, InputsOf, Outputs, OutputsOf
  <1>10. Products(h, Len(h)) = ProductsOf(g, r)
    <2>1. {d \in DepSet(r) : h[d].type = "PATH"} = {d \in DepSet(r) : g[d].type = "PATH"}
      BY <1>1, <1>2
    <2>2. {h[d].out : d \in {e \in DepSet(r) : h[e].type = "PATH"}}
            = {g[d].out : d \in {e \in DepSet(r) : g[e].type = "PATH"}}
      BY <1>1, <1>2, <2>1
    <2>3. QED
      BY <1>1, <1>3, <1>9, <2>2 DEF Products, ProductsOf
  <1>11. QED
    BY <1>1, <1>2, <1>5, <1>7, <1>9, <1>10 DEF OneMore

\* A step that fits can be appended and held.
LEMMA AppendMade ==
    ASSUME NEW g, NEW m, Made(g, m), NEW r, Fits(g, m, r), NEW h, h = Append(g, r)
    PROVE  Made(h, m \cup {Len(h)})
  <1>1. IsGraph(g) /\ DepSet(r) \subseteq StepsOf(g) /\ m \subseteq StepsOf(g)
    BY DEF Made, Fits
  <1>a. OneMore(g, h, r)
    BY <1>1, AppendGrows
  <1>2. /\ Grows(g, h)
        /\ Len(h) = Len(g) + 1 /\ Len(h) \in Nat /\ StepsOf(h) = StepsOf(g) \cup {Len(h)}
        /\ h[Len(h)] = r
        /\ \A s \in StepsOf(g) : h[s] = g[s]
        /\ Below(h)[Len(h)] = BelowNew(g, r)
        /\ Inputs(h, Len(h)) = InputsOf(r) /\ Outputs(h, Len(h)) = OutputsOf(r)
        /\ Products(h, Len(h)) = ProductsOf(g, r)
    BY <1>a DEF OneMore
  <1> DEFINE n == Len(h)
  <1>3. BelowNew(g, r) \subseteq StepsOf(g)
    <2>1. \A d \in DepSet(r) : Below(g)[d] \subseteq StepsOf(g)
      BY <1>1, BelowFacts
    <2>2. QED
      BY <1>1, <2>1 DEF BelowNew
  <1>4. \A t \in StepsOf(g) : /\ Products(h, t) = Products(g, t) /\ Outputs(h, t) = Outputs(g, t)
                              /\ Below(g)[t] \subseteq Below(h)[t]
    BY <1>2, GrowsKeeps
  <1>5. \A s \in StepsOf(g) : Sound(h, s)
    <2> TAKE s \in StepsOf(g)
    <2>1. Sound(g, s) /\ h[s] = g[s]
      BY <1>2 DEF Made
    <2>2. IsStep(h[s])
      BY <2>1 DEF Sound
    <2>3. QED
      BY <1>2, <2>1, <2>2, GrowsSound
  <1> HIDE DEF n
  <1>6. Sound(h, n)
    <2>1. IsStep(h[n])
      BY <1>2 DEF Fits, n
    <2>b. \A t \in StepsOf(g) : \A p : Builds(g, t, p) => Builds(h, t, p)
      BY <1>2, <1>4 DEF Builds
    <2>2. \A p \in Inputs(h, n) : \E t \in Below(h)[n] : Builds(h, t, p)
      BY <1>2, <1>3, <2>b DEF Fits, n
    <2>3. \A p \in Products(h, n) :
            p.in = NoPath \/ \E t \in Below(h)[n] : h[t].type = "MKDIR" /\ h[t].out = p.in
      <3>1. \A t \in BelowNew(g, r) : h[t] = g[t]
        BY <1>2, <1>3
      <3>2. \A p \in ProductsOf(g, r) :
                p.in = NoPath \/ \E t \in BelowNew(g, r) : g[t].type = "MKDIR" /\ g[t].out = p.in
        BY DEF Fits
      <3>3. QED
        BY <1>2, <3>1, <3>2 DEF n
    <2>4. h[n].type # "PATH" /\ h[n].out # NoPath =>
            \E t \in Below(h)[n] \cup {n} :
                /\ h[n].out \in Outputs(h, t)
                /\ h[n].type \notin Makes => h[t].type = "CMD"
      <3> SUFFICES ASSUME r.type # "PATH", r.out # NoPath
                   PROVE  \E t \in BelowNew(g, r) \cup {n} :
                            /\ r.out \in Outputs(h, t)
                            /\ r.type \notin Makes => h[t].type = "CMD"
        BY <1>2 DEF n
      <3>1. CASE r.out \in OutputsOf(r) /\ r.type # "RM"
        BY <1>2, <3>1 DEF n, OutputsOf, Makes
      <3>2. CASE \E t \in BelowNew(g, r) : Builds(g, t, r.out)
        BY <1>3, <2>b, <3>2 DEF Builds
      <3>3. QED
        BY <3>1, <3>2 DEF Fits
    <2>6. Placed(h, n)
      <3>1. \A t \in BelowNew(g, r) : h[t] = g[t]
        BY <1>2, <1>3
      <3>2. PlacedNew(g, r)
        BY DEF Fits
      <3>3. \A p \in Outputs(h, n) : IsFile(p)
        BY <1>2, <3>2 DEF PlacedNew, n
      <3>4. r.type = "PATH" => /\ IsFile(r.out)
                               /\ \E t \in Below(h)[n] : h[t].type = "MKDIR" /\ h[t].out = r.out.in
        BY <1>2, <3>1, <3>2 DEF PlacedNew, n
      <3>5. QED
        BY <1>2, <3>3, <3>4 DEF Placed, n
    <2>5. QED
      BY <2>1, <2>2, <2>3, <2>4, <2>6 DEF Sound
  <1>7. Recorded(h, m \cup {n}, n)
    <2>1. \A t \in BelowNew(g, r) : h[t] = g[t]
      BY <1>2, <1>3
    <2>2. \A p \in ProductsOf(g, r) : r.out = p \/ \E t \in BelowNew(g, r) : g[t].out = p
      BY DEF Fits
    <2>3. \A p \in Products(h, n) : \E t \in Below(h)[n] \cup {n} : h[t].out = p
      <3> SUFFICES ASSUME NEW p \in ProductsOf(g, r)
                   PROVE  \E t \in BelowNew(g, r) \cup {n} : h[t].out = p
        BY <1>2 DEF n
      <3>1. CASE r.out = p
        BY <1>2, <3>1 DEF n
      <3>2. CASE \E t \in BelowNew(g, r) : g[t].out = p
        BY <2>1, <3>2
      <3>3. QED
        BY <2>2, <3>1, <3>2
    <2>4. QED
      BY <2>3 DEF Recorded
  <1>8. ASSUME NEW s \in StepsOf(g)
        PROVE  Recorded(h, m \cup {n}, s)
    <2> SUFFICES ASSUME NEW p \in Products(h, s), ~ \E t \in Below(h)[s] \cup {s} : h[t].out = p
                 PROVE  s \notin m \cup {n} /\ \A q \in StepsOf(h) : s \in DepsOf(h, q) => h[q].out = p
      BY DEF Recorded
    <2>1. p \in Products(g, s) /\ Below(g)[s] \subseteq StepsOf(g)
      BY <1>1, <1>4, BelowFacts
    <2>2. ~ \E t \in Below(g)[s] \cup {s} : g[t].out = p
      BY <1>2, <1>4, <2>1
    <2>3. s \notin m /\ \A q \in StepsOf(g) : s \in DepsOf(g, q) => g[q].out = p
      BY <2>1, <2>2 DEF Made, Recorded
    <2>4. s \in DepSet(r) => r.out = p
      BY <2>1, <2>2, <2>3 DEF Fits
    <2>5. \A q \in StepsOf(g) : DepsOf(h, q) = DepsOf(g, q)
      BY ZenonT(30), <1>2 DEF DepsOf
    <2>6. DepsOf(h, n) = DepSet(r)
      BY <1>2 DEF DepsOf, DepSet, Elements, n
    <2>7. s # n
      BY <1>2, SeqAppend DEF n, StepsOf, IsGraph
    <2>8. QED
      BY <1>2, <2>3, <2>4, <2>5, <2>6, <2>7 DEF n
  <1>9. IsGraph(h) /\ m \cup {n} \subseteq StepsOf(h)
    BY <1>1, <1>2 DEF Grows, n
  <1>10. \A s \in StepsOf(h) : Sound(h, s) /\ Recorded(h, m \cup {n}, s)
    BY <1>2, <1>5, <1>6, <1>7, <1>8 DEF n
  <1>11. QED
    BY <1>9, <1>10 DEF Made, n
-----------------------------------------------------------------------------
(* What is removed *)

\* The files that are removed, and the steps whose output can be linked or run.
Removed(g) == {g[r].arg : r \in {q \in StepsOf(g) : g[q].type = "RM"}}
Linkable(g, s) == g[s].type \in {"CMD", "RM"} /\ g[s].out # NoPath

\* Files with the extension e are removed, once what reads them has ended, and
\* are no side files and no outputs of what the client holds.
Lasts(g, m, e) ==
    /\ Distinct(g)
    /\ \A s \in StepsOf(g) : g[s].type = "PATH" => g[s].out.ext # e
    /\ \A p \in Removed(g) : p.ext = e /\ \E o \in StepsOf(g) : Builds(g, o, p)
    /\ \A q, r \in StepsOf(g) :
        g[q].type = "RM" /\ g[r].type = "RM" /\ g[q].arg = g[r].arg => q = r
    /\ \A s \in m : Linkable(g, s) => g[s].out \notin Removed(g)
    /\ \A r, s \in StepsOf(g) :
        g[r].type = "RM" /\ g[r].arg \in Products(g, s) \cup Inputs(g, s) => s \in Below(g)[r]

\* The outputs of a part of a graph are apart if those of the graph are.
LEMMA GrowsDistinct ==
    ASSUME NEW g, NEW h, Grows(g, h), Distinct(h)
    PROVE  Distinct(g)
  BY GrowsKeeps DEF Distinct

\* A step that reads nothing removed so far, or is the removal of a file after
\* all that read it, keeps removals last.
LEMMA AppendLasts ==
    ASSUME NEW g, NEW m, Made(g, m), NEW e, Lasts(g, m, e),
           NEW r, Fits(g, m, r), NEW h, h = Append(g, r), Distinct(h),
           r.type # "RM", r.type = "PATH" => r.out.ext # e,
           r.type = "CMD" => r.out \in OutputsOf(r) \cup {NoPath},
           InputsOf(r) \cap Removed(g) = {}
    PROVE  Lasts(h, m \cup {Len(h)}, e)
  <1>1. IsGraph(g) /\ DepSet(r) \subseteq StepsOf(g) /\ m \subseteq StepsOf(g)
    BY DEF Made, Fits
  <1>2. OneMore(g, h, r)
    BY <1>1, AppendGrows
  <1>3. PICK n : n = Len(h)
    OBVIOUS
  <1>4. /\ Grows(g, h)
        /\ StepsOf(h) = StepsOf(g) \cup {n}
        /\ h[n] = r
        /\ \A s \in StepsOf(g) : h[s] = g[s]
        /\ Inputs(h, n) = InputsOf(r) /\ Outputs(h, n) = OutputsOf(r)
        /\ Products(h, n) = ProductsOf(g, r)
    BY <1>2, <1>3 DEF OneMore
  <1>5. \A t \in StepsOf(g) :
            /\ Products(h, t) = Products(g, t) /\ Outputs(h, t) = Outputs(g, t)
            /\ Inputs(h, t) = Inputs(g, t) /\ Below(g)[t] \subseteq Below(h)[t]
    BY <1>4, GrowsKeeps
  <1>6. n \notin StepsOf(g)
    BY <1>1, <1>2, <1>3, SeqAppend DEF OneMore, StepsOf, IsGraph
  <1>7. Removed(h) = Removed(g)
    <2>1. {q \in StepsOf(h) : h[q].type = "RM"} = {q \in StepsOf(g) : g[q].type = "RM"}
      BY <1>4
    <2>2. QED
      BY ZenonT(30), <1>4, <2>1 DEF Removed
  <1>8. \A p \in Removed(g) : p.ext = e /\ p \notin OutputsOf(r)
    <2> TAKE p \in Removed(g)
    <2>1. PICK o \in StepsOf(g) : p \in Outputs(g, o)
      BY DEF Lasts, Builds
    <2>2. Outputs(h, o) \cap Outputs(h, n) = {}
      BY <1>4, <1>6 DEF Distinct
    <2>3. QED
      BY <1>4, <1>5, <2>1, <2>2 DEF Lasts
  <1>9. \A p \in Removed(g) : p \notin ProductsOf(g, r) \cup InputsOf(r)
    <2> TAKE p \in Removed(g)
    <2>1. \A d \in DepSet(r) : g[d].type = "PATH" => g[d].out # p
      BY <1>1, <1>8 DEF Lasts
    <2>2. p \notin ProductsOf(g, r)
      BY <1>8, <2>1 DEF ProductsOf
    <2>3. QED
      BY <2>2
  <1>10. \A s \in StepsOf(h) : h[s].type = "PATH" => h[s].out.ext # e
    BY <1>4 DEF Lasts
  <1>11. \A p \in Removed(h) : p.ext = e /\ \E o \in StepsOf(h) : Builds(h, o, p)
    BY <1>4, <1>5, <1>7 DEF Lasts, Builds
  <1>15. \A q, s \in StepsOf(h) :
            h[q].type = "RM" /\ h[s].type = "RM" /\ h[q].arg = h[s].arg => q = s
    <2> TAKE q, s \in StepsOf(h)
    <2>1. h[n].type # "RM"
      BY <1>4 DEF Lasts
    <2>2. CASE q \in StepsOf(g) /\ s \in StepsOf(g)
      BY <1>4, <2>2 DEF Lasts
    <2>3. QED
      BY <1>4, <2>1, <2>2
  <1>12. ASSUME NEW s \in m \cup {n}, Linkable(h, s)
         PROVE  h[s].out \notin Removed(h)
    <2>1. CASE s \in m
      BY <1>1, <1>4, <1>7, <1>12, <2>1 DEF Lasts, Linkable
    <2>2. CASE s = n
      <3>1. r.type = "CMD" /\ r.out # NoPath
        BY <1>4, <1>12, <2>2 DEF Linkable
      <3>2. QED
        BY <1>4, <1>7, <1>8, <2>2, <3>1
    <2>3. QED
      BY <2>1, <2>2
  <1>13. ASSUME NEW q \in StepsOf(h), NEW s \in StepsOf(h), h[q].type = "RM",
                h[q].arg \in Products(h, s) \cup Inputs(h, s)
         PROVE  s \in Below(h)[q]
    <2>1. q \in StepsOf(g) /\ g[q].type = "RM" /\ g[q].arg = h[q].arg
      BY <1>4, <1>13
    <2>2. g[q].arg \in Removed(g)
      BY <2>1 DEF Removed
    <2>3. s # n
      BY <1>4, <1>9, <1>13, <2>1, <2>2
    <2>4. s \in StepsOf(g) /\ g[q].arg \in Products(g, s) \cup Inputs(g, s)
      BY <1>4, <1>5, <1>13, <2>1, <2>3
    <2>5. QED
      BY <1>5, <2>1, <2>4 DEF Lasts
  <1>14. QED
    BY <1>3, <1>10, <1>11, <1>12, <1>13, <1>15 DEF Lasts
-----------------------------------------------------------------------------
(* The constructors of build.h *)

\* The step r is a step of this kind with these dependencies.
Is(r, type, deps, out, arg, outs, ins) ==
    /\ IsStep(r)
    /\ r.type = type /\ r.out = out /\ r.arg = arg
    /\ DepSet(r) = deps
    /\ Files(r.words, {"out"}) = outs
    /\ Files(r.words, {"obj", "exe"}) = ins

\* A step as its constructor makes it, without dependencies.
LEMMA NewStep ==
    ASSUME NEW type \in Kinds, NEW out, NEW arg
    PROVE  Is(New(type, out, arg), type, {}, out, arg, {}, {})
  <1>1. PICK r : r = New(type, out, arg)
    OBVIOUS
  <1>2. r = [type |-> type, dep |-> <<>>, out |-> out, arg |-> arg, words |-> <<>>, slots |-> 0]
    BY <1>1 DEF New, aven_build_step_root
  <1>3. IsSeq(<<>>) /\ Len(<<>>) = 0
    BY EmptySeq DEF IsSeq
  <1>4. IsStep(r) /\ r.words = <<>> /\ r.dep = <<>>
    BY <1>2, <1>3 DEF IsStep
  <1>5. DepSet(r) = {} /\ \A K : Files(r.words, K) = {}
    BY <1>3, <1>4 DEF DepSet, Elements, Files
  <1>6. QED
    BY <1>1, <1>2, <1>4, <1>5 DEF Is

LEMMA CmdStep ==
    ASSUME NEW out, NEW words, NEW slots, NEW outs, NEW ins, Spells(words, slots, outs, ins)
    PROVE  Is(aven_build_step_cmd(out, words, slots), "CMD", {}, out, NoPath, outs, ins)
  <1>1. PICK r : r = aven_build_step_cmd(out, words, slots)
    OBVIOUS
  <1>2. r = [type |-> "CMD", dep |-> <<>>, out |-> out, arg |-> NoPath,
             words |-> words, slots |-> slots]
    BY <1>1 DEF New, aven_build_step_root, aven_build_step_cmd
  <1>3. IsSeq(<<>>) /\ Len(<<>>) = 0
    BY EmptySeq DEF IsSeq
  <1>4. IsStep(r) /\ r.words = words /\ r.dep = <<>>
    BY <1>2, <1>3 DEF IsStep, Spells, Kinds
  <1>5. DepSet(r) = {}
    BY <1>3, <1>4 DEF DepSet, Elements
  <1>6. QED
    BY <1>1, <1>2, <1>4, <1>5 DEF Is, Spells

\* The elements of a concatenation.
LEMMA SetConcat ==
    ASSUME NEW v, IsSeq(v), NEW w, IsSeq(w)
    PROVE  /\ IsSeq(v \o w)
           /\ Elements(v \o w) = Elements(v) \cup Elements(w)
  <1>1. PICK x : x = v \o w
    OBVIOUS
  <1>2. /\ IsSeq(x) /\ Len(v) \in Nat /\ Len(w) \in Nat
        /\ Len(x) = Len(v) + Len(w)
        /\ \A n \in 1..Len(v) : x[n] = v[n]
        /\ \A n \in 1..Len(w) : x[Len(v) + n] = w[n]
    BY <1>1, SeqConcat
  <1>3. \A k \in 1..Len(v) : k \in 1..Len(x)
    BY <1>2
  <1>4. \A k \in 1..Len(w) : Len(v) + k \in 1..Len(x)
    BY <1>2
  <1>5. \A k \in 1..Len(x) : k \in 1..Len(v) \/ \E n \in 1..Len(w) : k = Len(v) + n
    <2> TAKE k \in 1..Len(x)
    <2>1. k \in 1..Len(v) \/ (k - Len(v) \in 1..Len(w) /\ k = Len(v) + (k - Len(v)))
      BY <1>2
    <2>2. QED
      BY <2>1
  <1>6. Elements(v) \subseteq Elements(x) /\ Elements(w) \subseteq Elements(x)
    BY <1>2, <1>3, <1>4 DEF Elements
  <1>7. Elements(x) \subseteq Elements(v) \cup Elements(w)
    <2> SUFFICES ASSUME NEW k \in 1..Len(x)
                 PROVE  x[k] \in Elements(v) \cup Elements(w)
      BY DEF Elements
    <2>1. CASE k \in 1..Len(v)
      BY <1>2, <2>1 DEF Elements
    <2>2. CASE \E n \in 1..Len(w) : k = Len(v) + n
      BY <1>2, <2>2 DEF Elements
    <2>3. QED
      BY <1>5, <2>1, <2>2
  <1>8. Elements(x) = Elements(v) \cup Elements(w)
    BY <1>6, <1>7
  <1>9. QED
    BY <1>1, <1>2, <1>8

\* Dependencies put before those of a step add to them and change nothing else.
LEMMA DependsMore ==
    ASSUME NEW r, IsStep(r), NEW ds, IsSeq(ds), NEW q,
           q = [r EXCEPT !.dep = ds \o @]
    PROVE  /\ IsStep(q)
           /\ q.type = r.type /\ q.out = r.out /\ q.arg = r.arg /\ q.words = r.words
           /\ DepSet(q) = Elements(ds) \cup DepSet(r)
  <1>1. PICK x : x = ds \o r.dep
    OBVIOUS
  <1>2. /\ IsSeq(x)
        /\ Elements(x) = Elements(ds) \cup DepSet(r)
    BY <1>1, SetConcat DEF IsStep, DepSet
  <1>3. r = [type |-> r.type, dep |-> r.dep, out |-> r.out, arg |-> r.arg,
             words |-> r.words, slots |-> r.slots]
    BY DEF IsStep
  <1>4. q = [type |-> r.type, dep |-> x, out |-> r.out, arg |-> r.arg,
             words |-> r.words, slots |-> r.slots]
    BY <1>1, <1>3
  <1>5. QED
    <2>1. /\ q.type = r.type /\ q.out = r.out /\ q.arg = r.arg /\ q.words = r.words
          /\ q.slots = r.slots /\ q.dep = x
      BY <1>4
    <2>2. q = [type |-> q.type, dep |-> q.dep, out |-> q.out, arg |-> q.arg,
               words |-> q.words, slots |-> q.slots]
      BY <1>4, <2>1
    <2>3. QED
      BY <1>2, <2>1, <2>2 DEF IsStep, DepSet

LEMMA DependsOn ==
    ASSUME NEW r, NEW type, NEW deps, NEW out, NEW arg, NEW outs, NEW ins,
           Is(r, type, deps, out, arg, outs, ins), NEW d
    PROVE  Is(aven_build_step_add_dep(r, d), type, deps \cup {d}, out, arg, outs, ins)
  <1>1. PICK ds : ds = <<d>>
    OBVIOUS
  <1>2. IsSeq(ds) /\ Elements(ds) = {d}
    <2>1. ds \in Seq({d}) /\ Len(ds) = 1 /\ ds[1] = d
      BY <1>1
    <2>2. QED
      BY <2>1 DEF IsSeq, Elements
  <1>3. PICK q : q = aven_build_step_add_dep(r, d)
    OBVIOUS
  <1>4. q = [r EXCEPT !.dep = ds \o @]
    BY <1>1, <1>3 DEF aven_build_step_add_dep
  <1>5. /\ IsStep(q)
        /\ q.type = r.type /\ q.out = r.out /\ q.arg = r.arg /\ q.words = r.words
        /\ DepSet(q) = Elements(ds) \cup DepSet(r)
    BY <1>2, <1>4, DependsMore DEF Is
  <1>6. QED
    BY <1>2, <1>3, <1>5 DEF Is

LEMMA DependsOnAll ==
    ASSUME NEW r, NEW type, NEW deps, NEW out, NEW arg, NEW outs, NEW ins,
           Is(r, type, deps, out, arg, outs, ins), NEW ds, IsSeq(ds)
    PROVE  Is(add_deps(r, ds), type, deps \cup Elements(ds), out, arg, outs, ins)
  <1>1. PICK x : x = Reverse(ds)
    OBVIOUS
  <1>2. x = [k \in 1..Len(ds) |-> ds[(Len(ds) - k) + 1]] /\ Len(ds) \in Nat
    BY <1>1, SeqAppend DEF Reverse
  <1>3. IsSeq(x) /\ Len(x) = Len(ds)
    BY <1>2, SeqFunction
  <1>4. Elements(x) = Elements(ds)
    <2>1. \A k \in 1..Len(ds) : x[k] = ds[(Len(ds) - k) + 1]
      BY <1>2
    <2>2. \A k \in 1..Len(ds) :
            (Len(ds) - k) + 1 \in 1..Len(ds) /\ (Len(ds) - ((Len(ds) - k) + 1)) + 1 = k
      BY <1>2
    <2>3. \A k \in 1..Len(ds) : x[(Len(ds) - k) + 1] = ds[k]
      BY <2>1, <2>2
    <2>4. Elements(x) \subseteq Elements(ds)
      BY <1>3, <2>1, <2>2 DEF Elements
    <2>5. Elements(ds) \subseteq Elements(x)
      BY <1>3, <2>2, <2>3 DEF Elements
    <2>6. QED
      BY <2>4, <2>5
  <1>5. PICK q : q = add_deps(r, ds)
    OBVIOUS
  <1>6. q = [r EXCEPT !.dep = x \o @]
    BY <1>1, <1>5 DEF add_deps
  <1>7. /\ IsStep(q)
        /\ q.type = r.type /\ q.out = r.out /\ q.arg = r.arg /\ q.words = r.words
        /\ DepSet(q) = Elements(x) \cup DepSet(r)
    BY SMTT(30), <1>3, <1>6, DependsMore DEF Is
  <1>8. QED
    BY <1>4, <1>5, <1>7 DEF Is
-----------------------------------------------------------------------------
(* The constructors of common.h *)

\* The file a tool leaves beside its output.
Side(g, dir, base, ext) ==
    aven_build_step_add_dep(aven_build_step_path(File(g[dir].out, base, ext)), dir)

LEMMA SideIs ==
    ASSUME NEW g, NEW dir, NEW base, NEW ext
    PROVE  Is(Side(g, dir, base, ext), "PATH", {dir}, File(g[dir].out, base, ext), NoPath, {}, {})
  BY NewStep, DependsOn, "PATH" \in Kinds, {} \cup {dir} = {dir} DEF Side, aven_build_step_path, Kinds

\* The graph h is g with a side file for every extension.
Sided(g, h, m, dir, base, extra) ==
    /\ Made(h, m)
    /\ Grows(g, h)
    /\ Len(h) = Len(g) + Len(extra)
    /\ \A s \in StepsOf(g) : h[s] = g[s]
    /\ \A k \in 1..Len(extra) : h[Len(g) + k] = Side(g, dir, base, extra[k])
    /\ \A k \in 1..Len(extra) : Products(h, Len(g) + k) = {} /\ Inputs(h, Len(g) + k) = {}

\* Side files make nothing and need only their directory.
LEMMA SidesMade ==
    ASSUME NEW g, NEW m, Made(g, m), NEW dir \in StepsOf(g), Products(g, dir) = {} \/ dir \in m,
           g[dir].type = "MKDIR", NEW base, NEW extra, IsSeq(extra), NEW side,
           side = [k \in 1..Len(extra) |-> Side(g, dir, base, extra[k])],
           NEW h, h = g \o side
    PROVE  Sided(g, h, m, dir, base, extra)
  <1>1. Len(extra) \in Nat /\ IsSeq(side) /\ Len(side) = Len(extra)
        /\ \A k \in 1..Len(extra) : side[k] = Side(g, dir, base, extra[k])
    <2>1. Len(extra) \in Nat
      BY SeqAppend
    <2>2. side = [k \in 1..Len(extra) |-> side[k]]
      OBVIOUS
    <2>3. QED
      BY <2>1, <2>2, SeqFunction
  <1>2. /\ IsSeq(h) /\ Len(g) \in Nat /\ Len(h) = Len(g) + Len(extra)
        /\ \A s \in 1..Len(g) : h[s] = g[s]
        /\ \A k \in 1..Len(extra) : h[Len(g) + k] = Side(g, dir, base, extra[k])
    BY <1>1, SeqConcat DEF Made, IsGraph
  <1> DEFINE New_ == {Len(g) + k : k \in 1..Len(extra)}
  <1>3. /\ StepsOf(g) = 1..Len(g) /\ StepsOf(h) = 1..Len(h)
        /\ StepsOf(g) \subseteq StepsOf(h)
        /\ \A s \in StepsOf(h) : s \in StepsOf(g) \/ s \in New_
        /\ \A s \in New_ : s \in StepsOf(h) /\ s \notin StepsOf(g) /\ s > Len(g)
    <2>1. StepsOf(g) = 1..Len(g) /\ StepsOf(h) = 1..Len(h)
      BY DEF StepsOf
    <2>2. \A s \in 1..Len(h) : s \in 1..Len(g) \/ (s - Len(g) \in 1..Len(extra) /\ s = Len(g) + (s - Len(g)))
      BY <1>1, <1>2
    <2>3. \A s \in 1..Len(h) : s \in 1..Len(g) \/ s \in New_
      BY <2>2
    <2>4. \A k \in 1..Len(extra) : Len(g) + k \in 1..Len(h) /\ Len(g) + k \notin 1..Len(g) /\ Len(g) + k > Len(g)
      BY <1>1, <1>2
    <2>5. \A s \in 1..Len(g) : s \in 1..Len(h)
      BY <1>1, <1>2
    <2>6. QED
      BY <2>1, <2>3, <2>4, <2>5
  <1>4. \A s \in New_ : /\ IsStep(h[s]) /\ h[s].type = "PATH"
                        /\ DepSet(h[s]) = {dir}
                        /\ IsFile(h[s].out) /\ h[s].out.in = g[dir].out
                        /\ Files(h[s].words, {"out"}) = {} /\ Files(h[s].words, {"obj", "exe"}) = {}
    <2> SUFFICES ASSUME NEW k \in 1..Len(extra), NEW s, s = Len(g) + k
                 PROVE  /\ IsStep(h[s]) /\ h[s].type = "PATH"
                        /\ DepSet(h[s]) = {dir}
                        /\ IsFile(h[s].out) /\ h[s].out.in = g[dir].out
                        /\ Files(h[s].words, {"out"}) = {} /\ Files(h[s].words, {"obj", "exe"}) = {}
      OBVIOUS
    <2>1. PICK r : r = h[s]
      OBVIOUS
    <2>2. r = Side(g, dir, base, extra[k])
      BY <1>2, <2>1
    <2>3. Is(r, "PATH", {dir}, File(g[dir].out, base, extra[k]), NoPath, {}, {})
      BY <2>2, SideIs
    <2>4. IsFile(r.out) /\ r.out.in = g[dir].out
      BY <2>3, FileIs DEF Is
    <2>5. QED
      BY <2>1, <2>3, <2>4 DEF Is
  <1> HIDE DEF New_
  <1>5. /\ \A s \in StepsOf(g) : DepsOf(h, s) = DepsOf(g, s)
        /\ \A s \in New_ : DepsOf(h, s) = {dir}
    <2>1. /\ \A s : DepsOf(h, s) = DepSet(h[s])
          /\ \A s : DepsOf(g, s) = DepSet(g[s])
      BY DEF DepsOf, DepSet, Elements
    <2>2. ASSUME NEW s \in StepsOf(g)
          PROVE  DepsOf(h, s) = DepsOf(g, s)
      <3>1. h[s] = g[s]
        BY <1>2, <1>3
      <3>2. QED
        BY <2>1, <3>1
    <2>3. ASSUME NEW s \in New_
          PROVE  DepsOf(h, s) = {dir}
      BY <1>4, <2>1, <2>3
    <2>4. QED
      BY <2>2, <2>3
  <1>6. \A s \in New_ : Inputs(h, s) = {} /\ Outputs(h, s) = {} /\ Products(h, s) = {}
    <2> TAKE s \in New_
    <2>1. Named(h, s, {"out"}) = {} /\ Named(h, s, {"obj", "exe"}) = {} /\ h[s].type = "PATH"
      BY <1>4 DEF Named, Files
    <2>2. QED
      BY <2>1 DEF Inputs, Outputs, Products
  <1>7. IsGraph(h)
    <2>1. ASSUME NEW s \in StepsOf(h)
          PROVE  DepsOf(h, s) \subseteq 1..(s - 1)
      <3>1. CASE s \in StepsOf(g)
        BY <1>5, <3>1 DEF IsGraph, Made
      <3>2. CASE s \in New_
        <4>1. dir \in 1..Len(g) /\ s > Len(g) /\ s \in 1..Len(h)
          BY <1>3, <3>2
        <4>2. dir \in 1..(s - 1)
          BY <1>2, <4>1
        <4>3. QED
          BY <1>5, <3>2, <4>2
      <3>3. QED
        BY <1>3, <3>1, <3>2
    <2>2. QED
      BY <1>2, <2>1 DEF IsGraph
  <1>8. Grows(g, h)
    BY <1>1, <1>2, <1>3, <1>5, <1>7 DEF Grows, Made
  <1>9. \A s \in StepsOf(g) : Sound(h, s) /\ Recorded(h, m, s)
    <2> TAKE s \in StepsOf(g)
    <2>1. Sound(g, s) /\ Recorded(g, m, s) /\ h[s] = g[s] /\ IsGraph(g)
      BY <1>2, <1>3 DEF Made
    <2>a. IsStep(h[s])
      BY <2>1 DEF Sound
    <2>2. Sound(h, s)
      BY <1>8, <2>1, <2>a, GrowsSound
    <2>3. /\ Products(h, s) = Products(g, s) /\ Below(g)[s] \subseteq Below(h)[s]
          /\ Below(g)[s] \subseteq StepsOf(g)
      BY <1>8, <2>1, GrowsKeeps, BelowFacts
    <2>4. ASSUME NEW p \in Products(h, s), ~ \E t \in Below(h)[s] \cup {s} : h[t].out = p
          PROVE  s \notin m /\ \A q \in StepsOf(h) : s \in DepsOf(h, q) => h[q].out = p
      <3>1. ~ \E t \in Below(g)[s] \cup {s} : g[t].out = p
        BY <1>2, <1>3, <2>3, <2>4
      <3>2. s \notin m /\ \A q \in StepsOf(g) : s \in DepsOf(g, q) => g[q].out = p
        BY <2>1, <2>3, <2>4, <3>1 DEF Recorded
      <3>3. s # dir
        BY <2>3, <2>4, <3>2
      <3>4. ASSUME NEW q \in StepsOf(h), s \in DepsOf(h, q)
            PROVE  h[q].out = p
        <4>1. CASE q \in New_
          BY <1>5, <3>3, <3>4, <4>1
        <4>2. CASE q \in StepsOf(g)
          <5>1. h[q] = g[q] /\ DepsOf(h, q) = DepsOf(g, q)
            BY <1>2, <1>3, <1>5, <4>2
          <5>2. QED
            BY <3>2, <3>4, <4>2, <5>1
        <4>3. QED
          BY <1>3, <4>1, <4>2
      <3>5. QED
        BY <3>2, <3>4
    <2>5. QED
      BY <2>2, <2>4 DEF Recorded
  <1>10. \A s \in New_ : Sound(h, s) /\ Recorded(h, m, s)
    <2> TAKE s \in New_
    <2>1. dir \in Below(h)[s]
      BY <1>3, <1>5, <1>7, BelowFacts
    <2>2. h[dir].type = "MKDIR" /\ h[dir].out = h[s].out.in
      BY <1>2, <1>3, <1>4
    <2>3. Placed(h, s)
      BY <1>4, <1>6, <2>1, <2>2 DEF Placed
    <2>4. QED
      BY <1>4, <1>6, <2>3 DEF Sound, Recorded
  <1>11. Made(h, m)
    BY <1>3, <1>7, <1>9, <1>10 DEF Made
  <1>12. QED
    BY <1>2, <1>3, <1>6, <1>8, <1>11 DEF New_, Sided

\* The steps for side files keep removals last.
LEMMA SidesLast ==
    ASSUME NEW g, NEW m, NEW h, Grows(g, h), NEW e, Lasts(g, m, e), m \subseteq StepsOf(g),
           Distinct(h), \A s \in StepsOf(g) : h[s] = g[s],
           \A s \in StepsOf(h) \ StepsOf(g) :
                h[s].type = "PATH" /\ h[s].out.ext # e /\ Products(h, s) = {} /\ Inputs(h, s) = {}
    PROVE  Lasts(h, m, e)
  <1>1. \A s \in StepsOf(g) :
            /\ s \in StepsOf(h)
            /\ Products(h, s) = Products(g, s) /\ Inputs(h, s) = Inputs(g, s)
            /\ Outputs(h, s) = Outputs(g, s) /\ Below(g)[s] \subseteq Below(h)[s]
    BY GrowsKeeps
  <1>2. {q \in StepsOf(h) : h[q].type = "RM"} = {q \in StepsOf(g) : g[q].type = "RM"}
    BY <1>1
  <1>3. Removed(h) = Removed(g)
    BY <1>2 DEF Removed
  <1>4. \A p \in Removed(h) : p.ext = e /\ \E o \in StepsOf(h) : Builds(h, o, p)
    BY <1>1, <1>3 DEF Lasts, Builds
  <1>9. \A q, s \in StepsOf(h) :
            h[q].type = "RM" /\ h[s].type = "RM" /\ h[q].arg = h[s].arg => q = s
    <2>1. \A q \in StepsOf(h) : h[q].type = "RM" => q \in StepsOf(g)
      BY <1>2
    <2>2. QED
      BY <2>1 DEF Lasts
  <1>5. \A s \in m : Linkable(h, s) => h[s].out \notin Removed(h)
    BY <1>3 DEF Lasts, Linkable
  <1>6. \A s \in StepsOf(h) : h[s].type = "PATH" => h[s].out.ext # e
    BY DEF Lasts
  <1>7. ASSUME NEW q \in StepsOf(h), NEW s \in StepsOf(h), h[q].type = "RM",
               h[q].arg \in Products(h, s) \cup Inputs(h, s)
        PROVE  s \in Below(h)[q]
    <2>1. q \in StepsOf(g) /\ s \in StepsOf(g)
      BY <1>7
    <2>2. QED
      BY <1>1, <1>7, <2>1 DEF Lasts
  <1>8. QED
    BY <1>4, <1>5, <1>6, <1>7, <1>9 DEF Lasts

\* The extensions of the side files.
Extra(exts) == {exts[k] : k \in 2..Len(exts)}

\* The output of step d is p, which that step or one below it makes.
Provides(g, d, p) == g[d].out = p /\ \E t \in Below(g)[d] \cup {d} : Builds(g, t, p)

\* What a constructor of commands is given, and what it leaves.
Asked(g, m, cmd, dir, target, deps, ins) ==
    /\ Is(cmd, "CMD", deps, target, NoPath, {target}, ins)
    /\ IsFile(target) /\ dir \in deps /\ deps \subseteq m
    /\ g[dir].type = "MKDIR" /\ target.in = g[dir].out
    /\ \A d \in deps : g[d].type # "PATH"
    /\ \A p \in ins : \E d \in deps : Provides(g, d, p)

\* What a constructor of a command leaves.
Commanded(g, h, m, target, deps, ins, exts) ==
    /\ Made(h, m \cup {Len(h)})
    /\ Grows(g, h) /\ Len(h) \in Nat /\ Len(g) \in Nat /\ Len(h) > Len(g)
    /\ h[Len(h)].type = "CMD" /\ h[Len(h)].out = target
    /\ Outputs(h, Len(h)) = {target} /\ Inputs(h, Len(h)) = ins
    /\ deps \subseteq DepsOf(h, Len(h)) /\ DepsOf(h, Len(h)) \cap StepsOf(g) \subseteq deps
    /\ \A s \in StepsOf(g) : h[s] = g[s]
    /\ \A s \in StepsOf(h) \ StepsOf(g) : s # Len(h) => Products(h, s) = {} /\ Inputs(h, s) = {}
    /\ Removed(h) = Removed(g)
    /\ \A e : Lasts(g, m, e) /\ Distinct(h) /\ e \notin Extra(exts) /\ ins \cap Removed(g) = {}
                => Lasts(h, m \cup {Len(h)}, e)

\* A command appended after the steps for its side files.
LEMMA CommandMade ==
    ASSUME NEW g, NEW m, Made(g, m), NEW cmd, NEW dir, NEW target, NEW deps, NEW ins,
           Asked(g, m, cmd, dir, target, deps, ins), NEW base, NEW exts, IsSeq(exts), NEW h,
           h = aven_build_common_step_add_path_deps(g, cmd, dir, base, exts)
    PROVE  Commanded(g, h, m, target, deps, ins, exts)
  <1>1. PICK extra : extra = IF exts = <<>> THEN <<>> ELSE Tail(exts)
    OBVIOUS
  <1>2. /\ IsSeq(extra) /\ Len(extra) \in Nat
        /\ \A k \in 1..Len(extra) : extra[k] \in Extra(exts)
    <2>1. PICK S : exts \in Seq(S)
      BY DEF IsSeq
    <2>2. CASE exts = <<>>
      <3>1. extra \in Seq({}) /\ Len(extra) = 0
        BY <1>1, <2>2
      <3>2. QED
        BY <3>1 DEF IsSeq
    <2>3. CASE exts # <<>>
      <3>1. /\ extra \in Seq(S) /\ Len(extra) = Len(exts) - 1
            /\ \A k \in 1..Len(extra) : extra[k] = exts[k + 1]
        BY <1>1, <2>1, <2>3, HeadTailProperties
      <3>2. Len(exts) \in Nat /\ Len(extra) \in Nat
        BY <2>1, <3>1
      <3>3. \A k \in 1..Len(extra) : k + 1 \in 2..Len(exts)
        BY <3>1, <3>2
      <3>4. QED
        BY <3>1, <3>2, <3>3 DEF IsSeq, Extra
    <2>4. QED
      BY <2>2, <2>3
  <1>3. PICK side : side = [k \in 1..Len(extra) |-> Side(g, dir, base, extra[k])]
    OBVIOUS
  <1>4. PICK f : f = g \o side
    OBVIOUS
  <1>5. PICK nums : nums = [k \in 1..Len(extra) |-> Len(g) + k]
    OBVIOUS
  <1>6. PICK r : r = add_deps(cmd, nums)
    OBVIOUS
  <1>7. h = Append(f, r)
    BY <1>1, <1>3, <1>4, <1>5, <1>6 DEF aven_build_common_step_add_path_deps, Side
  <1>8. /\ dir \in StepsOf(g) /\ dir \in m /\ deps \subseteq StepsOf(g) /\ m \subseteq StepsOf(g)
        /\ IsGraph(g) /\ Len(g) \in Nat
    BY SeqAppend DEF Asked, Made, IsGraph
  <1>9. /\ Made(f, m) /\ Grows(g, f) /\ Len(f) = Len(g) + Len(extra)
        /\ \A s \in StepsOf(g) : f[s] = g[s]
        /\ \A k \in 1..Len(extra) : f[Len(g) + k] = Side(g, dir, base, extra[k])
        /\ \A k \in 1..Len(extra) : Products(f, Len(g) + k) = {} /\ Inputs(f, Len(g) + k) = {}
    <2>1. Products(g, dir) = {} \/ dir \in m
      BY <1>8
    <2>a. g[dir].type = "MKDIR"
      BY DEF Asked
    <2>2. Sided(g, f, m, dir, base, extra)
      BY <1>2, <1>3, <1>4, <1>8, <2>1, <2>a, SidesMade
    <2>3. QED
      BY <2>2 DEF Sided
  <1>10. \A k \in 1..Len(extra) : f[Len(g) + k].type = "PATH"
            /\ f[Len(g) + k].out = File(g[dir].out, base, extra[k])
    <2> TAKE k \in 1..Len(extra)
    <2>1. Is(Side(g, dir, base, extra[k]), "PATH", {dir}, File(g[dir].out, base, extra[k]), NoPath, {}, {})
      BY SideIs
    <2>2. QED
      BY <1>9, <2>1 DEF Is
  <1> DEFINE N == {Len(g) + k : k \in 1..Len(extra)}
  <1>11. /\ StepsOf(f) = StepsOf(g) \cup N
         /\ \A s \in N : s \notin StepsOf(g)
    <2>1. \A s \in 1..Len(f) : s \in 1..Len(g) \/ (s - Len(g) \in 1..Len(extra) /\ s = Len(g) + (s - Len(g)))
      BY <1>2, <1>8, <1>9
    <2>2. \A k \in 1..Len(extra) : Len(g) + k \in 1..Len(f) /\ Len(g) + k \notin 1..Len(g)
      BY <1>2, <1>8, <1>9
    <2>3. \A s \in 1..Len(g) : s \in 1..Len(f)
      BY <1>2, <1>8, <1>9
    <2>4. QED
      BY <2>1, <2>2, <2>3 DEF StepsOf
  <1>12. IsSeq(nums) /\ Elements(nums) = N
    <2>1. nums = [k \in 1..Len(extra) |-> nums[k]] /\ \A k \in 1..Len(extra) : nums[k] = Len(g) + k
      BY <1>5
    <2>2. IsSeq(nums) /\ Len(nums) = Len(extra)
      BY <1>2, <2>1, SeqFunction
    <2>3. QED
      BY <2>1, <2>2 DEF Elements
  <1>13. Is(r, "CMD", deps \cup N, target, NoPath, {target}, ins)
    BY <1>6, <1>12, DependsOnAll DEF Asked
  <1>14. \A s \in N : /\ f[s].type = "PATH" /\ f[s].out.in = g[dir].out /\ f[s].out.ext \in Extra(exts)
                      /\ Products(f, s) = {} /\ Inputs(f, s) = {}
    <2> SUFFICES ASSUME NEW k \in 1..Len(extra), NEW s, s = Len(g) + k
                 PROVE  /\ f[s].type = "PATH" /\ f[s].out.in = g[dir].out
                        /\ f[s].out.ext \in Extra(exts)
                        /\ Products(f, s) = {} /\ Inputs(f, s) = {}
      OBVIOUS
    <2>1. PICK o : o = f[s].out
      OBVIOUS
    <2>2. o = [in |-> g[dir].out, base |-> base, ext |-> extra[k]]
      BY <1>10, <2>1 DEF File
    <2>3. o.in = g[dir].out /\ o.ext \in Extra(exts)
      BY <1>2, <2>2
    <2>4. QED
      BY <1>9, <1>10, <2>1, <2>3
  <1> HIDE DEF N
  <1>15. Fits(f, m, r)
    <2>1. IsStep(r) /\ DepSet(r) = deps \cup N /\ DepSet(r) \subseteq StepsOf(f)
      BY <1>8, <1>11, <1>13 DEF Is
    <2>2. \A d \in DepSet(r) \ m : Products(f, d) = {}
      BY <1>14, <2>1 DEF Asked
    <2>3. DepSet(r) \subseteq BelowNew(f, r)
      BY DEF BelowNew
    <2>4. ASSUME NEW p \in InputsOf(r)
          PROVE  \E t \in BelowNew(f, r) : Builds(f, t, p)
      <3>1. p \in ins
        BY <1>13, <2>4 DEF InputsOf, Is
      <3>2. PICK d \in deps : Provides(g, d, p)
        BY <3>1 DEF Asked
      <3>3. PICK t \in Below(g)[d] \cup {d} : Builds(g, t, p)
        BY <3>2 DEF Provides
      <3>a. d \in StepsOf(g) /\ t \in StepsOf(g)
        BY <1>8, <3>3, BelowFacts
      <3>4. t \in Below(f)[d] \cup {d} /\ Builds(f, t, p)
        BY <1>9, <3>3, <3>a, GrowsKeeps DEF Builds
      <3>5. t \in BelowNew(f, r)
        BY <2>1, <3>4 DEF BelowNew
      <3>6. QED
        BY <3>4, <3>5
    <2>5. ProductsOf(f, r) \subseteq {target} \cup {f[s].out : s \in N}
      <3>1. \A d \in deps : f[d].type # "PATH"
        BY <1>8, <1>9 DEF Asked
      <3>2. OutputsOf(r) = {target}
        BY <1>13 DEF OutputsOf, Is
      <3>3. QED
        BY <2>1, <3>1, <3>2 DEF ProductsOf
    <2>6. \A p \in ProductsOf(f, r) : p.in = g[dir].out
      BY <1>14, <2>5 DEF Asked
    <2>7. dir \in BelowNew(f, r) /\ f[dir].type = "MKDIR" /\ f[dir].out = g[dir].out
      BY <1>8, <1>9, <2>1, <2>3 DEF Asked
    <2>8. \A p \in ProductsOf(f, r) : r.out = p \/ \E t \in BelowNew(f, r) : f[t].out = p
      BY <1>13, <2>1, <2>3, <2>5 DEF Is
    <2>9. r.out \in OutputsOf(r) /\ OutputsOf(r) = {target} /\ r.type = "CMD"
      BY <1>13 DEF Is, OutputsOf
    <2>a. PlacedNew(f, r)
      BY <2>9 DEF PlacedNew, Asked
    <2>10. QED
      BY <2>1, <2>2, <2>4, <2>6, <2>7, <2>8, <2>9, <2>a DEF Fits
  <1>16. Made(h, m \cup {Len(h)}) /\ OneMore(f, h, r)
    <2>1. IsGraph(f) /\ DepSet(r) \subseteq StepsOf(f)
      BY <1>9, <1>15 DEF Made, Fits
    <2>2. OneMore(f, h, r)
      BY <1>7, <2>1, AppendGrows
    <2>3. Made(f, m)
      BY <1>9
    <2>4. Made(h, m \cup {Len(h)})
      BY <1>7, <1>15, <2>3, AppendMade
    <2>5. QED
      BY <2>2, <2>4
  <1>17. PICK n : n = Len(h)
    OBVIOUS
  <1>18. /\ Grows(f, h) /\ n = Len(f) + 1 /\ StepsOf(h) = StepsOf(f) \cup {n}
         /\ h[n] = r /\ \A s \in StepsOf(f) : h[s] = f[s]
         /\ Inputs(h, n) = InputsOf(r) /\ Outputs(h, n) = OutputsOf(r)
    BY <1>16, <1>17 DEF OneMore
  <1>19. \A s \in StepsOf(g) : h[s] = g[s]
    BY <1>9, <1>11, <1>18
  <1>20. /\ n \in Nat /\ n > Len(g) /\ n \notin StepsOf(g)
         /\ h[n].type = "CMD" /\ h[n].out = target /\ Outputs(h, n) = {target} /\ Inputs(h, n) = ins
    <2>1. n \in Nat /\ n > Len(g) /\ n \notin StepsOf(g)
      BY <1>2, <1>8, <1>9, <1>18 DEF StepsOf
    <2>2. QED
      BY <1>13, <1>18, <2>1 DEF Is, OutputsOf, InputsOf
  <1>21. deps \subseteq DepsOf(h, n) /\ DepsOf(h, n) \cap StepsOf(g) \subseteq deps
    <2>1. DepsOf(h, n) = deps \cup N
      BY <1>13, <1>18 DEF Is, DepsOf, DepSet, Elements
    <2>2. QED
      BY <1>11, <2>1
  <1>22. Grows(g, h)
    <2>1. IsGraph(g) /\ IsGraph(h) /\ Len(g) <= Len(h)
      BY <1>8, <1>17, <1>18, <1>20 DEF Grows
    <2>2. QED
      BY <1>19, <2>1 DEF Grows, DepsOf
  <1>23. \A s \in StepsOf(h) \ StepsOf(g) : s # n => Products(h, s) = {} /\ Inputs(h, s) = {}
    <2> SUFFICES ASSUME NEW s \in N
                 PROVE  Products(h, s) = {} /\ Inputs(h, s) = {}
      BY <1>11, <1>18
    <2>1. s \in StepsOf(f)
      BY <1>11
    <2>2. QED
      BY <1>14, <1>18, <2>1, GrowsKeeps
  <1>24. Removed(f) = Removed(g) /\ Removed(h) = Removed(g)
    <2>1. {q \in StepsOf(f) : f[q].type = "RM"} = {q \in StepsOf(g) : g[q].type = "RM"}
      BY <1>9, <1>11, <1>14
    <2>2. {q \in StepsOf(h) : h[q].type = "RM"} = {q \in StepsOf(g) : g[q].type = "RM"}
      BY <1>18, <1>20, <2>1
    <2>3. QED
      BY <1>9, <1>19, <2>1, <2>2 DEF Removed
  <1>25. ASSUME NEW e, Lasts(g, m, e), Distinct(h), e \notin Extra(exts), ins \cap Removed(g) = {}
         PROVE  Lasts(h, m \cup {n}, e)
    <2>1. Distinct(f)
      BY <1>18, <1>25, GrowsDistinct
    <2>2. \A s \in StepsOf(f) \ StepsOf(g) :
            f[s].type = "PATH" /\ f[s].out.ext # e /\ Products(f, s) = {} /\ Inputs(f, s) = {}
      BY <1>11, <1>14, <1>25
    <2>3. Lasts(f, m, e)
      BY <1>8, <1>9, <1>25, <2>1, <2>2, SidesLast
    <2>4. Removed(f) = Removed(g)
      BY <1>24
    <2>5. /\ r.type = "CMD" /\ r.out \in OutputsOf(r) /\ InputsOf(r) \cap Removed(f) = {}
      BY <1>13, <1>25, <2>4 DEF Is, OutputsOf, InputsOf
    <2>6. QED
      BY <1>7, <1>9, <1>15, <1>17, <1>25, <2>3, <2>5, AppendLasts
  <1>26. QED
    BY <1>8, <1>16, <1>17, <1>19, <1>20, <1>21, <1>22, <1>23, <1>24, <1>25 DEF Commanded

\* The options and the lengths of the lists that a client gives.
OptsOK ==
    /\ opts.ccflags \in Nat /\ opts.ldflags \in Nat /\ opts.arflags \in Nat
    /\ opts.windres => opts.wrflags \in Nat
    /\ IsSeq(opts.obexts) /\ IsSeq(opts.exexts) /\ IsSeq(opts.soexts)
    /\ IsSeq(opts.arexts) /\ IsSeq(opts.wrexts)
ManyOK == many.incs \in Nat /\ many.macros \in Nat /\ many.libs \in Nat /\ many.args \in Nat

\* Words that are added to others.
LEMMA SpellsMore ==
    ASSUME NEW v, NEW w, NEW n1, NEW o1, NEW i1, Spells(v, n1, o1, i1),
           NEW n2, NEW o2, NEW i2, Spells(w, n2, o2, i2),
           NEW n, n = n1 + n2
    PROVE  /\ o2 = {} /\ i2 = {} => Spells(v \o w, n, o1, i1)
           /\ o1 = {} /\ i1 = {} => Spells(v \o w, n, o2, i2)
           /\ i1 = {} /\ o2 = {} => Spells(v \o w, n, o1, i2)
  <1>1. Spells(v \o w, n, o1 \cup o2, i1 \cup i2)
    BY SpellsConcat
  <1>2. ASSUME o2 = {}, i2 = {}
        PROVE  Spells(v \o w, n, o1, i1)
    <2>1. o1 \cup o2 = o1 /\ i1 \cup i2 = i1
      BY <1>2
    <2>2. QED
      BY <1>1, <2>1
  <1>3. ASSUME o1 = {}, i1 = {}
        PROVE  Spells(v \o w, n, o2, i2)
    <2>1. o1 \cup o2 = o2 /\ i1 \cup i2 = i2
      BY <1>3
    <2>2. QED
      BY <1>1, <2>1
  <1>4. ASSUME i1 = {}, o2 = {}
        PROVE  Spells(v \o w, n, o1, i2)
    <2>1. o1 \cup o2 = o1 /\ i1 \cup i2 = i2
      BY <1>4
    <2>2. QED
      BY <1>1, <2>1
  <1>5. QED
    BY <1>2, <1>3, <1>4

\* The words a flag and its value take, separated or not.
Twice(n, sep) == IF sep > 0 THEN 2 * n ELSE n
Once(sep) == IF sep > 0 THEN 2 ELSE 1

\* The words of the compiler fill their slots and name its source and its object.
LEMMA CcWords ==
    ASSUME OptsOK, NEW incs \in Nat, NEW macros \in Nat, NEW target, NEW src, NEW words,
           words = Plain(1 + opts.ccflags) \o Flagged(incs, opts.ccsep)
                    \o Flagged(macros, opts.ccsep) \o Plain(1)
                    \o OutWords(target, opts.ccsep) \o <<Word("src", src)>>
    PROVE  Spells(words, CcSlots(incs, macros), {target}, {})
  <1>1. PICK a : a = Plain(1 + opts.ccflags) \o Flagged(incs, opts.ccsep)
    OBVIOUS
  <1>2. PICK b : b = a \o Flagged(macros, opts.ccsep)
    OBVIOUS
  <1>3. PICK c : c = b \o Plain(1)
    OBVIOUS
  <1>4. PICK d : d = c \o OutWords(target, opts.ccsep)
    OBVIOUS
  <1>5. words = d \o <<Word("src", src)>>
    BY <1>1, <1>2, <1>3, <1>4
  <1>6. Spells(a, 1 + opts.ccflags + Twice(incs, opts.ccsep), {}, {})
    <2>1. 1 + opts.ccflags \in Nat
      BY DEF OptsOK
    <2>2. Spells(Plain(1 + opts.ccflags), 1 + opts.ccflags, {}, {})
      BY <2>1, SpellsPlain
    <2>3. Spells(Flagged(incs, opts.ccsep), Twice(incs, opts.ccsep), {}, {})
      BY SpellsFlagged DEF Twice
    <2>4. QED
      BY <1>1, <2>2, <2>3, SpellsMore
  <1>7. Spells(b, 1 + opts.ccflags + Twice(incs, opts.ccsep) + Twice(macros, opts.ccsep), {}, {})
    <2>1. Spells(Flagged(macros, opts.ccsep), Twice(macros, opts.ccsep), {}, {})
      BY SpellsFlagged DEF Twice
    <2>2. QED
      BY <1>2, <1>6, <2>1, SpellsMore
  <1>8. Spells(c, 1 + opts.ccflags + Twice(incs, opts.ccsep) + Twice(macros, opts.ccsep) + 1, {}, {})
    <2>1. Spells(Plain(1), 1, {}, {})
      BY SpellsPlain
    <2>2. QED
      BY <1>3, <1>7, <2>1, SpellsMore
  <1>9. Spells(d, 1 + opts.ccflags + Twice(incs, opts.ccsep) + Twice(macros, opts.ccsep) + 1
                    + Once(opts.ccsep), {target}, {})
    <2>1. Spells(OutWords(target, opts.ccsep), Once(opts.ccsep), {target}, {})
      BY SpellsOutWords DEF Once
    <2>2. QED
      BY <1>4, <1>8, <2>1, SpellsMore
  <1>10. Spells(words, 1 + opts.ccflags + Twice(incs, opts.ccsep) + Twice(macros, opts.ccsep) + 1
                    + Once(opts.ccsep) + 1, {target}, {})
    <2>1. Spells(<<Word("src", src)>>, 1, {}, {})
      BY SpellsOne
    <2>2. QED
      BY <1>5, <1>9, <2>1, SpellsMore
  <1>11. 1 + opts.ccflags + Twice(incs, opts.ccsep) + Twice(macros, opts.ccsep) + 1
                    + Once(opts.ccsep) + 1 = CcSlots(incs, macros)
    <2>1. PICK x : x = opts.ccflags
      OBVIOUS
    <2>2. x \in Nat
      BY <2>1 DEF OptsOK
    <2>3. CASE opts.ccsep > 0
      <3>1. CcSlots(incs, macros) = 4 + x + incs + macros + (1 + incs + macros)
        BY <2>1, <2>3 DEF CcSlots
      <3>2. /\ Twice(incs, opts.ccsep) = 2 * incs /\ Twice(macros, opts.ccsep) = 2 * macros
            /\ Once(opts.ccsep) = 2
        BY <2>3 DEF Twice, Once
      <3>3. 1 + x + 2 * incs + 2 * macros + 1 + 2 + 1 = 4 + x + incs + macros + (1 + incs + macros)
        BY <2>2
      <3>4. QED
        BY <2>1, <3>1, <3>2, <3>3
    <2>4. CASE ~ (opts.ccsep > 0)
      <3>1. CcSlots(incs, macros) = 4 + x + incs + macros + 0
        BY <2>1, <2>4 DEF CcSlots
      <3>2. /\ Twice(incs, opts.ccsep) = incs /\ Twice(macros, opts.ccsep) = macros
            /\ Once(opts.ccsep) = 1
        BY <2>4 DEF Twice, Once
      <3>3. 1 + x + incs + macros + 1 + 1 + 1 = 4 + x + incs + macros + 0
        BY <2>2
      <3>4. QED
        BY <2>1, <3>1, <3>2, <3>3
    <2>5. QED
      BY <2>3, <2>4
  <1>12. QED
    BY <1>10, <1>11

\* What every constructor is given: a directory.
DirGiven(g, m, dir) == Made(g, m) /\ dir \in m /\ g[dir].type = "MKDIR"

\* The object of a source.
CcTarget(g, src, dir) == Target(g[dir].out, fname_base(src), opts.obexts)

\* A target is in its directory, and has the first extension.
LEMMA TargetIn ==
    ASSUME NEW dir, NEW base, NEW exts, NEW t, t = Target(dir, base, exts)
    PROVE  t.in = dir /\ IsFile(t)
  <1>1. PICK ext : ext = IF exts = <<>> THEN "" ELSE exts[1]
    OBVIOUS
  <1>2. t = File(dir, base, ext)
    BY <1>1 DEF Target
  <1>3. QED
    BY <1>2, FileIs

\* The extension of an output.
FirstOf(exts) == IF exts = <<>> THEN "" ELSE exts[1]

LEMMA TargetExt ==
    ASSUME NEW dir, NEW base, NEW exts, NEW t, t = Target(dir, base, exts)
    PROVE  t.ext = FirstOf(exts)
  <1>1. PICK ext : ext = IF exts = <<>> THEN "" ELSE exts[1]
    OBVIOUS
  <1>2. t = File(dir, base, ext)
    BY <1>1 DEF Target
  <1>3. t = [in |-> dir, base |-> base, ext |-> ext]
    BY <1>2 DEF File
  <1>4. t.ext = ext
    BY <1>3
  <1>5. QED
    BY <1>1, <1>4 DEF FirstOf

\* The compiler, the linker, the archiver and the compiler of resources: each leaves
\* a command with its side files.
LEMMA CcMade ==
    ASSUME OptsOK, NEW g, NEW m, NEW dir, DirGiven(g, m, dir),
           NEW incs \in Nat, NEW macros \in Nat, NEW src, NEW h,
           h = aven_build_common_step_cc_ex(g, incs, macros, src, dir)
    PROVE  Commanded(g, h, m, CcTarget(g, src, dir), {dir}, {}, opts.obexts)
  <1>1. PICK target : target = CcTarget(g, src, dir)
    OBVIOUS
  <1>2. PICK words : words = Plain(1 + opts.ccflags) \o Flagged(incs, opts.ccsep)
                    \o Flagged(macros, opts.ccsep) \o Plain(1)
                    \o OutWords(target, opts.ccsep) \o <<Word("src", src)>>
    OBVIOUS
  <1>3. PICK cmd : cmd = aven_build_step_add_dep(
                            aven_build_step_cmd(target, words, CcSlots(incs, macros)), dir)
    OBVIOUS
  <1>4. h = aven_build_common_step_add_path_deps(g, cmd, dir, fname_base(src), opts.obexts)
    BY <1>1, <1>2, <1>3 DEF aven_build_common_step_cc_ex, CcTarget
  <1>5. Is(cmd, "CMD", {dir}, target, NoPath, {target}, {})
    <2>1. Spells(words, CcSlots(incs, macros), {target}, {})
      BY <1>2, CcWords
    <2>2. Is(cmd, "CMD", {} \cup {dir}, target, NoPath, {target}, {})
      BY <1>3, <2>1, CmdStep, DependsOn
    <2>3. {} \cup {dir} = {dir}
      OBVIOUS
    <2>4. QED
      BY <2>2, <2>3
  <1>6. target.in = g[dir].out /\ IsFile(target)
    BY <1>1, TargetIn DEF CcTarget
  <1>7. Asked(g, m, cmd, dir, target, {dir}, {})
    BY <1>5, <1>6 DEF Asked, DirGiven
  <1>8. QED
    BY <1>1, <1>4, <1>7, CommandMade DEF OptsOK, DirGiven

\* The objects that a linker or an archiver is given.
ObjsGiven(g, m, objs) ==
    /\ IsSeq(objs)
    /\ \A k \in 1..Len(objs) :
        objs[k] \in m /\ g[objs[k]].type # "PATH" /\ Provides(g, objs[k], g[objs[k]].out)
\* The files of given objects.
OutsOf(g, objs) == {g[objs[k]].out : k \in 1..Len(objs)}

LEMMA LinkMade ==
    ASSUME NEW g, NEW m, NEW dir, DirGiven(g, m, dir), NEW objs, ObjsGiven(g, m, objs),
           NEW target, NEW words, NEW slots, Spells(words, slots, {target}, OutsOf(g, objs)),
           NEW base, NEW exts, IsSeq(exts), target = Target(g[dir].out, base, exts), NEW h,
           h = aven_build_common_step_add_path_deps(
                g, LinkDeps(aven_build_step_cmd(target, words, slots), objs, dir), dir, base, exts)
    PROVE  Commanded(g, h, m, target, Elements(objs) \cup {dir}, OutsOf(g, objs), exts)
  <1>1. PICK cmd : cmd = LinkDeps(aven_build_step_cmd(target, words, slots), objs, dir)
    OBVIOUS
  <1>2. Is(cmd, "CMD", Elements(objs) \cup {dir}, target, NoPath, {target}, OutsOf(g, objs))
    <2>1. PICK c : c = aven_build_step_cmd(target, words, slots)
      OBVIOUS
    <2>2. Is(c, "CMD", {}, target, NoPath, {target}, OutsOf(g, objs))
      BY <2>1, CmdStep
    <2>3. PICK d : d = add_deps(c, objs)
      OBVIOUS
    <2>4. Is(d, "CMD", {} \cup Elements(objs), target, NoPath, {target}, OutsOf(g, objs))
      BY <2>2, <2>3, DependsOnAll DEF ObjsGiven
    <2>5. {} \cup Elements(objs) = Elements(objs)
      OBVIOUS
    <2>6. Is(d, "CMD", Elements(objs), target, NoPath, {target}, OutsOf(g, objs))
      BY <2>4, <2>5
    <2>7. cmd = aven_build_step_add_dep(d, dir)
      BY <1>1, <2>1, <2>3 DEF LinkDeps
    <2>8. QED
      BY <2>6, <2>7, DependsOn
  <1>3. target.in = g[dir].out /\ IsFile(target)
    BY TargetIn
  <1>4. Asked(g, m, cmd, dir, target, Elements(objs) \cup {dir}, OutsOf(g, objs))
    <2>1. Elements(objs) \subseteq m /\ \A d \in Elements(objs) : g[d].type # "PATH"
      BY DEF ObjsGiven, Elements
    <2>2. \A p \in OutsOf(g, objs) : \E d \in Elements(objs) : Provides(g, d, p)
      BY DEF ObjsGiven, Elements, OutsOf
    <2>3. QED
      BY <1>2, <1>3, <2>1, <2>2 DEF Asked, DirGiven
  <1>5. Made(g, m)
    BY DEF DirGiven
  <1>6. h = aven_build_common_step_add_path_deps(g, cmd, dir, base, exts)
    BY <1>1
  <1>7. QED
    BY <1>4, <1>5, <1>6, CommandMade

\* The words of the linker fill their slots and name its objects and its target.
LEMMA LdWords ==
    ASSUME OptsOK, NEW libs \in Nat, NEW kind \in BinType, NEW g, NEW objs, IsSeq(objs),
           NEW target, NEW words,
           words = Plain(1 + opts.ldflags + BinWords(kind))
                    \o OutWords(target, opts.ldsep) \o ObjWords(g, objs)
                    \o Flagged(libs, opts.ldsep)
    PROVE  Spells(words, LdSlots(libs, objs, kind), {target}, OutsOf(g, objs))
  <1>1. PICK b : b = BinWords(kind)
    OBVIOUS
  <1>2. b \in Nat
    BY <1>1 DEF BinWords, BinType
  <1>3. PICK x : x = opts.ldflags
    OBVIOUS
  <1>4. x \in Nat
    BY <1>3 DEF OptsOK
  <1>5. PICK c : c = Plain(1 + x + b) \o OutWords(target, opts.ldsep)
    OBVIOUS
  <1>6. PICK d : d = c \o ObjWords(g, objs)
    OBVIOUS
  <1>7. words = d \o Flagged(libs, opts.ldsep)
    BY <1>1, <1>3, <1>5, <1>6
  <1>8. Spells(c, 1 + x + b + Once(opts.ldsep), {target}, {})
    <2>1. Spells(Plain(1 + x + b), 1 + x + b, {}, {})
      BY <1>2, <1>4, SpellsPlain
    <2>2. Spells(OutWords(target, opts.ldsep), Once(opts.ldsep), {target}, {})
      BY SpellsOutWords DEF Once
    <2>3. QED
      BY <1>5, <2>1, <2>2, SpellsMore
  <1>9. Spells(d, 1 + x + b + Once(opts.ldsep) + Len(objs), {target}, OutsOf(g, objs))
    <2>1. Spells(ObjWords(g, objs), Len(objs), {}, OutsOf(g, objs))
      BY SpellsObjWords DEF OutsOf
    <2>2. QED
      BY <1>6, <1>8, <2>1, SpellsMore
  <1>10. Spells(words, 1 + x + b + Once(opts.ldsep) + Len(objs) + Twice(libs, opts.ldsep),
                {target}, OutsOf(g, objs))
    <2>1. Spells(Flagged(libs, opts.ldsep), Twice(libs, opts.ldsep), {}, {})
      BY SpellsFlagged DEF Twice
    <2>2. QED
      BY <1>7, <1>9, <2>1, SpellsMore
  <1>11. 1 + x + b + Once(opts.ldsep) + Len(objs) + Twice(libs, opts.ldsep)
            = LdSlots(libs, objs, kind)
    <2>1. PICK l : l = Len(objs)
      OBVIOUS
    <2>2. l \in Nat
      BY <2>1, SeqAppend
    <2>3. CASE opts.ldsep > 0
      <3>1. LdSlots(libs, objs, kind) = 2 + x + l + libs + (1 + libs) + b
        BY <1>1, <1>3, <2>1, <2>3 DEF LdSlots
      <3>2. Twice(libs, opts.ldsep) = 2 * libs /\ Once(opts.ldsep) = 2
        BY <2>3 DEF Twice, Once
      <3>3. 1 + x + b + 2 + l + 2 * libs = 2 + x + l + libs + (1 + libs) + b
        BY <1>2, <1>4, <2>2
      <3>4. QED
        BY <2>1, <3>1, <3>2, <3>3
    <2>4. CASE ~ (opts.ldsep > 0)
      <3>1. LdSlots(libs, objs, kind) = 2 + x + l + libs + 0 + b
        BY <1>1, <1>3, <2>1, <2>4 DEF LdSlots
      <3>2. Twice(libs, opts.ldsep) = libs /\ Once(opts.ldsep) = 1
        BY <2>4 DEF Twice, Once
      <3>3. 1 + x + b + 1 + l + libs = 2 + x + l + libs + 0 + b
        BY <1>2, <1>4, <2>2
      <3>4. QED
        BY <2>1, <3>1, <3>2, <3>3
    <2>5. QED
      BY <2>3, <2>4
  <1>12. QED
    BY <1>10, <1>11

\* The extensions of a binary.
LdExts(kind) == IF kind = "DLL" THEN opts.soexts ELSE opts.exexts

LEMMA LdMade ==
    ASSUME OptsOK, NEW g, NEW m, NEW dir, DirGiven(g, m, dir), NEW objs, ObjsGiven(g, m, objs),
           NEW libs \in Nat, NEW kind \in BinType, NEW base, NEW h,
           h = aven_build_common_step_ld(g, libs, objs, dir, base, kind)
    PROVE  Commanded(g, h, m, Target(g[dir].out, base, LdExts(kind)),
                     Elements(objs) \cup {dir}, OutsOf(g, objs), LdExts(kind))
  <1>1. PICK exts : exts = LdExts(kind)
    OBVIOUS
  <1>2. PICK target : target = Target(g[dir].out, base, exts)
    OBVIOUS
  <1>3. PICK words : words = Plain(1 + opts.ldflags + BinWords(kind))
                    \o OutWords(target, opts.ldsep) \o ObjWords(g, objs)
                    \o Flagged(libs, opts.ldsep)
    OBVIOUS
  <1>4. h = aven_build_common_step_add_path_deps(
                g, LinkDeps(aven_build_step_cmd(target, words, LdSlots(libs, objs, kind)),
                            objs, dir), dir, base, exts)
    BY <1>1, <1>2, <1>3 DEF aven_build_common_step_ld, LdExts
  <1>5. Spells(words, LdSlots(libs, objs, kind), {target}, OutsOf(g, objs))
    BY <1>3, LdWords DEF ObjsGiven
  <1>6. IsSeq(exts)
    BY <1>1 DEF OptsOK, LdExts
  <1>7. QED
    BY <1>1, <1>2, <1>4, <1>5, <1>6, LinkMade

LEMMA ArMade ==
    ASSUME OptsOK, NEW g, NEW m, NEW dir, DirGiven(g, m, dir), NEW objs, ObjsGiven(g, m, objs),
           NEW base, NEW h, h = aven_build_common_step_ar(g, objs, dir, base)
    PROVE  Commanded(g, h, m, Target(g[dir].out, base, opts.arexts),
                     Elements(objs) \cup {dir}, OutsOf(g, objs), opts.arexts)
  <1>1. PICK target : target = Target(g[dir].out, base, opts.arexts)
    OBVIOUS
  <1>2. PICK sep : sep = IF opts.aroutflag THEN opts.arsep ELSE 0
    OBVIOUS
  <1>3. PICK c : c = Plain(1 + opts.arflags) \o OutWords(target, sep)
    OBVIOUS
  <1>4. PICK words : words = c \o ObjWords(g, objs)
    OBVIOUS
  <1>5. h = aven_build_common_step_add_path_deps(
                g, LinkDeps(aven_build_step_cmd(target, words, ArSlots(objs)), objs, dir),
                dir, base, opts.arexts)
    BY <1>1, <1>2, <1>3, <1>4 DEF aven_build_common_step_ar
  <1>6. PICK x : x = opts.arflags
    OBVIOUS
  <1>7. x \in Nat
    BY <1>6 DEF OptsOK
  <1>8. Spells(c, 1 + x + Once(sep), {target}, {})
    <2>1. Spells(Plain(1 + x), 1 + x, {}, {})
      BY <1>7, SpellsPlain
    <2>2. Spells(OutWords(target, sep), Once(sep), {target}, {})
      BY SpellsOutWords DEF Once
    <2>3. QED
      BY <1>3, <1>6, <2>1, <2>2, SpellsMore
  <1>9. Spells(words, 1 + x + Once(sep) + Len(objs), {target}, OutsOf(g, objs))
    <2>1. Spells(ObjWords(g, objs), Len(objs), {}, OutsOf(g, objs))
      BY SpellsObjWords DEF OutsOf, ObjsGiven
    <2>2. QED
      BY <1>4, <1>8, <2>1, SpellsMore
  <1>10. 1 + x + Once(sep) + Len(objs) = ArSlots(objs)
    <2>1. PICK l : l = Len(objs)
      OBVIOUS
    <2>2. l \in Nat
      BY <2>1, SeqAppend DEF ObjsGiven
    <2>3. CASE opts.aroutflag /\ opts.arsep > 0
      <3>1. ArSlots(objs) = 2 + x + l + 1
        BY <1>6, <2>1, <2>3 DEF ArSlots
      <3>2. Once(sep) = 2
        BY <1>2, <2>3 DEF Once
      <3>3. 1 + x + 2 + l = 2 + x + l + 1
        BY <1>7, <2>2
      <3>4. QED
        BY <2>1, <3>1, <3>2, <3>3
    <2>4. CASE ~ (opts.aroutflag /\ opts.arsep > 0)
      <3>1. ArSlots(objs) = 2 + x + l + 0
        BY <1>6, <2>1, <2>4 DEF ArSlots
      <3>2. Once(sep) = 1
        BY <1>2, <2>4 DEF Once
      <3>3. 1 + x + 1 + l = 2 + x + l + 0
        BY <1>7, <2>2
      <3>4. QED
        BY <2>1, <3>1, <3>2, <3>3
    <2>5. QED
      BY <2>3, <2>4
  <1>11. Spells(words, ArSlots(objs), {target}, OutsOf(g, objs))
    BY <1>9, <1>10
  <1>12. IsSeq(opts.arexts)
    BY DEF OptsOK
  <1>13. QED
    BY <1>1, <1>5, <1>11, <1>12, LinkMade

LEMMA WindresMade ==
    ASSUME OptsOK, NEW g, NEW m, NEW dir, DirGiven(g, m, dir), opts.windres, NEW src, NEW h,
           h = aven_build_common_step_windres(g, src, dir)
    PROVE  Commanded(g, h, m, Target(g[dir].out, fname_base(src), opts.wrexts),
                     {dir}, {}, opts.wrexts)
  <1>1. PICK target : target = Target(g[dir].out, fname_base(src), opts.wrexts)
    OBVIOUS
  <1>2. PICK x : x = opts.wrflags
    OBVIOUS
  <1>3. x \in Nat
    BY <1>2 DEF OptsOK
  <1>4. PICK words : words = Plain(2 + x) \o <<Word("out", target), Word("src", src)>>
    OBVIOUS
  <1>5. Spells(words, 4 + x, {target}, {})
    <2>1. Spells(Plain(2 + x), 2 + x, {}, {})
      BY <1>3, SpellsPlain
    <2>2. PICK w : w = <<Word("out", target), Word("src", src)>>
      OBVIOUS
    <2>3. w = <<Word("out", target)>> \o <<Word("src", src)>>
      BY <2>2
    <2>4. Spells(w, 2, {target}, {})
      <3>1. Spells(<<Word("out", target)>>, 1, {target}, {}) /\ Spells(<<Word("src", src)>>, 1, {}, {})
        BY SpellsOne
      <3>2. QED
        BY <2>3, <3>1, SpellsMore, 1 + 1 = 2
    <2>5. 4 + x = (2 + x) + 2
      BY <1>3
    <2>6. QED
      BY <1>4, <2>1, <2>2, <2>4, <2>5, SpellsMore
  <1>6. PICK cmd : cmd = aven_build_step_add_dep(aven_build_step_cmd(target, words, 4 + x), dir)
    OBVIOUS
  <1>7. h = aven_build_common_step_add_path_deps(g, cmd, dir, fname_base(src), opts.wrexts)
    BY <1>1, <1>2, <1>4, <1>6 DEF aven_build_common_step_windres
  <1>8. Is(cmd, "CMD", {dir}, target, NoPath, {target}, {})
    <2>1. Is(cmd, "CMD", {} \cup {dir}, target, NoPath, {target}, {})
      BY <1>5, <1>6, CmdStep, DependsOn
    <2>2. {} \cup {dir} = {dir}
      OBVIOUS
    <2>3. QED
      BY <2>1, <2>2
  <1>9. target.in = g[dir].out /\ IsFile(target)
    BY <1>1, TargetIn
  <1>10. Asked(g, m, cmd, dir, target, {dir}, {})
    BY <1>8, <1>9 DEF Asked, DirGiven
  <1>11. QED
    BY <1>1, <1>7, <1>10, CommandMade DEF OptsOK, DirGiven
-----------------------------------------------------------------------------
(* The binary that takes the place of its object *)

\* The graph f is l with the output of the step n forgotten.
GivenUp(l, f, m, n) ==
    /\ Made(f, m) /\ Grows(l, f)
    /\ StepsOf(f) = StepsOf(l) /\ Len(f) = Len(l)
    /\ \A s \in StepsOf(l) : s # n => f[s] = l[s]

\* A command whose output is taken over by the step that removes it.
LEMMA GiveUpMade ==
    ASSUME NEW l, NEW k, Made(l, k), NEW n \in StepsOf(l), n = Len(l), l[n].type = "CMD",
           \A d \in DepsOf(l, n) \ k : Products(l, d) = {},
           NEW m, m \subseteq k, n \notin m, NEW f, f = [l EXCEPT ![n].out = NoPath]
    PROVE  GivenUp(l, f, m, n)
  <1>1. IsGraph(l) /\ IsSeq(l) /\ Len(l) \in Nat
    BY SeqAppend DEF Made, IsGraph
  <1>2. DOMAIN l = 1..Len(l) /\ l = [j \in 1..Len(l) |-> l[j]]
    <2>1. PICK S : l \in Seq(S)
      BY <1>1 DEF IsSeq
    <2>2. QED
      BY <2>1
  <1>3. PICK r : r = [l[n] EXCEPT !.out = NoPath]
    OBVIOUS
  <1>4. f = [j \in 1..Len(l) |-> IF j = n THEN r ELSE l[j]]
    BY <1>2, <1>3 DEF StepsOf
  <1>5. /\ f = [j \in 1..Len(l) |-> f[j]]
        /\ f[n] = r
        /\ \A s \in 1..Len(l) : s # n => f[s] = l[s]
    BY <1>4 DEF StepsOf
  <1>6. IsSeq(f) /\ Len(f) = Len(l)
    BY <1>1, <1>5, SeqFunction
  <1>7. StepsOf(f) = StepsOf(l) /\ StepsOf(l) = 1..Len(l)
    BY <1>6 DEF StepsOf
  <1>8. /\ IsStep(r) /\ r.type = l[n].type /\ r.dep = l[n].dep /\ r.words = l[n].words
        /\ r.arg = l[n].arg /\ r.out = NoPath
    <2>1. IsStep(l[n])
      BY DEF Made, Sound
    <2>2. PICK x : x = l[n]
      OBVIOUS
    <2>3. x = [type |-> x.type, dep |-> x.dep, out |-> x.out, arg |-> x.arg,
               words |-> x.words, slots |-> x.slots]
      BY <2>1, <2>2 DEF IsStep
    <2>4. r = [x EXCEPT !.out = NoPath]
      BY <1>3, <2>2
    <2>5. r = [type |-> x.type, dep |-> x.dep, out |-> NoPath, arg |-> x.arg,
               words |-> x.words, slots |-> x.slots]
      BY <2>3, <2>4
    <2>6. /\ r.type = x.type /\ r.dep = x.dep /\ r.words = x.words /\ r.slots = x.slots
          /\ r.arg = x.arg /\ r.out = NoPath
      BY <2>5
    <2>7. r = [type |-> r.type, dep |-> r.dep, out |-> r.out, arg |-> r.arg,
               words |-> r.words, slots |-> r.slots]
      BY <2>5, <2>6
    <2>8. QED
      BY <2>1, <2>2, <2>6, <2>7 DEF IsStep
  <1>9. \A s \in StepsOf(l) : DepsOf(f, s) = DepsOf(l, s)
    <2>1. \A s \in StepsOf(l) : f[s].dep = l[s].dep
      BY <1>5, <1>7, <1>8
    <2>2. QED
      BY <2>1 DEF DepsOf
  <1>10. IsGraph(f)
    BY <1>1, <1>6, <1>7, <1>9 DEF IsGraph
  <1>11. Grows(l, f)
    <2>1. Len(l) <= Len(f)
      BY <1>1, <1>6
    <2>2. \A s \in StepsOf(l) :
            /\ f[s].type = l[s].type /\ f[s].words = l[s].words /\ f[s].arg = l[s].arg
            /\ f[s].out = l[s].out \/ (l[s].type = "CMD" /\ f[s].out = NoPath)
      BY <1>5, <1>7, <1>8
    <2>3. QED
      BY <1>1, <1>9, <1>10, <2>1, <2>2 DEF Grows
  <1>12. \A s \in StepsOf(l) : Sound(f, s)
    <2> TAKE s \in StepsOf(l)
    <2>1. Sound(l, s)
      BY DEF Made
    <2>2. IsStep(f[s])
      BY <1>5, <1>7, <1>8, <2>1 DEF Sound
    <2>3. QED
      BY <1>11, <2>1, <2>2, GrowsSound
  <1>13. ASSUME NEW s \in StepsOf(l), NEW p \in Products(f, s),
                ~ \E t \in Below(f)[s] \cup {s} : f[t].out = p
         PROVE  s \notin m /\ \A q \in StepsOf(f) : s \in DepsOf(f, q) => f[q].out = p
    <2>1. p \in Products(l, s) /\ Below(l)[s] \subseteq Below(f)[s]
      BY <1>11, GrowsKeeps
    <2>2. Below(l)[s] \subseteq StepsOf(l) /\ Below(l)[s] \subseteq 1..(s - 1)
      BY <1>1, BelowFacts
    <2>3. Recorded(l, k, s)
      BY DEF Made
    <2>4. CASE \E t \in Below(l)[s] \cup {s} : l[t].out = p
      <3>1. PICK t \in Below(l)[s] \cup {s} : l[t].out = p
        BY <2>4
      <3>2. t = n
        BY <1>5, <1>7, <1>13, <2>1, <2>2, <3>1
      <3>3. s = n
        <4>1. s \in 1..Len(l)
          BY <1>7
        <4>2. n \in 1..(s - 1) \/ s = n
          BY <2>2, <3>1, <3>2
        <4>3. QED
          BY <1>1, <4>1, <4>2
      <3>4. \A q \in StepsOf(f) : s \notin DepsOf(f, q)
        <4> TAKE q \in StepsOf(f)
        <4>1. DepsOf(f, q) \subseteq 1..(q - 1) /\ q \in 1..Len(l)
          BY <1>7, <1>10 DEF IsGraph
        <4>2. Len(l) \notin 1..(q - 1)
          BY <1>1, <4>1
        <4>3. QED
          BY <3>3, <4>1, <4>2
      <3>5. QED
        BY <3>3, <3>4
    <2>5. CASE ~ \E t \in Below(l)[s] \cup {s} : l[t].out = p
      <3>1. s \notin k /\ \A q \in StepsOf(l) : s \in DepsOf(l, q) => l[q].out = p
        BY <2>1, <2>3, <2>5 DEF Recorded
      <3>2. s \notin DepsOf(l, n)
        BY <2>1, <3>1
      <3>3. QED
        BY <1>5, <1>7, <1>9, <3>1, <3>2
    <2>6. QED
      BY <2>4, <2>5
  <1>14. \A s \in StepsOf(l) : Recorded(f, m, s)
    BY <1>13 DEF Recorded
  <1>15. Made(f, m)
    BY <1>7, <1>10, <1>12, <1>14 DEF Made
  <1>16. QED
    BY <1>5, <1>6, <1>7, <1>11, <1>15 DEF GivenUp

\* A file that a step makes new was not removed before.
LEMMA NewNotRemoved ==
    ASSUME NEW g, NEW m, NEW e, Lasts(g, m, e), NEW h, Grows(g, h), Distinct(h),
           NEW s \in StepsOf(h), s \notin StepsOf(g), NEW p \in Outputs(h, s)
    PROVE  p \notin Removed(g)
  <1> SUFFICES ASSUME p \in Removed(g)
               PROVE  FALSE
    OBVIOUS
  <1>1. PICK o \in StepsOf(g) : p \in Outputs(g, o)
    BY DEF Lasts, Builds
  <1>2. o \in StepsOf(h) /\ p \in Outputs(h, o)
    BY <1>1, GrowsKeeps
  <1>3. o # s
    OBVIOUS
  <1>4. QED
    BY <1>2, <1>3 DEF Distinct

\* And no older step makes it or reads it, unless it is a side file.
LEMMA NewNotTouched ==
    ASSUME NEW g, NEW m, Made(g, m), NEW e, Lasts(g, m, e), NEW h, Grows(g, h), Distinct(h),
           NEW s \in StepsOf(h), s \notin StepsOf(g), NEW p \in Outputs(h, s), p.ext = e,
           NEW t \in StepsOf(g)
    PROVE  p \notin Products(g, t) \cup Inputs(g, t)
  <1>1. ASSUME NEW u \in StepsOf(g)
        PROVE  p \notin Products(g, u)
    <2>1. u \in StepsOf(h) /\ Outputs(h, u) = Outputs(g, u) /\ u # s
      BY GrowsKeeps
    <2>2. p \notin Outputs(g, u)
      BY <2>1 DEF Distinct
    <2>3. DepsOf(g, u) \subseteq StepsOf(g)
      <3>1. DepsOf(g, u) \subseteq 1..(u - 1) /\ u \in 1..Len(g) /\ Len(g) \in Nat
        BY SeqAppend DEF Made, IsGraph, StepsOf
      <3>2. QED
        BY <3>1 DEF StepsOf
    <2>4. \A d \in DepsOf(g, u) : g[d].type = "PATH" => g[d].out # p
      BY <2>3 DEF Lasts
    <2>5. QED
      BY <2>2, <2>4 DEF Products
  <1>2. p \notin Inputs(g, t)
    <2>1. \A q \in Inputs(g, t) : \E u \in Below(g)[t] : q \in Products(g, u)
      BY DEF Made, Sound, Builds, Products
    <2>2. Below(g)[t] \subseteq StepsOf(g)
      BY BelowFacts DEF Made
    <2>3. QED
      BY <1>1, <2>1, <2>2
  <1>3. QED
    BY <1>1, <1>2

\* What a command writes was made by no older step.
LEMMA CommandIsNew ==
    ASSUME NEW g, NEW h, NEW m, NEW target, NEW deps, NEW ins, NEW exts,
           Commanded(g, h, m, target, deps, ins, exts), NEW n, n = Len(h)
    PROVE  n \in StepsOf(h) /\ n \notin StepsOf(g)
  <1>1. Len(g) \in Nat /\ n \in Nat /\ n > Len(g)
    BY DEF Commanded
  <1>2. n \in 1..Len(h) /\ n \notin 1..Len(g)
    BY <1>1
  <1>3. QED
    BY <1>2 DEF StepsOf

\* The step that removes an object after the link comes last for it.
LEMMA RemoveLasts ==
    ASSUME NEW g, NEW m, Made(g, m), NEW e, Lasts(g, m, e),
           NEW c, NEW obj, obj = Len(c), NEW objt, NEW odeps, NEW exts1,
           Commanded(g, c, m, objt, odeps, {}, exts1),
           NEW l, NEW bin, bin = Len(l), NEW bint, NEW deps, obj \in deps, NEW ins, NEW exts2,
           Commanded(c, l, m \cup {obj}, bint, deps, ins, exts2),
           NEW f, Made(f, m), Grows(l, f), StepsOf(f) = StepsOf(l),
           \A s \in StepsOf(l) : s # bin => f[s] = l[s],
           NEW r, Is(r, "RM", {bin}, bint, objt, {}, {}), Fits(f, m, r),
           NEW h, h = Append(f, r), Distinct(h),
           objt.ext = e, e \notin Extra(exts1), e \notin Extra(exts2),
           (ins \ {objt}) \cap Removed(g) = {}
    PROVE  Lasts(h, m \cup {Len(h)}, e) /\ bint \notin Removed(h)
  <1>1. /\ Grows(g, c) /\ Outputs(c, obj) = {objt} /\ Removed(c) = Removed(g)
        /\ Made(c, m \cup {obj}) /\ obj \in StepsOf(c) /\ obj \notin StepsOf(g)
        /\ c[obj].type = "CMD" /\ \A s \in StepsOf(g) : c[s] = g[s]
        /\ \A s \in StepsOf(c) \ StepsOf(g) : s # obj => Products(c, s) = {} /\ Inputs(c, s) = {}
    <2>1. obj \in StepsOf(c) /\ obj \notin StepsOf(g)
      BY CommandIsNew
    <2>2. QED
      BY <2>1 DEF Commanded
  <1>2. /\ Grows(c, l) /\ Outputs(l, bin) = {bint} /\ Removed(l) = Removed(c)
        /\ Made(l, m \cup {obj} \cup {bin}) /\ bin \in StepsOf(l) /\ bin \notin StepsOf(c)
        /\ l[bin].type = "CMD"
        /\ \A s \in StepsOf(c) : l[s] = c[s]
        /\ \A s \in StepsOf(l) \ StepsOf(c) : s # bin => Products(l, s) = {} /\ Inputs(l, s) = {}
        /\ deps \subseteq DepsOf(l, bin)
    <2>1. bin \in StepsOf(l) /\ bin \notin StepsOf(c)
      BY CommandIsNew
    <2>2. QED
      BY <2>1 DEF Commanded
  <1>3. PICK n : n = Len(h)
    OBVIOUS
  <1>4. OneMore(f, h, r)
    <2>1. IsGraph(f) /\ DepSet(r) \subseteq StepsOf(f)
      BY DEF Made, Fits
    <2>2. QED
      BY <2>1, AppendGrows
  <1>5. /\ Grows(f, h) /\ StepsOf(h) = StepsOf(l) \cup {n}
        /\ h[n] = r /\ \A s \in StepsOf(l) : h[s] = f[s]
        /\ Below(h)[n] = BelowNew(f, r)
        /\ Inputs(h, n) = InputsOf(r) /\ Products(h, n) = ProductsOf(f, r)
    BY <1>3, <1>4 DEF OneMore
  <1>6. /\ r.type = "RM" /\ r.out = bint /\ r.arg = objt /\ DepSet(r) = {bin}
        /\ InputsOf(r) = {} /\ ProductsOf(f, r) = {}
    BY DEF Is, InputsOf, ProductsOf, OutputsOf
  <1>7. Distinct(f) /\ Distinct(l) /\ Distinct(c)
    <2>1. Distinct(f)
      BY <1>5, GrowsDistinct
    <2>2. Distinct(l)
      BY <2>1, GrowsDistinct
    <2>3. Distinct(c)
      BY <1>2, <2>2, GrowsDistinct
    <2>4. QED
      BY <2>1, <2>2, <2>3
  <1>8. objt \notin Removed(g)
    BY <1>1, <1>7, NewNotRemoved
  <1>9. Lasts(c, m \cup {obj}, e)
    <2>1. {} \cap Removed(g) = {}
      OBVIOUS
    <2>2. QED
      BY <1>7, <2>1 DEF Commanded
  <1>10. Lasts(l, m \cup {obj} \cup {bin}, e)
    <2>1. ins \cap Removed(c) = {}
      BY <1>1, <1>8
    <2>2. QED
      BY <1>7, <1>9, <2>1 DEF Commanded
  <1>11. bint \notin Removed(g) /\ bint # objt
    <2>1. bint \notin Removed(c)
      BY <1>2, <1>7, <1>9, NewNotRemoved
    <2>2. obj \in StepsOf(l) /\ Outputs(l, obj) = {objt}
      BY <1>1, <1>2, GrowsKeeps
    <2>3. obj # bin
      BY <1>1, <1>2
    <2>4. Outputs(l, obj) \cap Outputs(l, bin) = {}
      BY <1>2, <1>7, <2>2, <2>3 DEF Distinct
    <2>5. QED
      BY <1>1, <1>2, <2>1, <2>2, <2>4
  <1>12. \A s \in StepsOf(l) :
            /\ s \in StepsOf(h)
            /\ Inputs(h, s) = Inputs(l, s) /\ Outputs(h, s) = Outputs(l, s)
            /\ Products(h, s) = Products(l, s) /\ Below(l)[s] \subseteq Below(h)[s]
    <2> TAKE s \in StepsOf(l)
    <2>1. /\ s \in StepsOf(f) /\ Inputs(f, s) = Inputs(l, s) /\ Outputs(f, s) = Outputs(l, s)
          /\ Products(f, s) = Products(l, s) /\ Below(l)[s] \subseteq Below(f)[s]
      BY GrowsKeeps
    <2>2. /\ s \in StepsOf(h) /\ Inputs(h, s) = Inputs(f, s) /\ Outputs(h, s) = Outputs(f, s)
          /\ Products(h, s) = Products(f, s) /\ Below(f)[s] \subseteq Below(h)[s]
      BY <1>5, <2>1, GrowsKeeps
    <2>3. QED
      BY <2>1, <2>2
  <1>13. Removed(h) = Removed(g) \cup {objt}
    <2>1. {q \in StepsOf(h) : h[q].type = "RM"} = {q \in StepsOf(l) : l[q].type = "RM"} \cup {n}
      <3>1. h[n].type = "RM" /\ n \in StepsOf(h)
        BY <1>5, <1>6
      <3>2. \A s \in StepsOf(l) : h[s].type = l[s].type
        BY <1>5 DEF Grows
      <3>3. QED
        BY <1>5, <3>1, <3>2
    <2>2. \A s \in StepsOf(l) : h[s].arg = l[s].arg
      BY <1>5 DEF Grows
    <2>3. h[n].arg = objt
      BY <1>5, <1>6
    <2>4. Removed(h) = Removed(l) \cup {objt}
      <3>1. PICK T : T = {q \in StepsOf(l) : l[q].type = "RM"}
        OBVIOUS
      <3>2. Removed(l) = {l[q].arg : q \in T} /\ Removed(h) = {h[q].arg : q \in T \cup {n}}
        BY <2>1, <3>1 DEF Removed
      <3>3. \A q \in T : h[q].arg = l[q].arg
        BY <2>2, <3>1
      <3>4. objt \in Removed(h)
        <4>1. n \in T \cup {n} /\ h[n].arg = objt
          BY <2>3
        <4>2. QED
          BY <3>2, <4>1
      <3>5. ASSUME NEW p \in Removed(l)
            PROVE  p \in Removed(h)
        <4>1. PICK q \in T : p = l[q].arg
          BY <3>2
        <4>2. QED
          BY <3>2, <3>3, <4>1
      <3>6. ASSUME NEW p \in Removed(h)
            PROVE  p \in Removed(l) \cup {objt}
        <4>1. PICK q \in T \cup {n} : p = h[q].arg
          BY <3>2
        <4>2. CASE q \in T
          BY <3>2, <3>3, <4>1, <4>2
        <4>3. CASE q = n
          BY <2>3, <4>1, <4>3
        <4>4. QED
          BY <4>1, <4>2, <4>3
      <3>7. QED
        BY <3>4, <3>5, <3>6
    <2>5. QED
      BY <1>1, <1>2, <2>4
  <1>14. \A s \in StepsOf(h) : h[s].type = "PATH" => h[s].out.ext # e
    <2> SUFFICES ASSUME NEW s \in StepsOf(h), h[s].type = "PATH"
                 PROVE  h[s].out.ext # e
      OBVIOUS
    <2>1. s \in StepsOf(l)
      BY <1>5, <1>6
    <2>2. h[s].type = l[s].type
      BY <1>5, <2>1 DEF Grows
    <2>3. h[s] = l[s]
      BY <1>2, <1>5, <2>1, <2>2
    <2>4. QED
      BY <1>10, <2>1, <2>3 DEF Lasts
  <1>a. \A t \in StepsOf(l) : h[t].type = l[t].type /\ h[t].arg = l[t].arg
    BY <1>5 DEF Grows
  <1>15. \A p \in Removed(h) : p.ext = e /\ \E o \in StepsOf(h) : Builds(h, o, p)
    <2> TAKE p \in Removed(h)
    <2>1. CASE p = objt
      <3>1. obj \in StepsOf(l) /\ Outputs(l, obj) = {objt} /\ l[obj].type = "CMD"
        BY <1>1, <1>2, GrowsKeeps
      <3>2. QED
        BY <1>12, <1>a, <2>1, <3>1 DEF Builds
    <2>2. CASE p # objt
      <3>1. p \in Removed(l)
        BY <1>1, <1>2, <1>13, <2>2
      <3>2. p.ext = e
        BY <1>10, <3>1 DEF Lasts
      <3>3. PICK o \in StepsOf(l) : Builds(l, o, p)
        BY <1>10, <3>1 DEF Lasts
      <3>4. QED
        BY <1>12, <1>a, <3>2, <3>3 DEF Builds
    <2>3. QED
      BY <2>1, <2>2
  <1>b. ASSUME NEW q \in StepsOf(h), NEW s \in StepsOf(h),
               h[q].type = "RM", h[s].type = "RM", h[q].arg = h[s].arg
        PROVE  q = s
    <2>1. \A t \in StepsOf(l) : h[t].type = "RM" => l[t].type = "RM" /\ h[t].arg # objt
      <3> TAKE t \in StepsOf(l)
      <3> SUFFICES ASSUME h[t].type = "RM"
                   PROVE  l[t].type = "RM" /\ h[t].arg # objt
        OBVIOUS
      <3>1. l[t].type = "RM" /\ l[t].arg \in Removed(l)
        BY <1>a DEF Removed
      <3>2. QED
        BY <1>1, <1>2, <1>8, <1>a, <3>1
    <2>2. h[n].arg = objt
      BY <1>5, <1>6
    <2>3. CASE q \in StepsOf(l) /\ s \in StepsOf(l)
      BY <1>10, <1>a, <1>b, <2>1, <2>3 DEF Lasts
    <2>4. CASE ~ (q \in StepsOf(l) /\ s \in StepsOf(l))
      BY <1>5, <1>b, <2>1, <2>2, <2>4
    <2>5. QED
      BY <2>3, <2>4
  <1>16. ASSUME NEW s \in m \cup {n}, Linkable(h, s)
         PROVE  h[s].out \notin Removed(h)
    <2>1. CASE s = n
      BY <1>5, <1>6, <1>11, <1>13, <2>1
    <2>2. CASE s # n
      <3>1. s \in m /\ s \in StepsOf(g)
        BY <2>2 DEF Made
      <3>2. s \in StepsOf(c) /\ s \in StepsOf(l)
        BY <1>1, <1>2, <3>1, GrowsKeeps
      <3>3. h[s] = g[s]
        BY <1>1, <1>2, <1>5, <3>1, <3>2
      <3>4. g[s].out \notin Removed(g)
        BY <1>16, <3>1, <3>3 DEF Lasts, Linkable
      <3>5. PICK t \in Below(g)[s] \cup {s} : g[s].out \in Outputs(g, t)
        BY <1>16, <3>1, <3>3 DEF Made, Sound, Linkable
      <3>6. t \in StepsOf(g)
        BY <3>1, <3>5, BelowFacts DEF Made
      <3>7. t \in StepsOf(c) /\ Outputs(c, t) = Outputs(g, t) /\ t # obj
        BY <1>1, <3>6, GrowsKeeps
      <3>8. g[s].out # objt
        BY <1>1, <1>7, <3>5, <3>7 DEF Distinct
      <3>9. QED
        BY <1>13, <3>3, <3>4, <3>8
    <2>3. QED
      BY <2>1, <2>2
  <1>17. ASSUME NEW s \in StepsOf(l), objt \in Products(l, s) \cup Inputs(l, s)
         PROVE  s \in {obj, bin}
    <2> SUFFICES ASSUME s # obj, s # bin
                 PROVE  FALSE
      OBVIOUS
    <2>1. s \in StepsOf(c)
      BY <1>2, <1>17
    <2>2. objt \in Products(c, s) \cup Inputs(c, s)
      BY <1>2, <1>17, <2>1, GrowsKeeps
    <2>3. s \in StepsOf(g)
      BY <1>1, <2>1, <2>2
    <2>4. objt \in Products(g, s) \cup Inputs(g, s)
      BY <1>1, <2>2, <2>3, GrowsKeeps
    <2>5. objt \notin Products(g, s) \cup Inputs(g, s)
      BY <1>1, <1>7, <2>3, NewNotTouched
    <2>6. QED
      BY <2>4, <2>5
  <1>18. obj \in Below(h)[n] /\ bin \in Below(h)[n]
    <2>1. bin \in BelowNew(f, r) /\ Below(f)[bin] \subseteq BelowNew(f, r)
      BY <1>6 DEF BelowNew
    <2>2. DepsOf(l, bin) \subseteq Below(l)[bin]
      BY <1>2, BelowFacts DEF Made
    <2>3. Below(l)[bin] \subseteq Below(f)[bin]
      BY <1>2, GrowsKeeps
    <2>4. QED
      BY <1>2, <1>5, <2>1, <2>2, <2>3
  <1>19. ASSUME NEW q \in StepsOf(h), NEW s \in StepsOf(h), h[q].type = "RM",
                h[q].arg \in Products(h, s) \cup Inputs(h, s)
         PROVE  s \in Below(h)[q]
    <2>1. s \in StepsOf(l)
      BY <1>5, <1>6, <1>19
    <2>2. h[q].arg \in Products(l, s) \cup Inputs(l, s)
      BY <1>12, <1>19, <2>1
    <2>3. CASE q = n
      BY <1>5, <1>6, <1>17, <1>18, <2>1, <2>2, <2>3
    <2>4. CASE q # n
      <3>1. q \in StepsOf(l)
        BY <1>5, <2>4
      <3>2. l[q].type = "RM" /\ l[q].arg = h[q].arg
        BY <1>5, <1>19, <3>1 DEF Grows
      <3>3. s \in Below(l)[q]
        BY <1>10, <2>1, <2>2, <3>1, <3>2 DEF Lasts
      <3>4. QED
        BY <1>12, <3>1, <3>3
    <2>5. QED
      BY <2>3, <2>4
  <1>20. Lasts(h, m \cup {n}, e)
    BY <1>3, <1>14, <1>15, <1>b, <1>16, <1>19 DEF Lasts
  <1>21. QED
    BY <1>3, <1>11, <1>13, <1>20

\* The extension of the objects that are removed, and that it is not that of
\* a side file.
Removable == FirstOf(opts.obexts)
ExtsApart == \A exts \in {opts.obexts, opts.exexts, opts.soexts, opts.arexts, opts.wrexts} :
    Removable \notin Extra(exts)

\* What aven_build_common_step_cc_ld leaves.
Linked(g, h, m, objs) ==
    /\ Made(h, m \cup {Len(h)})
    /\ h[Len(h)].type = "RM" /\ Provides(h, Len(h), h[Len(h)].out)
    /\ Lasts(g, m, Removable) /\ ExtsApart /\ Distinct(h) /\ OutsOf(g, objs) \cap Removed(g) = {}
        => Lasts(h, m \cup {Len(h)}, Removable) /\ h[Len(h)].out \notin Removed(h)

\* A file provided below a step still is when the graph has grown.
LEMMA ProvidesKept ==
    ASSUME NEW g, NEW h, Grows(g, h), NEW d \in StepsOf(g), h[d] = g[d], NEW p, Provides(g, d, p)
    PROVE  Provides(h, d, p)
  <1>1. PICK t \in Below(g)[d] \cup {d} : Builds(g, t, p)
    BY DEF Provides
  <1>2. t \in StepsOf(g)
    BY <1>1, BelowFacts DEF Grows
  <1>3. t \in Below(h)[d] \cup {d} /\ Outputs(h, t) = Outputs(g, t) /\ h[t].type = g[t].type
    BY <1>1, <1>2, GrowsKeeps DEF Grows
  <1>4. QED
    BY <1>1, <1>3 DEF Provides, Builds

\* The sequence s is t with e before it.
IsCons(e, t, s) ==
    /\ IsSeq(s) /\ Len(s) = 1 + Len(t) /\ Len(t) \in Nat
    /\ \A k \in 1..Len(s) : s[k] = e \/ \E j \in 1..Len(t) : s[k] = t[j]
    /\ s[1] = e /\ \A k \in 1..Len(t) : s[k + 1] = t[k]

\* A sequence with one element put before it.
LEMMA SeqCons ==
    ASSUME NEW e, NEW t, IsSeq(t), NEW s, s = <<e>> \o t
    PROVE  IsCons(e, t, s)
  <1>1. PICK one : one = <<e>>
    OBVIOUS
  <1>2. IsSeq(one) /\ Len(one) = 1 /\ one[1] = e
    <2>1. one \in Seq({e}) /\ Len(one) = 1 /\ one[1] = e
      BY <1>1
    <2>2. QED
      BY <2>1 DEF IsSeq
  <1>3. s = one \o t
    BY <1>1
  <1>4. /\ IsSeq(s) /\ Len(t) \in Nat /\ Len(s) = Len(one) + Len(t)
        /\ \A k \in 1..Len(one) : s[k] = one[k]
        /\ \A k \in 1..Len(t) : s[Len(one) + k] = t[k]
    <2>1. /\ IsSeq(one \o t) /\ Len(t) \in Nat /\ Len(one \o t) = Len(one) + Len(t)
          /\ \A k \in 1..Len(one) : (one \o t)[k] = one[k]
          /\ \A k \in 1..Len(t) : (one \o t)[Len(one) + k] = t[k]
      <3>1. IsSeq(one)
        BY <1>2
      <3>2. QED
        BY <3>1, SeqConcat
    <2>2. QED
      BY <1>3, <2>1
  <1>5. /\ IsSeq(s) /\ Len(t) \in Nat /\ Len(s) = 1 + Len(t)
        /\ s[1] = e /\ \A k \in 1..Len(t) : s[1 + k] = t[k]
    BY <1>2, <1>4
  <1>6. \A k \in 1..Len(s) : k = 1 \/ (k - 1 \in 1..Len(t) /\ k = 1 + (k - 1))
    BY <1>5
  <1>7. \A k \in 1..Len(t) : k + 1 = 1 + k
    BY <1>5
  <1>8. QED
    BY <1>5, <1>6, <1>7 DEF IsCons

\* A source compiled and linked with other objects, and its object removed.
LEMMA CcLdMade ==
    ASSUME OptsOK, NEW g, NEW m, NEW dir, DirGiven(g, m, dir), NEW objs, ObjsGiven(g, m, objs),
           NEW incs \in Nat, NEW macros \in Nat, NEW libs \in Nat, NEW kind \in BinType,
           NEW src, NEW h,
           h = aven_build_common_step_cc_ld(g, incs, macros, libs, objs, src, dir, kind)
    PROVE  Linked(g, h, m, objs)
  <1>1. PICK c : c = aven_build_common_step_cc_ex(g, incs, macros, src, dir)
    OBVIOUS
  <1>2. PICK obj : obj = Len(c)
    OBVIOUS
  <1>3. PICK all : all = <<obj>> \o objs
    OBVIOUS
  <1>4. PICK base : base = fname_base(c[obj].out)
    OBVIOUS
  <1>5. PICK l : l = aven_build_common_step_ld(c, libs, all, dir, base, kind)
    OBVIOUS
  <1>6. PICK bin : bin = Len(l)
    OBVIOUS
  <1>7. PICK f : f = [l EXCEPT ![bin].out = NoPath]
    OBVIOUS
  <1>8. PICK r : r = RmObj(l, obj, bin)
    OBVIOUS
  <1>9. h = Append(f, r)
    BY <1>1, <1>2, <1>3, <1>4, <1>5, <1>6, <1>7, <1>8 DEF aven_build_common_step_cc_ld
  <1>10. PICK objt : objt = CcTarget(g, src, dir)
    OBVIOUS
  <1>11. Commanded(g, c, m, objt, {dir}, {}, opts.obexts)
    BY <1>1, <1>10, CcMade
  <1>12. /\ obj \in StepsOf(c) /\ obj \notin StepsOf(g)
         /\ Made(c, m \cup {obj}) /\ Grows(g, c)
         /\ c[obj].type = "CMD" /\ c[obj].out = objt /\ Outputs(c, obj) = {objt}
         /\ \A s \in StepsOf(g) : c[s] = g[s]
    <2>1. obj \in StepsOf(c) /\ obj \notin StepsOf(g)
      BY <1>2, <1>11, CommandIsNew
    <2>2. QED
      BY <1>2, <1>11, <2>1 DEF Commanded
  <1>13. m \subseteq StepsOf(g) /\ dir \in StepsOf(g)
    BY DEF DirGiven, Made
  <1>14. DirGiven(c, m \cup {obj}, dir)
    BY <1>12, <1>13 DEF DirGiven
  <1>15. /\ IsSeq(all) /\ Len(all) = 1 + Len(objs) /\ Len(objs) \in Nat
         /\ \A k \in 1..Len(all) : all[k] = obj \/ \E j \in 1..Len(objs) : all[k] = objs[j]
         /\ all[1] = obj /\ \A k \in 1..Len(objs) : all[k + 1] = objs[k]
    <2>1. IsCons(obj, objs, all)
      BY <1>3, SeqCons DEF ObjsGiven
    <2>2. QED
      BY <2>1 DEF IsCons
  <1>16. Provides(c, obj, objt)
    BY <1>12 DEF Provides, Builds
  <1>17. \A k \in 1..Len(objs) : /\ objs[k] \in m /\ objs[k] \in StepsOf(g)
                                 /\ c[objs[k]] = g[objs[k]]
                                 /\ Provides(c, objs[k], c[objs[k]].out)
                                 /\ c[objs[k]].type # "PATH"
    <2> TAKE k \in 1..Len(objs)
    <2>1. objs[k] \in m /\ g[objs[k]].type # "PATH" /\ Provides(g, objs[k], g[objs[k]].out)
      BY DEF ObjsGiven
    <2>2. objs[k] \in StepsOf(g) /\ c[objs[k]] = g[objs[k]]
      BY <1>12, <1>13, <2>1
    <2>3. Provides(c, objs[k], g[objs[k]].out)
      BY <1>12, <2>1, <2>2, ProvidesKept
    <2>4. QED
      BY <2>1, <2>2, <2>3
  <1>18. ObjsGiven(c, m \cup {obj}, all)
    <2>1. ASSUME NEW k \in 1..Len(all)
          PROVE  /\ all[k] \in m \cup {obj} /\ c[all[k]].type # "PATH"
                 /\ Provides(c, all[k], c[all[k]].out)
      <3>1. CASE all[k] = obj
        BY <1>12, <1>16, <3>1
      <3>2. CASE \E j \in 1..Len(objs) : all[k] = objs[j]
        BY <1>17, <3>2
      <3>3. QED
        BY <1>15, <3>1, <3>2
    <2>2. QED
      BY <1>15, <2>1 DEF ObjsGiven
  <1>19. PICK bint : bint = Target(c[dir].out, base, LdExts(kind))
    OBVIOUS
  <1>20. PICK deps : deps = Elements(all) \cup {dir}
    OBVIOUS
  <1>21. PICK ins : ins = OutsOf(c, all)
    OBVIOUS
  <1>22. Commanded(c, l, m \cup {obj}, bint, deps, ins, LdExts(kind))
    BY <1>5, <1>14, <1>18, <1>19, <1>20, <1>21, LdMade
  <1>23. obj \in deps /\ deps \subseteq m \cup {obj} /\ deps \subseteq StepsOf(c)
    <2>1. 1 \in 1..Len(all)
      BY <1>15
    <2>2. obj \in Elements(all)
      BY <1>15, <2>1 DEF Elements
    <2>3. Elements(all) \subseteq m \cup {obj}
      BY <1>18 DEF ObjsGiven, Elements
    <2>4. QED
      BY <1>12, <1>14, <1>20, <2>2, <2>3 DEF DirGiven, Made
  <1>24. ins \subseteq OutsOf(g, objs) \cup {objt}
    <2> SUFFICES ASSUME NEW k \in 1..Len(all)
                 PROVE  c[all[k]].out \in OutsOf(g, objs) \cup {objt}
      BY <1>21 DEF OutsOf
    <2>1. CASE all[k] = obj
      BY <1>12, <2>1
    <2>2. CASE \E j \in 1..Len(objs) : all[k] = objs[j]
      BY <1>17, <2>2 DEF OutsOf
    <2>3. QED
      BY <1>15, <2>1, <2>2
  <1>25. /\ bin \in StepsOf(l) /\ bin \notin StepsOf(c)
         /\ Made(l, m \cup {obj} \cup {bin}) /\ Grows(c, l)
         /\ l[bin].type = "CMD" /\ l[bin].out = bint /\ Outputs(l, bin) = {bint}
         /\ DepsOf(l, bin) \cap StepsOf(c) \subseteq deps
         /\ \A s \in StepsOf(c) : l[s] = c[s]
         /\ \A s \in StepsOf(l) \ StepsOf(c) : s # bin => Products(l, s) = {} /\ Inputs(l, s) = {}
    <2>1. bin \in StepsOf(l) /\ bin \notin StepsOf(c)
      BY <1>6, <1>22, CommandIsNew
    <2>2. QED
      BY <1>6, <1>22, <2>1 DEF Commanded
  <1>26. /\ Made(f, m) /\ Grows(l, f) /\ StepsOf(f) = StepsOf(l)
         /\ \A s \in StepsOf(l) : s # bin => f[s] = l[s]
    <2>1. \A d \in DepsOf(l, bin) \ (m \cup {obj} \cup {bin}) : Products(l, d) = {}
      <3> TAKE d \in DepsOf(l, bin) \ (m \cup {obj} \cup {bin})
      <3>1. d \notin StepsOf(c)
        BY <1>23, <1>25
      <3>2. d \in StepsOf(l)
        <4>1. DepsOf(l, bin) \subseteq Below(l)[bin] /\ Below(l)[bin] \subseteq StepsOf(l)
          BY <1>25, BelowFacts DEF Made
        <4>2. QED
          BY <4>1
      <3>3. QED
        BY <1>25, <3>1, <3>2
    <2>2. m \subseteq m \cup {obj} \cup {bin}
      OBVIOUS
    <2>3. bin \notin m
      BY <1>12, <1>13, <1>25, GrowsKeeps
    <2>4. GivenUp(l, f, m, bin)
      BY <1>6, <1>7, <1>25, <2>1, <2>2, <2>3, GiveUpMade
    <2>5. QED
      BY <2>4 DEF GivenUp
  <1>27. l[obj].out = objt
    BY <1>12, <1>25
  <1>28. Is(r, "RM", {bin}, bint, objt, {}, {})
    <2>1. PICK x : x = aven_build_step_add_dep(aven_build_step_rm(l[obj].out), bin)
      OBVIOUS
    <2>2. Is(x, "RM", {} \cup {bin}, NoPath, objt, {}, {})
      BY <1>27, <2>1, "RM" \in Kinds, NewStep, DependsOn DEF aven_build_step_rm, Kinds
    <2>3. r = [x EXCEPT !.out = bint]
      BY <1>8, <1>25, <2>1 DEF RmObj
    <2>4. x = [type |-> x.type, dep |-> x.dep, out |-> x.out, arg |-> x.arg,
               words |-> x.words, slots |-> x.slots]
      BY <2>2 DEF Is, IsStep
    <2>5. r = [type |-> x.type, dep |-> x.dep, out |-> bint, arg |-> x.arg,
               words |-> x.words, slots |-> x.slots]
      BY <2>3, <2>4
    <2>6. /\ r.type = x.type /\ r.dep = x.dep /\ r.out = bint /\ r.arg = x.arg
          /\ r.words = x.words /\ r.slots = x.slots
      BY <2>5
    <2>7. r = [type |-> r.type, dep |-> r.dep, out |-> r.out, arg |-> r.arg,
               words |-> r.words, slots |-> r.slots]
      BY <2>5, <2>6
    <2>8. IsStep(r) /\ DepSet(r) = DepSet(x)
      BY <2>2, <2>6, <2>7 DEF Is, IsStep, DepSet
    <2>9. DepSet(x) = {bin}
      BY <2>2 DEF Is
    <2>10. QED
      BY <2>2, <2>6, <2>8, <2>9 DEF Is
  <1>29. Fits(f, m, r)
    <2>1. /\ IsStep(r) /\ DepSet(r) = {bin} /\ r.out = bint /\ r.type = "RM"
          /\ InputsOf(r) = {} /\ ProductsOf(f, r) = {}
      BY <1>28 DEF Is, InputsOf, ProductsOf, OutputsOf
    <2>2. Products(f, bin) = Products(l, bin) /\ Outputs(f, bin) = {bint}
          /\ Below(l)[bin] \subseteq Below(f)[bin]
      BY <1>25, <1>26, GrowsKeeps
    <2>3. ASSUME NEW p \in Products(f, bin)
          PROVE  r.out = p \/ \E t \in Below(f)[bin] \cup {bin} : f[t].out = p
      <3>1. Recorded(l, m \cup {obj} \cup {bin}, bin)
        BY <1>25 DEF Made
      <3>2. PICK t \in Below(l)[bin] \cup {bin} : l[t].out = p
        BY <2>2, <2>3, <3>1 DEF Recorded
      <3>3. CASE t = bin
        BY <1>25, <2>1, <3>2, <3>3
      <3>4. CASE t # bin
        <4>1. t \in StepsOf(l)
          BY <1>25, <3>2, <3>4, BelowFacts DEF Made
        <4>2. f[t].out = p
          BY <1>26, <3>2, <3>4, <4>1
        <4>3. QED
          BY <2>2, <3>2, <4>2
      <3>5. QED
        BY <3>3, <3>4
    <2>4. bin \in BelowNew(f, r)
      BY <2>1 DEF BelowNew
    <2>5. Builds(f, bin, r.out)
      BY <1>25, <1>26, <2>1, <2>2 DEF Builds, Grows
    <2>6. DepSet(r) \subseteq StepsOf(f)
      BY <1>25, <1>26, <2>1
    <2>8. PlacedNew(f, r)
      BY <1>28 DEF PlacedNew, Is, OutputsOf
    <2>7. QED
      BY <2>1, <2>3, <2>4, <2>5, <2>6, <2>8 DEF Fits
  <1>30. Made(h, m \cup {Len(h)}) /\ OneMore(f, h, r)
    <2>1. IsGraph(f) /\ DepSet(r) \subseteq StepsOf(f)
      BY <1>26, <1>29 DEF Made, Fits
    <2>2. OneMore(f, h, r)
      BY <1>9, <2>1, AppendGrows
    <2>3. QED
      BY <1>9, <1>26, <1>29, <2>2, AppendMade
  <1>31. h[Len(h)] = r /\ r.type = "RM" /\ r.out = bint
    BY <1>28, <1>30 DEF OneMore, Is
  <1>32. Provides(h, Len(h), bint)
    <2>1. /\ Grows(f, h) /\ Below(h)[Len(h)] = BelowNew(f, r) /\ DepSet(r) = {bin}
      BY <1>28, <1>30 DEF OneMore, Is
    <2>2. bin \in Below(h)[Len(h)]
      BY <2>1 DEF BelowNew
    <2>3. Outputs(f, bin) = {bint}
      BY <1>25, <1>26, GrowsKeeps
    <2>4. Outputs(h, bin) = {bint}
      BY <1>25, <1>26, <2>1, <2>3, GrowsKeeps
    <2>6. h[bin].type = "CMD"
      BY <1>25, <1>26, <2>1 DEF Grows
    <2>5. QED
      BY <1>31, <2>2, <2>4, <2>6 DEF Provides, Builds
  <1>33. ASSUME Lasts(g, m, Removable), ExtsApart, Distinct(h),
                OutsOf(g, objs) \cap Removed(g) = {}
         PROVE  Lasts(h, m \cup {Len(h)}, Removable) /\ bint \notin Removed(h)
    <2>1. PICK e : e = Removable
      OBVIOUS
    <2>2. e \notin Extra(opts.obexts) /\ e \notin Extra(LdExts(kind))
      BY <1>33, <2>1 DEF ExtsApart, LdExts
    <2>3. objt.ext = e
      <3>1. objt = Target(g[dir].out, fname_base(src), opts.obexts)
        BY <1>10 DEF CcTarget
      <3>2. objt.ext = FirstOf(opts.obexts)
        BY <3>1, TargetExt
      <3>3. QED
        BY <2>1, <3>2 DEF Removable
    <2>4. (ins \ {objt}) \cap Removed(g) = {}
      BY <1>24, <1>33
    <2>5. Made(g, m)
      BY DEF DirGiven
    <2>6. Lasts(g, m, e)
      BY <1>33, <2>1
    <2>7. Lasts(h, m \cup {Len(h)}, e) /\ bint \notin Removed(h)
      BY ZenonT(30), <1>2, <1>6, <1>9, <1>11, <1>22, <1>23, <1>26, <1>28, <1>29, <1>33,
         <2>2, <2>3, <2>4, <2>5, <2>6, RemoveLasts
    <2>8. QED
      BY <2>1, <2>7
  <1>34. QED
    BY <1>30, <1>31, <1>32, <1>33 DEF Linked
-----------------------------------------------------------------------------
(* The calls of the client *)

\* What a call leaves, if its client is careful.
Kept(g, h, m) ==
    /\ Made(h, m \cup {Len(h)})
    /\ Lasts(g, m, Removable) /\ ExtsApart /\ Distinct(h)
        => Lasts(h, m \cup {Len(h)}, Removable)

\* One lemma for each constructor: the graph it leaves is made, and keeps removals last.
LEMMA AppendKept ==
    ASSUME NEW g, NEW m, Made(g, m), NEW r, Fits(g, m, r), NEW h, h = Append(g, r),
           r.type \notin {"RM", "PATH"}, r.type = "CMD" => r.out \in OutputsOf(r) \cup {NoPath},
           Lasts(g, m, Removable) /\ ExtsApart /\ Distinct(h) => InputsOf(r) \cap Removed(g) = {}
    PROVE  Kept(g, h, m)
  <1>1. Made(h, m \cup {Len(h)})
    BY AppendMade
  <1>2. ASSUME Lasts(g, m, Removable), ExtsApart, Distinct(h)
        PROVE  Lasts(h, m \cup {Len(h)}, Removable)
    <2>1. PICK e : e = Removable
      OBVIOUS
    <2>2. /\ InputsOf(r) \cap Removed(g) = {} /\ Lasts(g, m, e)
          /\ r.type # "RM" /\ (r.type = "PATH" => r.out.ext # e)
      BY <1>2, <2>1
    <2>3. Lasts(h, m \cup {Len(h)}, e)
      BY <1>2, <2>2, AppendLasts
    <2>4. QED
      BY <2>1, <2>3
  <1>3. QED
    BY <1>1, <1>2 DEF Kept

LEMMA CommandKept ==
    ASSUME NEW g, NEW m, NEW h, NEW target, NEW deps, NEW ins, NEW exts,
           Commanded(g, h, m, target, deps, ins, exts),
           exts \in {opts.obexts, opts.exexts, opts.soexts, opts.arexts, opts.wrexts},
           Lasts(g, m, Removable) => ins \cap Removed(g) = {}
    PROVE  Kept(g, h, m)
  <1>1. ASSUME Lasts(g, m, Removable), ExtsApart, Distinct(h)
        PROVE  Lasts(h, m \cup {Len(h)}, Removable)
    <2>1. PICK e : e = Removable
      OBVIOUS
    <2>2. e \notin Extra(exts) /\ ins \cap Removed(g) = {} /\ Lasts(g, m, e)
      BY <1>1, <2>1 DEF ExtsApart
    <2>3. Lasts(h, m \cup {Len(h)}, e)
      BY <1>1, <2>2 DEF Commanded
    <2>4. QED
      BY <2>1, <2>3
  <1>2. QED
    BY <1>1 DEF Kept, Commanded

\* What the client links, runs or copies is there.
LEMMA HeldProvides ==
    ASSUME NEW g, NEW m, Made(g, m), NEW s \in m, Linkable(g, s)
    PROVE  /\ Provides(g, s, g[s].out)
           /\ Lasts(g, m, Removable) => g[s].out \notin Removed(g)
  <1>1. s \in StepsOf(g)
    BY DEF Made
  <1>2. Sound(g, s)
    BY <1>1 DEF Made
  <1>3. Provides(g, s, g[s].out)
    BY <1>2 DEF Sound, Linkable, Provides, Builds, Makes
  <1>4. QED
    BY <1>3 DEF Lasts

LEMMA MkdirKept ==
    ASSUME NEW g, NEW m, Made(g, m), NEW name, NEW h,
           h = Append(g, aven_build_step_mkdir(File(NoPath, name, "")))
    PROVE  Kept(g, h, m)
  <1>1. PICK p : p = File(NoPath, name, "")
    OBVIOUS
  <1>2. File(NoPath, name, "").in = NoPath /\ IsFile(File(NoPath, name, ""))
    BY DEF File, IsFile
  <1>3. p.in = NoPath /\ IsFile(p)
    BY <1>1, <1>2
  <1>4. PICK r : r = aven_build_step_mkdir(p)
    OBVIOUS
  <1>5. Is(r, "MKDIR", {}, p, NoPath, {}, {})
    BY <1>4, "MKDIR" \in Kinds, NewStep DEF aven_build_step_mkdir, Kinds, Makes
  <1>6. /\ IsStep(r) /\ DepSet(r) = {} /\ r.type = "MKDIR" /\ r.out = p
        /\ InputsOf(r) = {} /\ OutputsOf(r) = {p} /\ ProductsOf(g, r) = {p}
    BY <1>5 DEF Is, InputsOf, ProductsOf, OutputsOf
  <1>7. Fits(g, m, r)
    BY <1>3, <1>6 DEF Fits, PlacedNew
  <1>8. h = Append(g, r)
    BY <1>1, <1>4
  <1>9. QED
    BY <1>6, <1>7, <1>8, AppendKept

\* A step that makes a file in a directory, and reads what a held step provides.
LEMMA PutKept ==
    ASSUME NEW g, NEW m, NEW dir, DirGiven(g, m, dir), NEW r, NEW type \in {"MKDIR", "TRUNC", "COPY"},
           NEW base, NEW ext, NEW deps, dir \in deps, deps \subseteq m, NEW arg,
           Is(r, type, deps, File(g[dir].out, base, ext), arg, {}, {}),
           type = "COPY" => \E s \in deps : Linkable(g, s) /\ g[s].out = arg,
           NEW h, h = Append(g, r)
    PROVE  Kept(g, h, m)
  <1>1. PICK p : p = File(g[dir].out, base, ext)
    OBVIOUS
  <1>3. p.in = g[dir].out /\ IsFile(p)
    BY <1>1, FileIs
  <1>4. /\ IsStep(r) /\ DepSet(r) = deps /\ r.type = type /\ r.out = p /\ ProductsOf(g, r) = {p}
        /\ OutputsOf(r) = {p} /\ InputsOf(r) = IF type = "COPY" THEN {arg} ELSE {}
    BY <1>1 DEF Is, InputsOf, ProductsOf, OutputsOf
  <1>5. Made(g, m) /\ deps \subseteq StepsOf(g)
    BY DEF DirGiven, Made
  <1>6. deps \subseteq BelowNew(g, r)
    BY <1>4 DEF BelowNew
  <1>7. ASSUME NEW q \in InputsOf(r)
        PROVE  /\ \E t \in BelowNew(g, r) : Builds(g, t, q)
               /\ Lasts(g, m, Removable) => q \notin Removed(g)
    <2>1. PICK s \in deps : Linkable(g, s) /\ g[s].out = q
      BY <1>4, <1>7
    <2>2. Provides(g, s, q) /\ (Lasts(g, m, Removable) => q \notin Removed(g))
      BY <1>5, <2>1, HeldProvides
    <2>3. PICK t \in Below(g)[s] \cup {s} : Builds(g, t, q)
      BY <2>2 DEF Provides
    <2>4. t \in BelowNew(g, r)
      BY <1>4, <2>3 DEF BelowNew
    <2>5. QED
      BY <2>2, <2>3, <2>4
  <1>8. Fits(g, m, r)
    <2>1. dir \in BelowNew(g, r) /\ g[dir].type = "MKDIR"
      BY <1>6 DEF DirGiven
    <2>2. \A q \in ProductsOf(g, r) :
            /\ q.in = NoPath \/ \E t \in BelowNew(g, r) : g[t].type = "MKDIR" /\ g[t].out = q.in
            /\ r.out = q \/ \E t \in BelowNew(g, r) : g[t].out = q
      BY <1>3, <1>4, <2>1
    <2>3. DepSet(r) \ m = {}
      BY <1>4
    <2>4. \A q \in InputsOf(r) : \E t \in BelowNew(g, r) : Builds(g, t, q)
      BY <1>7
    <2>5. r.out \in OutputsOf(r) /\ r.type # "RM"
      BY <1>4
    <2>7. PlacedNew(g, r)
      BY <1>3, <1>4 DEF PlacedNew
    <2>6. QED
      BY <1>4, <1>5, <2>2, <2>3, <2>4, <2>5, <2>7 DEF Fits
  <1>9. Lasts(g, m, Removable) => InputsOf(r) \cap Removed(g) = {}
    BY <1>7
  <1>10. QED
    BY <1>4, <1>5, <1>8, <1>9, AppendKept

LEMMA RootKept ==
    ASSUME NEW g, NEW m, Made(g, m), NEW h, h = Append(g, aven_build_step_root)
    PROVE  Kept(g, h, m)
  <1>1. PICK r : r = aven_build_step_root
    OBVIOUS
  <1>2. r = [type |-> "ROOT", dep |-> <<>>, out |-> NoPath, arg |-> NoPath,
             words |-> <<>>, slots |-> 0]
    BY <1>1 DEF aven_build_step_root
  <1>3. IsSeq(<<>>) /\ Len(<<>>) = 0
    BY EmptySeq DEF IsSeq
  <1>4. IsStep(r) /\ r.words = <<>> /\ r.dep = <<>> /\ r.type = "ROOT" /\ r.out = NoPath
    BY <1>2, <1>3 DEF IsStep, Kinds
  <1>5. DepSet(r) = {} /\ \A K : Files(r.words, K) = {}
    BY <1>3, <1>4 DEF DepSet, Elements, Files
  <1>6. InputsOf(r) = {} /\ ProductsOf(g, r) = {} /\ OutputsOf(r) = {}
    BY <1>4, <1>5 DEF InputsOf, ProductsOf, OutputsOf
  <1>7. Fits(g, m, r)
    BY <1>4, <1>5, <1>6 DEF Fits, PlacedNew
  <1>8. QED
    BY <1>1, <1>4, <1>6, <1>7, AppendKept

LEMMA RunKept ==
    ASSUME NEW g, NEW m, Made(g, m), NEW exe \in m, Provides(g, exe, g[exe].out),
           g[exe].type # "PATH", NEW args \in Nat, NEW h,
           h = aven_build_common_step_run_exe(g, exe, args)
    PROVE  /\ Made(h, m \cup {Len(h)})
           /\ Distinct(h) => Distinct(g)
           /\ Lasts(g, m, Removable) /\ ExtsApart /\ Distinct(h) /\ g[exe].out \notin Removed(g)
                => Lasts(h, m \cup {Len(h)}, Removable)
  <1>1. PICK words : words = <<Word("exe", g[exe].out)>> \o Plain(args)
    OBVIOUS
  <1>2. PICK r : r = aven_build_step_add_dep(aven_build_step_cmd(NoPath, words, 1 + args), exe)
    OBVIOUS
  <1>3. h = Append(g, r)
    BY <1>1, <1>2 DEF aven_build_common_step_run_exe
  <1>4. Spells(words, 1 + args, {}, {g[exe].out})
    <2>1. Spells(<<Word("exe", g[exe].out)>>, 1, {}, {g[exe].out})
      BY SpellsOne
    <2>2. Spells(Plain(args), args, {}, {})
      BY SpellsPlain
    <2>3. QED
      BY <1>1, <2>1, <2>2, SpellsMore
  <1>5. Is(r, "CMD", {exe}, NoPath, NoPath, {}, {g[exe].out})
    <2>1. Is(r, "CMD", {} \cup {exe}, NoPath, NoPath, {}, {g[exe].out})
      BY <1>2, <1>4, CmdStep, DependsOn
    <2>2. {} \cup {exe} = {exe}
      OBVIOUS
    <2>3. QED
      BY <2>1, <2>2
  <1>6. /\ IsStep(r) /\ DepSet(r) = {exe} /\ r.type = "CMD" /\ r.out = NoPath
        /\ InputsOf(r) = {g[exe].out} /\ OutputsOf(r) = {}
    BY <1>5 DEF Is, InputsOf, OutputsOf
  <1>7. ProductsOf(g, r) = {}
    BY <1>6 DEF ProductsOf
  <1>8. exe \in StepsOf(g)
    BY DEF Made
  <1>9. Fits(g, m, r)
    <2>1. PICK t \in Below(g)[exe] \cup {exe} : Builds(g, t, g[exe].out)
      BY DEF Provides
    <2>2. t \in BelowNew(g, r)
      BY <1>6, <2>1 DEF BelowNew
    <2>3. \A q \in InputsOf(r) : \E u \in BelowNew(g, r) : Builds(g, u, q)
      BY <1>6, <2>1, <2>2
    <2>4. DepSet(r) \ m = {} /\ DepSet(r) \subseteq StepsOf(g)
      BY <1>6, <1>8
    <2>5. QED
      BY <1>6, <1>7, <2>3, <2>4 DEF Fits, PlacedNew
  <1>10. Made(h, m \cup {Len(h)})
    BY <1>3, <1>9, AppendMade
  <1>11. Distinct(h) => Distinct(g)
    <2>1. IsGraph(g) /\ DepSet(r) \subseteq StepsOf(g)
      BY <1>6, <1>8 DEF Made
    <2>2. OneMore(g, h, r)
      BY <1>3, <2>1, AppendGrows
    <2>3. QED
      BY <2>2, GrowsDistinct DEF OneMore
  <1>12. ASSUME Lasts(g, m, Removable), Distinct(h), g[exe].out \notin Removed(g)
         PROVE  Lasts(h, m \cup {Len(h)}, Removable)
    <2>1. PICK e : e = Removable
      OBVIOUS
    <2>2. /\ Lasts(g, m, e) /\ InputsOf(r) \cap Removed(g) = {} /\ r.type # "RM"
          /\ (r.type = "PATH" => r.out.ext # e) /\ r.out \in OutputsOf(r) \cup {NoPath}
      BY <1>6, <1>12, <2>1
    <2>3. Lasts(h, m \cup {Len(h)}, e)
      BY <1>3, <1>9, <1>12, <2>2, AppendLasts
    <2>4. QED
      BY <2>1, <2>3
  <1>13. QED
    BY <1>10, <1>11, <1>12

\* A step that the client does not hold may still be there.
LEMMA HoldsLess ==
    ASSUME NEW g, NEW k, NEW m, m \subseteq k
    PROVE  /\ Made(g, k) => Made(g, m)
           /\ \A e : Lasts(g, k, e) => Lasts(g, m, e)
  <1>1. ASSUME Made(g, k)
        PROVE  Made(g, m)
    <2>1. \A s \in StepsOf(g) : Sound(g, s) /\ Recorded(g, k, s)
      BY <1>1 DEF Made
    <2>2. \A s \in StepsOf(g) : Recorded(g, m, s)
      BY <2>1 DEF Recorded
    <2>3. QED
      BY <1>1, <2>1, <2>2 DEF Made
  <1>2. ASSUME NEW e, Lasts(g, k, e)
        PROVE  Lasts(g, m, e)
    BY <1>2 DEF Lasts
  <1>3. QED
    BY <1>1, <1>2

\* The constructors that compile, link and remove, and that also run.
LEMMA CcLdKept ==
    ASSUME NEW g, NEW m, NEW objs, NEW h, Linked(g, h, m, objs),
           Lasts(g, m, Removable) => OutsOf(g, objs) \cap Removed(g) = {}
    PROVE  Kept(g, h, m)
  BY DEF Linked, Kept

LEMMA CcLdRunKept ==
    ASSUME NEW g, NEW m, NEW objs, NEW l, Linked(g, l, m, objs),
           Lasts(g, m, Removable) => OutsOf(g, objs) \cap Removed(g) = {},
           NEW args \in Nat, NEW h, h = aven_build_common_step_run_exe(l, Len(l), args)
    PROVE  Kept(g, h, m)
  <1>1. PICK k : k = m \cup {Len(l)}
    OBVIOUS
  <1>2. /\ Made(l, k) /\ Len(l) \in k /\ l[Len(l)].type = "RM"
        /\ Provides(l, Len(l), l[Len(l)].out)
    BY <1>1 DEF Linked
  <1>3. l[Len(l)].type # "PATH"
    BY <1>2
  <1>4. /\ Made(h, k \cup {Len(h)})
        /\ Distinct(h) => Distinct(l)
        /\ Lasts(l, k, Removable) /\ ExtsApart /\ Distinct(h) /\ l[Len(l)].out \notin Removed(l)
                => Lasts(h, k \cup {Len(h)}, Removable)
    BY <1>2, <1>3, RunKept
  <1>5. m \cup {Len(h)} \subseteq k \cup {Len(h)}
    BY <1>1
  <1>6. Made(h, m \cup {Len(h)})
    BY <1>4, <1>5, HoldsLess
  <1>7. ASSUME Lasts(g, m, Removable), ExtsApart, Distinct(h)
        PROVE  Lasts(h, m \cup {Len(h)}, Removable)
    <2>1. Lasts(l, k, Removable) /\ l[Len(l)].out \notin Removed(l)
      BY <1>1, <1>4, <1>7 DEF Linked
    <2>2. Lasts(h, k \cup {Len(h)}, Removable)
      BY <1>4, <1>7, <2>1
    <2>3. QED
      BY <1>5, <2>2, HoldsLess
  <1>8. QED
    BY <1>6, <1>7 DEF Kept

\* The graph h is g with more dependencies, on steps that the client holds.
Waits(g, h, m) ==
    /\ Made(h, m) /\ Distinct(h)
    /\ \A e : Lasts(g, m, e) => Lasts(h, m, e)

\* A root that waits for one step more.
LEMMA WaitsMore ==
    ASSUME NEW g, NEW m, Made(g, m), Distinct(g), NEW h, Grows(g, h), StepsOf(h) = StepsOf(g),
           \A t \in StepsOf(g) :
                /\ IsStep(h[t])
                /\ h[t].type = g[t].type /\ h[t].out = g[t].out /\ h[t].arg = g[t].arg
                /\ DepsOf(h, t) \subseteq DepsOf(g, t) \cup m
    PROVE  Waits(g, h, m)
  <1>1. IsGraph(g) /\ m \subseteq StepsOf(g)
    BY DEF Made
  <1>2. \A t \in StepsOf(g) : /\ Inputs(h, t) = Inputs(g, t) /\ Outputs(h, t) = Outputs(g, t)
                               /\ Products(h, t) = Products(g, t) /\ Below(g)[t] \subseteq Below(h)[t]
                               /\ Below(g)[t] \subseteq StepsOf(g)
    <2> TAKE t \in StepsOf(g)
    <2>1. Below(g)[t] \subseteq StepsOf(g)
      BY <1>1, BelowFacts
    <2>2. QED
      BY <2>1, GrowsKeeps
  <1>3. \A t \in StepsOf(g) : Sound(h, t)
    <2> TAKE t \in StepsOf(g)
    <2>1. Sound(g, t)
      BY DEF Made
    <2>2. QED
      BY <2>1, GrowsSound
  <1>4. ASSUME NEW t \in StepsOf(g), NEW p \in Products(h, t),
                ~ \E u \in Below(h)[t] \cup {t} : h[u].out = p
         PROVE  t \notin m /\ \A q \in StepsOf(h) : t \in DepsOf(h, q) => h[q].out = p
    <2>1. ~ \E u \in Below(g)[t] \cup {t} : g[u].out = p
      BY <1>2, <1>4
    <2>2. t \notin m /\ \A q \in StepsOf(g) : t \in DepsOf(g, q) => g[q].out = p
      BY <1>2, <1>4, <2>1 DEF Made, Recorded
    <2>3. QED
      BY <2>2
  <1>5. Made(h, m)
    <2>1. \A t \in StepsOf(h) : Sound(h, t) /\ Recorded(h, m, t)
      BY <1>3, <1>4 DEF Recorded
    <2>2. QED
      BY <1>1, <2>1 DEF Made, Grows
  <1>6. Distinct(h)
    BY <1>2 DEF Distinct
  <1>7. ASSUME NEW e, Lasts(g, m, e)
         PROVE  Lasts(h, m, e)
    <2>1. Removed(h) = Removed(g)
      <3>1. {q \in StepsOf(h) : h[q].type = "RM"} = {q \in StepsOf(g) : g[q].type = "RM"}
        OBVIOUS
      <3>2. PICK T : T = {q \in StepsOf(g) : g[q].type = "RM"}
        OBVIOUS
      <3>3. Removed(g) = {g[q].arg : q \in T} /\ Removed(h) = {h[q].arg : q \in T}
        BY <3>1, <3>2 DEF Removed
      <3>4. \A q \in T : h[q].arg = g[q].arg
        BY <3>2
      <3>5. QED
        BY <3>3, <3>4
    <2>2. \A t \in StepsOf(h) : h[t].type = "PATH" => h[t].out.ext # e
      BY <1>7 DEF Lasts
    <2>3. \A p \in Removed(h) : p.ext = e /\ \E o \in StepsOf(h) : Builds(h, o, p)
      BY <1>2, <1>7, <2>1 DEF Lasts, Builds
    <2>7. \A q, r \in StepsOf(h) :
            h[q].type = "RM" /\ h[r].type = "RM" /\ h[q].arg = h[r].arg => q = r
      BY <1>7 DEF Lasts
    <2>4. \A t \in m : Linkable(h, t) => h[t].out \notin Removed(h)
      BY <1>1, <1>7, <2>1 DEF Lasts, Linkable
    <2>5. ASSUME NEW q \in StepsOf(h), NEW t \in StepsOf(h), h[q].type = "RM",
                 h[q].arg \in Products(h, t) \cup Inputs(h, t)
          PROVE  t \in Below(h)[q]
      <3>1. /\ q \in StepsOf(g) /\ t \in StepsOf(g) /\ g[q].type = "RM"
            /\ g[q].arg \in Products(g, t) \cup Inputs(g, t)
        BY <1>2, <2>5
      <3>2. t \in Below(g)[q]
        BY <1>7, <3>1 DEF Lasts
      <3>3. QED
        BY <1>2, <3>1, <3>2
    <2>6. QED
      BY <1>6, <2>2, <2>3, <2>4, <2>5, <2>7 DEF Lasts
  <1>8. QED
    BY <1>5, <1>6, <1>7 DEF Waits

LEMMA AddDepKept ==
    ASSUME NEW g, NEW m, Made(g, m), Distinct(g), NEW root \in m, NEW s \in m,
           g[root].type = "ROOT", s < root, NEW h,
           h = [g EXCEPT ![root] = aven_build_step_add_dep(@, s)]
    PROVE  Waits(g, h, m)
  <1>1. /\ IsGraph(g) /\ IsSeq(g) /\ Len(g) \in Nat /\ root \in StepsOf(g) /\ s \in StepsOf(g)
        /\ m \subseteq StepsOf(g)
    BY SeqAppend DEF Made, IsGraph
  <1>2. g = [j \in 1..Len(g) |-> g[j]]
    <2>1. PICK S : g \in Seq(S)
      BY <1>1 DEF IsSeq
    <2>2. QED
      BY <2>1
  <1>3. PICK r : r = aven_build_step_add_dep(g[root], s)
    OBVIOUS
  <1>4. h = [j \in 1..Len(g) |-> IF j = root THEN r ELSE g[j]]
    BY <1>1, <1>2, <1>3 DEF StepsOf
  <1>5. /\ h = [j \in 1..Len(g) |-> h[j]]
        /\ h[root] = r
        /\ \A t \in 1..Len(g) : t # root => h[t] = g[t]
    BY <1>1, <1>4 DEF StepsOf
  <1>6. IsSeq(h) /\ Len(h) = Len(g)
    BY <1>1, <1>5, SeqFunction
  <1>7. StepsOf(h) = StepsOf(g) /\ StepsOf(g) = 1..Len(g)
    BY <1>6 DEF StepsOf
  <1>8. /\ IsStep(r) /\ r.type = "ROOT" /\ r.out = g[root].out /\ r.arg = g[root].arg
        /\ r.words = g[root].words /\ DepSet(r) = DepSet(g[root]) \cup {s}
    <2>1. PICK x : x = g[root]
      OBVIOUS
    <2>2. IsStep(x)
      BY <1>1, <2>1 DEF Made, Sound
    <2>3. Is(x, "ROOT", DepSet(x), x.out, x.arg, Files(x.words, {"out"}), Files(x.words, {"obj", "exe"}))
      BY <2>1, <2>2 DEF Is
    <2>4. r.words = x.words
      <3>1. r = [x EXCEPT !.dep = <<s>> \o @]
        BY <1>3, <2>1 DEF aven_build_step_add_dep
      <3>2. x = [type |-> x.type, dep |-> x.dep, out |-> x.out, arg |-> x.arg,
                 words |-> x.words, slots |-> x.slots]
        BY <2>2 DEF IsStep
      <3>3. QED
        BY <3>1, <3>2
    <2>5. Is(r, "ROOT", DepSet(x) \cup {s}, x.out, x.arg,
             Files(x.words, {"out"}), Files(x.words, {"obj", "exe"}))
      BY <1>3, <2>1, <2>3, DependsOn
    <2>6. QED
      BY <2>1, <2>4, <2>5 DEF Is
  <1>9. /\ DepsOf(h, root) = DepsOf(g, root) \cup {s}
        /\ \A t \in StepsOf(g) : t # root => DepsOf(h, t) = DepsOf(g, t)
    <2>1. \A f, t : DepsOf(f, t) = DepSet(f[t])
      BY DEF DepsOf, DepSet, Elements
    <2>2. DepsOf(h, root) = DepsOf(g, root) \cup {s}
      <3>1. DepsOf(h, root) = DepSet(r) /\ DepsOf(g, root) = DepSet(g[root])
        BY <1>5, <2>1
      <3>2. QED
        BY <1>8, <3>1
    <2>3. ASSUME NEW t \in StepsOf(g), t # root
          PROVE  DepsOf(h, t) = DepsOf(g, t)
      <3>1. h[t] = g[t]
        BY <1>5, <1>7, <2>3
      <3>2. QED
        BY <2>1, <3>1
    <2>4. QED
      BY <2>2, <2>3
  <1>10. IsGraph(h)
    <2>1. s \in 1..(root - 1)
      BY <1>1, <1>7
    <2>2. QED
      BY <1>1, <1>6, <1>7, <1>9, <2>1 DEF IsGraph
  <1>11. \A t \in StepsOf(g) : /\ h[t].type = g[t].type /\ h[t].out = g[t].out /\ h[t].arg = g[t].arg
                               /\ h[t].words = g[t].words
    BY <1>5, <1>7, <1>8
  <1>12. Grows(g, h)
    <2>1. Len(g) <= Len(h)
      BY <1>1, <1>6
    <2>2. \A t \in StepsOf(g) : /\ DepsOf(g, t) \subseteq DepsOf(h, t)
                                /\ g[t].type # "ROOT" => DepsOf(h, t) = DepsOf(g, t)
      BY <1>9
    <2>3. QED
      BY <1>1, <1>10, <1>11, <2>1, <2>2 DEF Grows
  <1>13. \A t \in StepsOf(g) : IsStep(h[t])
    <2>1. \A t \in StepsOf(g) : IsStep(g[t])
      BY DEF Made, Sound
    <2>2. QED
      BY <1>5, <1>7, <1>8, <2>1
  <1>14. \A t \in StepsOf(g) : DepsOf(h, t) \subseteq DepsOf(g, t) \cup m
    BY <1>9
  <1>15. QED
    BY <1>7, <1>11, <1>12, <1>13, <1>14, WaitsMore

\* The objects a client picks can be linked.
LEMMA ObjsAreGiven ==
    ASSUME Made(graph, mine), NEW objs \in Objs
    PROVE  /\ ObjsGiven(graph, mine, objs)
           /\ Lasts(graph, mine, Removable) => OutsOf(graph, objs) \cap Removed(graph) = {}
  <1>1. PICK n \in 0..MaxObjs : objs \in [1..n -> ObjSteps]
    BY DEF Objs
  <1>2. n \in Nat /\ objs = [k \in 1..n |-> objs[k]] /\ \A k \in 1..n : objs[k] \in ObjSteps
    BY <1>1
  <1>3. IsSeq(objs) /\ Len(objs) = n
    BY <1>2, SeqFunction
  <1>4. \A k \in 1..Len(objs) : objs[k] \in mine /\ Linkable(graph, objs[k])
    BY <1>2, <1>3 DEF ObjSteps, Linkable
  <1>5. \A k \in 1..Len(objs) :
            /\ objs[k] \in mine /\ graph[objs[k]].type # "PATH"
            /\ Provides(graph, objs[k], graph[objs[k]].out)
            /\ Lasts(graph, mine, Removable) => graph[objs[k]].out \notin Removed(graph)
    BY <1>4, HeldProvides DEF Linkable
  <1>6. ObjsGiven(graph, mine, objs)
    BY <1>3, <1>5 DEF ObjsGiven
  <1>7. QED
    BY <1>5, <1>6 DEF OutsOf

\* What is known of the graph of a client.
GraphInv ==
    /\ Made(graph, mine) /\ Distinct(graph)
    /\ ExtsApart => Lasts(graph, mine, Removable)

\* A careful call keeps the invariant if its graph is kept.
LEMMA MakeKeeps ==
    ASSUME GraphInv, NEW g, Make(g), Kept(graph, g, mine)
    PROVE  GraphInv'
  <1>1. graph' = g /\ mine' = mine \cup {Len(g)} /\ opts' = opts /\ Distinct(g)
    BY DEF Make
  <1>2. Removable' = Removable /\ ExtsApart' = ExtsApart
    BY <1>1 DEF Removable, ExtsApart
  <1>3. Made(g, mine \cup {Len(g)})
    BY DEF Kept
  <1>4. ExtsApart => Lasts(g, mine \cup {Len(g)}, Removable)
    BY <1>1 DEF Kept, GraphInv
  <1>5. QED
    BY <1>1, <1>2, <1>3, <1>4 DEF GraphInv

\* Every call of a client keeps the invariant.
LEMMA BuildKeeps ==
    ASSUME OptsOK, ManyOK, GraphInv, Build
    PROVE  GraphInv'
  <1>1. Made(graph, mine)
    BY DEF GraphInv
  <1>2. ASSUME NEW dir \in DirSteps
        PROVE  DirGiven(graph, mine, dir)
    BY <1>1 DEF DirSteps, DirGiven
  <1>4. CASE \E name \in Dirs : Mkdir(name)
    <2>1. PICK name \in Dirs : Mkdir(name)
      BY <1>4
    <2>2. PICK g : g = Append(graph, aven_build_step_mkdir(File(NoPath, name, "")))
      OBVIOUS
    <2>3. Make(g)
      BY <2>1, <2>2 DEF Mkdir
    <2>4. Kept(graph, g, mine)
      BY <1>1, <2>2, MkdirKept
    <2>5. QED
      BY <2>3, <2>4, MakeKeeps
  <1>5. CASE \E name \in Dirs, dir \in DirSteps : Subdir(dir, name)
    <2>1. PICK name \in Dirs, dir \in DirSteps : Subdir(dir, name)
      BY <1>5
    <2>2. PICK g : g = aven_build_common_step_subdir(graph, dir, name)
      OBVIOUS
    <2>3. Make(g)
      BY <2>1, <2>2 DEF Subdir
    <2>4. PICK p : p = File(graph[dir].out, name, "")
      OBVIOUS
    <2>5. PICK r : r = aven_build_step_add_dep(aven_build_step_mkdir(p), dir)
      OBVIOUS
    <2>6. Is(r, "MKDIR", {dir}, p, NoPath, {}, {})
      <3>1. Is(r, "MKDIR", {} \cup {dir}, p, NoPath, {}, {})
        BY <2>5, "MKDIR" \in Kinds, NewStep, DependsOn DEF aven_build_step_mkdir, Kinds, Makes
      <3>2. {} \cup {dir} = {dir}
        OBVIOUS
      <3>3. QED
        BY <3>1, <3>2
    <2>7. g = Append(graph, r)
      BY <2>2, <2>4, <2>5 DEF aven_build_common_step_subdir
    <2>8. Kept(graph, g, mine)
      <3>1. DirGiven(graph, mine, dir) /\ dir \in {dir} /\ {dir} \subseteq mine
        BY <1>2 DEF DirSteps
      <3>2. Is(r, "MKDIR", {dir}, File(graph[dir].out, name, ""), NoPath, {}, {})
        BY <2>4, <2>6
      <3>3. QED
        BY <2>7, <3>1, <3>2, PutKept
    <2>9. QED
      BY <2>3, <2>8, MakeKeeps
  <1>6. CASE \E dir \in DirSteps, src \in Srcs : Cc(src, dir)
    <2>1. PICK dir \in DirSteps, src \in Srcs : Cc(src, dir)
      BY <1>6
    <2>2. PICK g : g = aven_build_common_step_cc_ex(graph, many.incs, many.macros, src, dir)
      OBVIOUS
    <2>3. Make(g)
      BY <2>1, <2>2 DEF Cc
    <2>4. Commanded(graph, g, mine, CcTarget(graph, src, dir), {dir}, {}, opts.obexts)
      BY <1>2, <2>2, CcMade DEF ManyOK
    <2>5. Kept(graph, g, mine)
      BY <2>4, CommandKept
    <2>6. QED
      BY <2>3, <2>5, MakeKeeps
  <1>7. CASE \E dir \in DirSteps, src \in Srcs : Windres(src, dir)
    <2>1. PICK dir \in DirSteps, src \in Srcs : Windres(src, dir)
      BY <1>7
    <2>2. PICK g : g = aven_build_common_step_windres(graph, src, dir)
      OBVIOUS
    <2>3. Make(g) /\ opts.windres
      BY <2>1, <2>2 DEF Windres
    <2>4. Commanded(graph, g, mine, Target(graph[dir].out, fname_base(src), opts.wrexts),
                    {dir}, {}, opts.wrexts)
      BY <1>2, <2>2, <2>3, WindresMade
    <2>5. Kept(graph, g, mine)
      BY <2>4, CommandKept
    <2>6. QED
      BY <2>3, <2>5, MakeKeeps
  <1>8. CASE \E dir \in DirSteps, src \in Srcs, objs \in Objs, kind \in BinType :
                CcLd(objs, src, dir, kind)
    <2>1. PICK dir \in DirSteps, src \in Srcs, objs \in Objs, kind \in BinType :
                CcLd(objs, src, dir, kind)
      BY <1>8
    <2>2. PICK g : g = aven_build_common_step_cc_ld(
                        graph, many.incs, many.macros, many.libs, objs, src, dir, kind)
      OBVIOUS
    <2>3. Make(g)
      BY <2>1, <2>2 DEF CcLd
    <2>4. /\ ObjsGiven(graph, mine, objs)
          /\ Lasts(graph, mine, Removable) => OutsOf(graph, objs) \cap Removed(graph) = {}
      BY <1>1, ObjsAreGiven
    <2>5. Linked(graph, g, mine, objs)
      BY <1>2, <2>2, <2>4, CcLdMade DEF ManyOK
    <2>6. Kept(graph, g, mine)
      BY <2>4, <2>5, CcLdKept
    <2>7. QED
      BY <2>3, <2>6, MakeKeeps
  <1>9. CASE \E dir \in DirSteps, src \in Srcs, objs \in Objs, graphical \in BOOLEAN :
                CcLdRunExe(objs, src, dir, graphical)
    <2>1. PICK dir \in DirSteps, src \in Srcs, objs \in Objs, graphical \in BOOLEAN :
                CcLdRunExe(objs, src, dir, graphical)
      BY <1>9
    <2>2. PICK kind : kind = IF graphical THEN "WINDOW" ELSE "CONSOLE"
      OBVIOUS
    <2>3. kind \in BinType
      BY <2>2 DEF BinType
    <2>4. PICK l : l = aven_build_common_step_cc_ld(
                        graph, many.incs, many.macros, many.libs, objs, src, dir, kind)
      OBVIOUS
    <2>5. PICK g : g = aven_build_common_step_run_exe(l, Len(l), many.args)
      OBVIOUS
    <2>6. Make(g)
      BY <2>1, <2>2, <2>4, <2>5 DEF CcLdRunExe, aven_build_common_step_cc_ld_run_exe_ex
    <2>7. /\ ObjsGiven(graph, mine, objs)
          /\ Lasts(graph, mine, Removable) => OutsOf(graph, objs) \cap Removed(graph) = {}
      BY <1>1, ObjsAreGiven
    <2>8. Linked(graph, l, mine, objs)
      BY <1>2, <2>3, <2>4, <2>7, CcLdMade DEF ManyOK
    <2>9. Kept(graph, g, mine)
      BY <2>5, <2>7, <2>8, CcLdRunKept DEF ManyOK
    <2>10. QED
      BY <2>6, <2>9, MakeKeeps
  <1>10. CASE \E dir \in DirSteps, objs \in Objs, name \in Names : Ar(objs, dir, name)
    <2>1. PICK dir \in DirSteps, objs \in Objs, name \in Names : Ar(objs, dir, name)
      BY <1>10
    <2>2. PICK g : g = aven_build_common_step_ar(graph, objs, dir, name)
      OBVIOUS
    <2>3. Make(g)
      BY <2>1, <2>2 DEF Ar
    <2>4. /\ ObjsGiven(graph, mine, objs)
          /\ Lasts(graph, mine, Removable) => OutsOf(graph, objs) \cap Removed(graph) = {}
      BY <1>1, ObjsAreGiven
    <2>5. Commanded(graph, g, mine, Target(graph[dir].out, name, opts.arexts),
                    Elements(objs) \cup {dir}, OutsOf(graph, objs), opts.arexts)
      BY <1>2, <2>2, <2>4, ArMade
    <2>6. Kept(graph, g, mine)
      BY <2>4, <2>5, CommandKept
    <2>7. QED
      BY <2>3, <2>6, MakeKeeps
  <1>11. CASE \E dir \in DirSteps, objs \in Objs, name \in Names, kind \in BinType :
                Ld(objs, dir, name, kind)
    <2>1. PICK dir \in DirSteps, objs \in Objs, name \in Names, kind \in BinType :
                Ld(objs, dir, name, kind)
      BY <1>11
    <2>2. PICK g : g = aven_build_common_step_ld(graph, many.libs, objs, dir, name, kind)
      OBVIOUS
    <2>3. Make(g)
      BY <2>1, <2>2 DEF Ld
    <2>4. /\ ObjsGiven(graph, mine, objs)
          /\ Lasts(graph, mine, Removable) => OutsOf(graph, objs) \cap Removed(graph) = {}
      BY <1>1, ObjsAreGiven
    <2>5. Commanded(graph, g, mine, Target(graph[dir].out, name, LdExts(kind)),
                    Elements(objs) \cup {dir}, OutsOf(graph, objs), LdExts(kind))
      BY <1>2, <2>2, <2>4, LdMade DEF ManyOK
    <2>6. LdExts(kind) \in {opts.obexts, opts.exexts, opts.soexts, opts.arexts, opts.wrexts}
      BY DEF LdExts
    <2>7. Kept(graph, g, mine)
      BY <2>4, <2>5, <2>6, CommandKept
    <2>8. QED
      BY <2>3, <2>7, MakeKeeps
  <1>12. CASE \E dir \in DirSteps, name \in Names : Trunc(dir, name)
    <2>1. PICK dir \in DirSteps, name \in Names : Trunc(dir, name)
      BY <1>12
    <2>2. PICK p : p = File(graph[dir].out, name, ".in")
      OBVIOUS
    <2>3. PICK r : r = aven_build_step_add_dep(aven_build_step_trunc(p), dir)
      OBVIOUS
    <2>4. PICK g : g = Append(graph, r)
      OBVIOUS
    <2>5. Make(g)
      BY <2>1, <2>2, <2>3, <2>4 DEF Trunc
    <2>6. Is(r, "TRUNC", {dir}, File(graph[dir].out, name, ".in"), NoPath, {}, {})
      <3>1. Is(r, "TRUNC", {} \cup {dir}, p, NoPath, {}, {})
        BY <2>3, "TRUNC" \in Kinds, NewStep, DependsOn DEF aven_build_step_trunc, Kinds, Makes
      <3>2. {} \cup {dir} = {dir}
        OBVIOUS
      <3>3. QED
        BY <2>2, <3>1, <3>2
    <2>7. DirGiven(graph, mine, dir) /\ dir \in {dir} /\ {dir} \subseteq mine
      BY <1>2 DEF DirSteps
    <2>8. Kept(graph, g, mine)
      BY <2>4, <2>6, <2>7, PutKept
    <2>9. QED
      BY <2>5, <2>8, MakeKeeps
  <1>13. CASE \E exe \in ObjSteps : RunExe(exe)
    <2>1. PICK exe \in ObjSteps : RunExe(exe)
      BY <1>13
    <2>2. PICK g : g = aven_build_common_step_run_exe(graph, exe, many.args)
      OBVIOUS
    <2>3. Make(g)
      BY <2>1, <2>2 DEF RunExe
    <2>4. exe \in mine /\ Linkable(graph, exe)
      BY DEF ObjSteps, Linkable
    <2>5. /\ Provides(graph, exe, graph[exe].out) /\ graph[exe].type # "PATH"
          /\ Lasts(graph, mine, Removable) => graph[exe].out \notin Removed(graph)
      BY <1>1, <2>4, HeldProvides DEF Linkable
    <2>6. many.args \in Nat
      BY DEF ManyOK
    <2>7. /\ Made(g, mine \cup {Len(g)})
          /\ Lasts(graph, mine, Removable) /\ ExtsApart /\ Distinct(g)
                /\ graph[exe].out \notin Removed(graph) => Lasts(g, mine \cup {Len(g)}, Removable)
      BY <1>1, <2>2, <2>4, <2>5, <2>6, RunKept
    <2>8. Kept(graph, g, mine)
      BY <2>5, <2>7 DEF Kept
    <2>9. QED
      BY <2>3, <2>8, MakeKeeps
  <1>14. CASE \E s \in ObjSteps, dir \in DirSteps : Copy(s, dir)
    <2>1. PICK s \in ObjSteps, dir \in DirSteps : Copy(s, dir)
      BY <1>14
    <2>2. PICK p : p = File(graph[dir].out, graph[s].out.base, graph[s].out.ext)
      OBVIOUS
    <2>3. PICK c : c = aven_build_step_copy(graph[s].out, p)
      OBVIOUS
    <2>4. PICK ds : ds = <<s, dir>>
      OBVIOUS
    <2>5. PICK r : r = add_deps(c, ds)
      OBVIOUS
    <2>6. PICK g : g = Append(graph, r)
      OBVIOUS
    <2>7. Make(g)
      BY <2>1, <2>2, <2>3, <2>4, <2>5, <2>6 DEF Copy
    <2>8. IsSeq(ds) /\ Elements(ds) = {s, dir}
      <3>1. ds \in Seq({s, dir}) /\ Len(ds) = 2 /\ ds[1] = s /\ ds[2] = dir
        BY <2>4
      <3>2. QED
        BY <3>1 DEF IsSeq, Elements
    <2>9. Is(r, "COPY", {s, dir}, p, graph[s].out, {}, {})
      <3>1. Is(c, "COPY", {}, p, graph[s].out, {}, {})
        BY <2>3, "COPY" \in Kinds, NewStep DEF aven_build_step_copy, Kinds, Makes
      <3>2. Is(r, "COPY", {} \cup Elements(ds), p, graph[s].out, {}, {})
        BY <2>5, <2>8, <3>1, DependsOnAll
      <3>3. {} \cup Elements(ds) = {s, dir}
        BY <2>8
      <3>4. QED
        BY <3>2, <3>3
    <2>10. /\ DirGiven(graph, mine, dir) /\ dir \in {s, dir} /\ {s, dir} \subseteq mine
           /\ Linkable(graph, s) /\ s \in {s, dir}
      BY <1>2 DEF DirSteps, ObjSteps, Linkable
    <2>11. Kept(graph, g, mine)
      <3>1. Is(r, "COPY", {s, dir}, File(graph[dir].out, graph[s].out.base, graph[s].out.ext),
               graph[s].out, {}, {})
        BY <2>2, <2>9
      <3>2. \E t \in {s, dir} : Linkable(graph, t) /\ graph[t].out = graph[s].out
        BY <2>10
      <3>3. QED
        BY <2>6, <2>10, <3>1, <3>2, PutKept
    <2>12. QED
      BY <2>7, <2>11, MakeKeeps
  <1>15. CASE Root
    <2>1. PICK g : g = Append(graph, aven_build_step_root)
      OBVIOUS
    <2>2. Make(g)
      BY <1>15, <2>1 DEF Root
    <2>3. Kept(graph, g, mine)
      BY <1>1, <2>1, RootKept
    <2>4. QED
      BY <2>2, <2>3, MakeKeeps
  <1>16. CASE \E root, s \in mine : AddDep(root, s)
    <2>1. PICK root \in mine, s \in mine : AddDep(root, s)
      BY <1>16
    <2>2. /\ graph[root].type = "ROOT" /\ s < root
          /\ graph' = [graph EXCEPT ![root] = aven_build_step_add_dep(@, s)]
          /\ mine' = mine /\ opts' = opts
      BY <2>1 DEF AddDep
    <2>3. Removable' = Removable /\ ExtsApart' = ExtsApart
      BY <2>2 DEF Removable, ExtsApart
    <2>4. PICK g : g = [graph EXCEPT ![root] = aven_build_step_add_dep(@, s)]
      OBVIOUS
    <2>5. Waits(graph, g, mine)
      <3>1. Distinct(graph)
        BY DEF GraphInv
      <3>2. QED
        BY <1>1, <2>2, <2>4, <3>1, AddDepKept
    <2>6. graph' = g
      BY <2>2, <2>4
    <2>7. QED
      BY <2>2, <2>3, <2>5, <2>6 DEF GraphInv, Waits
  <1>17. QED
    BY <1>4, <1>5, <1>6, <1>7, <1>8, <1>9, <1>10, <1>11, <1>12, <1>13, <1>14, <1>15, <1>16 DEF Build

\* What the invariant says of a graph is what the engine needs of it.
LEMMA GraphIsGood ==
    ASSUME GraphInv
    PROVE  /\ Ordered /\ SlotsFilled /\ InputsAreMade /\ DirsFirst /\ CleanKnows
           /\ ExtsApart => RemovedLast
  <1>1. Made(graph, mine) /\ IsGraph(graph) /\ mine \subseteq StepsOf(graph)
    BY DEF GraphInv, Made
  <1>2. \A s \in StepsOf(graph) : Sound(graph, s) /\ Recorded(graph, mine, s)
    BY <1>1 DEF Made
  <1>3. Ordered
    BY <1>1 DEF IsGraph, Ordered
  <1>4. SlotsFilled
    BY <1>2 DEF SlotsFilled, Sound, IsStep
  <1>5. InputsAreMade
    BY <1>2 DEF InputsAreMade, Sound, Builds, Products
  <1>6. DirsFirst
    BY <1>2 DEF DirsFirst, Sound
  <1>7. CleanKnows
    <2> SUFFICES ASSUME NEW r \in mine, NEW s \in Below(graph)[r] \cup {r},
                        NEW p \in Products(graph, s)
                 PROVE  \E t \in Below(graph)[r] \cup {r} : graph[t].out = p
      BY DEF CleanKnows
    <2>1. /\ r \in StepsOf(graph) /\ Below(graph)[r] \subseteq StepsOf(graph)
          /\ \A t \in Below(graph)[r] : Below(graph)[t] \subseteq Below(graph)[r]
          /\ \A t \in Below(graph)[r] :
                \E q \in Below(graph)[r] \cup {r} : t \in DepsOf(graph, q)
      <3>1. r \in StepsOf(graph)
        BY <1>1
      <3>2. QED
        BY <1>1, <3>1, BelowFacts
    <2>2. Recorded(graph, mine, s)
      BY <1>2, <2>1
    <2>3. CASE \E t \in Below(graph)[s] \cup {s} : graph[t].out = p
      BY <2>1, <2>3
    <2>4. CASE s \notin mine /\ \A q \in StepsOf(graph) : s \in DepsOf(graph, q) => graph[q].out = p
      <3>1. PICK q \in Below(graph)[r] \cup {r} : s \in DepsOf(graph, q)
        BY <2>1, <2>4
      <3>2. QED
        BY <2>1, <2>4, <3>1
    <2>5. QED
      BY <2>2, <2>3, <2>4 DEF Recorded
  <1>8. ExtsApart => RemovedLast
    BY DEF GraphInv, Lasts, RemovedLast
  <1>9. QED
    BY <1>3, <1>4, <1>5, <1>6, <1>7, <1>8

\* Before the first call there is nothing to know.
LEMMA NoGraphYet ==
    ASSUME graph = <<>>, mine = {}
    PROVE  GraphInv
  <1>1. IsSeq(graph) /\ Len(graph) = 0
    BY EmptySeq DEF IsSeq
  <1>2. StepsOf(graph) = {}
    BY <1>1 DEF StepsOf
  <1>3. Made(graph, mine) /\ Distinct(graph)
    BY <1>1, <1>2 DEF Made, IsGraph, Distinct
  <1>4. Removed(graph) = {}
    BY <1>2 DEF Removed
  <1>5. Lasts(graph, mine, Removable)
    BY <1>2, <1>3, <1>4 DEF Lasts
  <1>6. QED
    BY <1>3, <1>5 DEF GraphInv
=============================================================================
