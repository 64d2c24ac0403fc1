--------------------------- MODULE ImageCacheProofs ---------------------------
(***************************************************************************)
(* Theorems about ImageCache: any set of images, sizes, limits and Gets.   *)
(***************************************************************************)
EXTENDS ImageCache, TLAPS, FiniteSetTheorems, SequenceTheorems

-----------------------------------------------------------------------------
(***************************************************************************)
(* What a fold computes.  The provers know no induction principle for      *)
(* formulas, but a set of finite sets has a smallest member, and that is   *)
(* enough: of the sets for which a claim fails take a smallest one.        *)
(***************************************************************************)
LEMMA Smallest ==
  ASSUME NEW S, IsFiniteSet(S), NEW T \in SUBSET (SUBSET S), T # {}
  PROVE  \E x \in T : \A y \in T : y \subseteq x => y = x
  <1>1. IsWellFoundedOn(StrictSubsetOrdering(S), SUBSET S)
    BY FS_FiniteSubsetsOfFinite, FS_StrictSubsetOrderingWellFounded
  <1>2. \E x \in T : \A y \in T : ~ (<<y, x>> \in StrictSubsetOrdering(S))
    BY <1>1, WFMin
  <1> QED
    BY <1>2 DEF StrictSubsetOrdering

LEMMA SetInduct ==
  ASSUME NEW S, IsFiniteSet(S), NEW T, {} \in T,
         \A s \in SUBSET S : s # {} /\ (\A x \in s : s \ {x} \in T) => s \in T
  PROVE  SUBSET S \subseteq T
  <1> DEFINE Bad == (SUBSET S) \ T
  <1> SUFFICES ASSUME Bad # {} PROVE FALSE
    OBVIOUS
  <1>1. PICK u \in Bad : \A y \in Bad : y \subseteq u => y = u
    <2>1. Bad \in SUBSET (SUBSET S)
      OBVIOUS
    <2> HIDE DEF Bad
    <2> QED BY <2>1, Smallest
  <1>2. \A x \in u : u \ {x} \in T
    BY <1>1
  <1> QED BY <1>1, <1>2

LEMMA Induct ==
  ASSUME NEW n \in Nat, NEW T, 0 \in T, \A k \in 1 .. n : k - 1 \in T => k \in T
  PROVE  0 .. n \subseteq T
  <1> DEFINE Bad == {0 .. k : k \in (0 .. n) \ T}
  <1> SUFFICES ASSUME Bad # {} PROVE FALSE
    OBVIOUS
  <1>1. IsFiniteSet(0 .. n)
    BY FS_Interval
  <1>2. PICK u \in Bad : \A y \in Bad : y \subseteq u => y = u
    <2> DEFINE S == 0 .. n
    <2>1. Bad \in SUBSET (SUBSET S) /\ IsFiniteSet(S)
      BY <1>1
    <2> HIDE DEF Bad, S
    <2> QED BY <2>1, Smallest
  <1>3. PICK k \in (0 .. n) \ T : u = 0 .. k
    BY <1>2
  <1>4. k \in 1 .. n /\ k - 1 \in (0 .. n) \ T
    OBVIOUS
  <1>5. 0 .. k - 1 \in Bad /\ 0 .. k - 1 \subseteq 0 .. k /\ k \in 0 .. k /\ k \notin 0 .. k - 1
    BY <1>4
  <1> QED BY <1>2, <1>3, <1>5

\* The table of the values of a fold for the subsets of u: the value of {} is base,
\* that of s comes from s without pick[s].
IsFold(it, u, A, base, pick, G) ==
    /\ it \in [SUBSET u -> A]
    /\ \A s \in SUBSET u : it[s] = IF s = {} THEN base ELSE G[<<pick[s], it[s \ {pick[s]}]>>]

LEMMA FoldUnique ==
  ASSUME NEW S, IsFiniteSet(S), NEW A, NEW base, NEW pick, NEW G, NEW f, NEW g,
         \A s \in SUBSET S : s # {} => pick[s] \in s,
         NEW u \in SUBSET S, NEW v \in SUBSET S,
         IsFold(f, u, A, base, pick, G), IsFold(g, v, A, base, pick, G)
  PROVE  \A s \in SUBSET (u \cap v) : f[s] = g[s]
  <1> DEFINE T == {s \in SUBSET (u \cap v) : f[s] # g[s]}
  <1> SUFFICES ASSUME T # {} PROVE FALSE
    OBVIOUS
  <1>1. T \in SUBSET (SUBSET S)
    OBVIOUS
  <1>2. PICK x \in T : \A y \in T : y \subseteq x => y = x
    <2> HIDE DEF T
    <2> QED BY <1>1, Smallest
  <1>3. x # {}
    BY DEF IsFold
  <1>4. pick[x] \in x /\ x \ {pick[x]} \in SUBSET (u \cap v) /\ x \ {pick[x]} # x
    BY <1>3
  <1>5. f[x \ {pick[x]}] = g[x \ {pick[x]}]
    BY <1>2, <1>4
  <1> QED
    BY <1>3, <1>4, <1>5 DEF IsFold

LEMMA FoldExists ==
  ASSUME NEW S, IsFiniteSet(S), NEW A, NEW base \in A, NEW pick, NEW G,
         \A s \in SUBSET S : s # {} => pick[s] \in s,
         \A x \in S, a \in A : G[<<x, a>>] \in A
  PROVE  \E it : IsFold(it, S, A, base, pick, G)
  <1> DEFINE Is(f, u) == IsFold(f, u, A, base, pick, G)
             V(s) == (CHOOSE f : Is(f, s))[s]
             Ext(u) == [s \in SUBSET u |-> IF s = u
                          THEN IF u = {} THEN base ELSE G[<<pick[u], V(u \ {pick[u]})>>]
                          ELSE V(s)]
             T == {u \in SUBSET S : ~ \E f : Is(f, u)}
  <1>1. ASSUME NEW u \in SUBSET S, \A v \in SUBSET u : v # u => \E f : Is(f, v)
        PROVE  Is(Ext(u), u)
    <2>1. \A v \in SUBSET u : v # u => Is(CHOOSE f : Is(f, v), v)
      BY <1>1
    <2>2. ASSUME NEW v \in SUBSET u, v # u PROVE V(v) \in A
      <3> DEFINE f == CHOOSE f : Is(f, v)
      <3>1. IsFold(f, v, A, base, pick, G)
        BY <2>1, <2>2
      <3> HIDE DEF f
      <3>2. f \in [SUBSET v -> A] /\ v \in SUBSET v
        BY <3>1 DEF IsFold
      <3>3. f[v] \in A
        BY <3>2
      <3> QED BY <3>3 DEF f
    <2>3. u # {} => pick[u] \in u /\ u \ {pick[u]} \in SUBSET u /\ u \ {pick[u]} # u
      OBVIOUS
    <2>4. Ext(u) \in [SUBSET u -> A]
      BY <2>2, <2>3
    <2>5. ASSUME NEW s \in SUBSET u
          PROVE  Ext(u)[s] = IF s = {} THEN base ELSE G[<<pick[s], Ext(u)[s \ {pick[s]}]>>]
      <3>1. CASE s = u
        <4>1. CASE u = {}
          BY <3>1, <4>1
        <4>2. CASE u # {}
          <5>1. Ext(u)[u] = G[<<pick[u], V(u \ {pick[u]})>>]
            BY <4>2
          <5>2. Ext(u)[u \ {pick[u]}] = V(u \ {pick[u]})
            BY <2>3, <4>2
          <5> QED BY <3>1, <4>2, <5>1, <5>2
        <4> QED BY <4>1, <4>2
      <3>2. CASE s # u
        <4> DEFINE f == CHOOSE f : Is(f, s)
        <4>1. Is(f, s) /\ V(s) = f[s]
          BY <2>1, <3>2
        <4>2. Ext(u)[s] = f[s]
          BY <3>2, <4>1
        <4>3. CASE s = {}
          BY <4>1, <4>2, <4>3 DEF IsFold
        <4>4. CASE s # {}
          <5> DEFINE t == s \ {pick[s]}
                     g == CHOOSE g : Is(g, t)
          <5>1. pick[s] \in s /\ t \in SUBSET s /\ t # s /\ t \in SUBSET u /\ t # u
            BY <4>4
          <5>2. Is(g, t) /\ V(t) = g[t]
            BY <2>1, <5>1
          <5>3. Ext(u)[t] = g[t]
            BY <5>1, <5>2
          <5>4. f[t] = g[t]
            <6>1. s \in SUBSET S /\ t \in SUBSET S /\ t \in SUBSET (s \cap t)
              BY <5>1
            <6>2. IsFold(f, s, A, base, pick, G)
              BY <4>1
            <6>3. IsFold(g, t, A, base, pick, G)
              BY <5>2
            <6> HIDE DEF f, g, t
            <6>4. \A r \in SUBSET (s \cap t) : f[r] = g[r]
              BY <6>1, <6>2, <6>3, FoldUnique
            <6> QED BY <6>1, <6>4
          <5>5. f[s] = G[<<pick[s], f[t]>>]
            <6> HIDE DEF f
            <6> QED BY <4>1, <4>4 DEF IsFold
          <5> HIDE DEF Ext, f, g
          <5> QED BY <4>2, <4>4, <5>3, <5>4, <5>5
        <4> QED BY <4>3, <4>4
      <3> QED BY <3>1, <3>2
    <2> QED
      <3> HIDE DEF Ext
      <3> QED BY <2>4, <2>5 DEF IsFold
  <1>2. CASE T = {}
    BY <1>2
  <1>3. CASE T # {}
    <2>1. PICK u \in T : \A y \in T : y \subseteq u => y = u
      <3>1. T \in SUBSET (SUBSET S)
        OBVIOUS
      <3> HIDE DEF T
      <3> QED BY <1>3, <3>1, Smallest
    <2>2. \A v \in SUBSET u : v # u => \E f : Is(f, v)
      BY <2>1
    <2> HIDE DEF Is, Ext
    <2> QED BY <1>1, <2>2
  <1> QED BY <1>2, <1>3

LEMMA MaxOf ==
  ASSUME NEW n \in Nat, NEW s \in SUBSET (1 .. n), s # {}
  PROVE  Max(s) \in s /\ \A y \in s : y <= Max(s)
  <1>2. \E x \in s : \A y \in s : y <= x
    <2> DEFINE T == {k \in 0 .. n : s \cap (1 .. k) # {} => \E x \in s \cap (1 .. k) : \A y \in s \cap (1 .. k) : y <= x}
    <2>1. 0 \in T
      OBVIOUS
    <2>2. ASSUME NEW k \in 1 .. n, k - 1 \in T
          PROVE  k \in T
      <3>1. CASE k \in s
        BY <3>1
      <3>2. CASE k \notin s
        <4>1. s \cap (1 .. k) = s \cap (1 .. k - 1)
          BY <3>2
        <4> QED BY <2>2, <4>1
      <3> QED BY <3>1, <3>2
    <2> HIDE DEF T
    <2>3. n \in T
      BY <2>1, <2>2, Induct
    <2> QED BY <2>3 DEF T
  <1> QED BY <1>2 DEF Max

-----------------------------------------------------------------------------
\* The sum that TotalSize computes, of the values of f.
SumOf(f, S) == MapThenSumSet(LAMBDA r : f[r], S)

IsSumTable(it, f, D) ==
    /\ it \in [SUBSET D -> Nat]
    /\ \A S \in SUBSET D : it[S] = SumOf(f, S)
    /\ \A S \in SUBSET D :
        it[S] = IF S = {} THEN 0 ELSE f[CHOOSE x \in S : TRUE] + it[S \ {CHOOSE x \in S : TRUE}]

LEMMA SumTable ==
    ASSUME NEW D, IsFiniteSet(D), NEW f \in [D -> Nat]
    PROVE  \E it : IsSumTable(it, f, D)
  <1> DEFINE pick == [s \in SUBSET D |-> CHOOSE x \in s : TRUE]
             G == [xa \in D \X Nat |-> f[xa[1]] + xa[2]]
             Step(it, s) == IF s = {} THEN 0
                            ELSE f[CHOOSE x \in s : TRUE] + it[s \ {CHOOSE x \in s : TRUE}]
  <1>1. PICK it : IsFold(it, D, Nat, 0, pick, G)
    <2>1. \A s \in SUBSET D : s # {} => pick[s] \in s
      OBVIOUS
    <2>2. \A x \in D, a \in Nat : G[<<x, a>>] \in Nat
      OBVIOUS
    <2> HIDE DEF pick, G
    <2> QED BY <2>1, <2>2, FoldExists
  <1>2. ASSUME NEW s \in SUBSET D
        PROVE  it[s] \in Nat /\ it[s] = Step(it, s)
    <2>1. s # {} => pick[s] = (CHOOSE x \in s : TRUE) /\ pick[s] \in s
      OBVIOUS
    <2>2. s # {} => it[s \ {pick[s]}] \in Nat
      BY <1>1 DEF IsFold
    <2>3. s # {} => G[<<pick[s], it[s \ {pick[s]}]>>] = f[pick[s]] + it[s \ {pick[s]}]
      BY <2>1, <2>2
    <2> HIDE DEF pick, G
    <2> QED BY <1>1, <2>1, <2>3 DEF IsFold
  <1>3. ASSUME NEW S \in SUBSET D
        PROVE  it[S] = SumOf(f, S)
    <2> DEFINE Eq(c) == c = [s \in SUBSET S |-> Step(c, s)]
               c == CHOOSE c : Eq(c)
    <2>1. SumOf(f, S) = c[S]
      BY DEF SumOf, MapThenSumSet, MapThenFoldSet
    <2>2. Eq([s \in SUBSET S |-> it[s]])
      <3> DEFINE r == [s \in SUBSET S |-> it[s]]
      <3>1. ASSUME NEW s \in SUBSET S
            PROVE  r[s] = Step(r, s)
        <4>1. s # {} => (s \ {CHOOSE x \in s : TRUE}) \in SUBSET S
          OBVIOUS
        <4> QED BY <1>2, <4>1
      <3> HIDE DEF Step
      <3> QED BY <3>1
    <2>3. Eq(c)
      <3> HIDE DEF Eq
      <3> QED BY <2>2
    <2>4. \A s \in SUBSET S : c[s] = Step(c, s)
      <3> HIDE DEF c
      <3> QED BY <2>3
    <2> DEFINE T == {s \in SUBSET S : c[s] = it[s]}
    <2> HIDE DEF c
    <2>5. {} \in T
      BY <1>2, <2>4
    <2>6. ASSUME NEW s \in SUBSET S, s # {}, \A x \in s : s \ {x} \in T
          PROVE  s \in T
      BY <1>2, <2>4, <2>6
    <2>7. IsFiniteSet(S)
      BY FS_Subset
    <2> HIDE DEF T
    <2>8. S \in T
      BY <2>5, <2>6, <2>7, SetInduct
    <2> QED BY <2>1, <2>8 DEF T
  <1> QED
    <2>1. it \in [SUBSET D -> Nat]
      BY <1>1 DEF IsFold
    <2> QED BY <1>2, <1>3, <2>1 DEF IsSumTable

\* Whichever element is taken out first.
LEMMA SumStep ==
    ASSUME NEW D, IsFiniteSet(D), NEW f \in [D -> Nat], NEW S \in SUBSET D
    PROVE  /\ SumOf(f, S) \in Nat
           /\ S = {} => SumOf(f, S) = 0
           /\ \A x \in S : SumOf(f, S) = f[x] + SumOf(f, S \ {x})
  <1>1. PICK it : IsSumTable(it, f, D)
    BY SumTable
  <1> DEFINE T == {s \in SUBSET D : \A x \in s : it[s] = f[x] + it[s \ {x}]}
  <1>2. {} \in T
    OBVIOUS
  <1>3. ASSUME NEW s \in SUBSET D, s # {}, \A x \in s : s \ {x} \in T
        PROVE  s \in T
    <2> SUFFICES ASSUME NEW x \in s PROVE it[s] = f[x] + it[s \ {x}]
      OBVIOUS
    <2> DEFINE c == CHOOSE y \in s : TRUE
    <2>1. c \in s /\ it[s] = f[c] + it[s \ {c}]
      BY <1>1, <1>3 DEF IsSumTable
    <2> HIDE DEF c
    <2>2. CASE x = c
      BY <2>1, <2>2
    <2>3. CASE x # c
      <3>1. (s \ {c}) \ {x} = (s \ {x}) \ {c}
        OBVIOUS
      <3>2. it[s \ {c}] = f[x] + it[(s \ {x}) \ {c}]
        BY <1>3, <2>1, <2>3, <3>1
      <3>3. it[s \ {x}] = f[c] + it[(s \ {x}) \ {c}]
        BY <1>3, <2>1, <2>3
      <3>4. it[(s \ {x}) \ {c}] \in Nat /\ f[x] \in Nat /\ f[c] \in Nat
        BY <1>1, <2>1 DEF IsSumTable
      <3> HIDE DEF T
      <3> QED BY <2>1, <3>2, <3>3, <3>4
    <2> QED BY <2>2, <2>3
  <1>4. S \in T
    <2> HIDE DEF T
    <2> QED BY <1>2, <1>3, SetInduct
  <1> QED
    BY <1>1, <1>4 DEF IsSumTable

LEMMA SumMono ==
    ASSUME NEW D, IsFiniteSet(D), NEW f \in [D -> Nat], NEW S \in SUBSET D, NEW R \in SUBSET S
    PROVE  SumOf(f, R) <= SumOf(f, S)
  <1> DEFINE T == {s \in SUBSET D : \A r \in SUBSET s : SumOf(f, r) <= SumOf(f, s)}
  <1>1. {} \in T
    <2>1. \A r \in SUBSET {} : r = {}
      OBVIOUS
    <2>2. SumOf(f, {}) \in Nat
      BY SumStep
    <2> QED BY <2>1, <2>2
  <1>2. ASSUME NEW s \in SUBSET D, s # {}, \A x \in s : s \ {x} \in T
        PROVE  s \in T
    <2> SUFFICES ASSUME NEW r \in SUBSET s PROVE SumOf(f, r) <= SumOf(f, s)
      OBVIOUS
    <2>1. SumOf(f, s) \in Nat /\ SumOf(f, r) \in Nat
      BY SumStep
    <2>2. CASE r = s
      BY <2>1, <2>2
    <2>3. CASE r # s
      <3>1. PICK x \in s : x \notin r
        BY <2>3
      <3>2. SumOf(f, r) <= SumOf(f, s \ {x})
        BY <1>2, <3>1
      <3>3. SumOf(f, s) = f[x] + SumOf(f, s \ {x})
        BY SumStep
      <3>4. SumOf(f, s \ {x}) \in Nat /\ f[x] \in Nat
        BY SumStep
      <3> HIDE DEF T
      <3> QED BY <2>1, <3>2, <3>3, <3>4
    <2> QED BY <2>2, <2>3
  <1>3. S \in T
    <2> HIDE DEF T
    <2> QED BY <1>1, <1>2, SetInduct
  <1> QED BY <1>3

\* The sum is over the values in S only.
LEMMA SumAgree ==
    ASSUME NEW D, IsFiniteSet(D), NEW f \in [D -> Nat], NEW g \in [D -> Nat],
           NEW S \in SUBSET D, \A x \in S : f[x] = g[x]
    PROVE  SumOf(f, S) = SumOf(g, S)
  <1> DEFINE T == {s \in SUBSET S : SumOf(f, s) = SumOf(g, s)}
  <1>1. {} \in T
    BY SumStep
  <1>2. ASSUME NEW s \in SUBSET S, s # {}, \A x \in s : s \ {x} \in T
        PROVE  s \in T
    <2>1. PICK x \in s : TRUE
      BY <1>2
    <2>2. SumOf(f, s) = f[x] + SumOf(f, s \ {x}) /\ SumOf(g, s) = g[x] + SumOf(g, s \ {x})
      BY SumStep
    <2>3. SumOf(f, s \ {x}) = SumOf(g, s \ {x})
      BY <1>2
    <2> QED BY <2>2, <2>3
  <1>3. IsFiniteSet(S)
    BY FS_Subset
  <1>4. S \in T
    <2> HIDE DEF T
    <2> QED BY <1>1, <1>2, <1>3, SetInduct
  <1> QED BY <1>4

LEMMA SumZero ==
    ASSUME NEW D, IsFiniteSet(D), NEW f \in [D -> Nat],
           NEW S \in SUBSET D, \A x \in S : f[x] = 0
    PROVE  SumOf(f, S) = 0
  <1> DEFINE T == {s \in SUBSET S : SumOf(f, s) = 0}
  <1>1. {} \in T
    BY SumStep
  <1>2. ASSUME NEW s \in SUBSET S, s # {}, \A x \in s : s \ {x} \in T
        PROVE  s \in T
    <2>1. PICK x \in s : TRUE
      BY <1>2
    <2>2. SumOf(f, s) = f[x] + SumOf(f, s \ {x})
      BY SumStep
    <2> QED BY <1>2, <2>2
  <1>3. IsFiniteSet(S)
    BY FS_Subset
  <1>4. S \in T
    <2> HIDE DEF T
    <2> QED BY <1>1, <1>2, <1>3, SetInduct
  <1> QED BY <1>4

-----------------------------------------------------------------------------
\* What Without has collected after each round of its loop.
IsRounds(F, s, refs) ==
    /\ F \in [0 .. Len(s) -> Seq(Refs)]
    /\ F[0] = <<>>
    /\ F[Len(s)] = Without(s, refs)
    /\ \A k \in 1 .. Len(s) : F[k] = IF s[k] \in refs THEN F[k - 1] ELSE Append(F[k - 1], s[k])

LEMMA WithoutRounds ==
    ASSUME NEW s \in Seq(Refs), NEW refs
    PROVE  \E F : IsRounds(F, s, refs)
  <1> DEFINE D == 1 .. Len(s)
             pick == [u \in SUBSET D |-> Max(u)]
             G == [xa \in D \X Seq(Refs) |->
                     IF s[xa[1]] \in refs THEN xa[2] ELSE Append(xa[2], s[xa[1]])]
             Step(it, u) == IF u = {} THEN <<>>
                            ELSE IF s[Max(u)] \in refs THEN it[u \ {Max(u)}]
                            ELSE Append(it[u \ {Max(u)}], s[Max(u)])
             Eq(c) == c = [u \in SUBSET D |-> Step(c, u)]
             c == CHOOSE c : Eq(c)
  <1>0. Len(s) \in Nat /\ DOMAIN s = D /\ IsFiniteSet(D) /\ \A k \in D : s[k] \in Refs
    BY FS_Interval
  <1>1. \A u \in SUBSET D : u # {} => Max(u) \in u /\ Max(u) \in D
    BY <1>0, MaxOf
  <1>2. PICK it : IsFold(it, D, Seq(Refs), <<>>, pick, G)
    <2>1. \A u \in SUBSET D : u # {} => pick[u] \in u
      BY <1>1
    <2>2. \A x \in D, a \in Seq(Refs) : G[<<x, a>>] \in Seq(Refs)
      BY <1>0
    <2>3. <<>> \in Seq(Refs)
      OBVIOUS
    <2> HIDE DEF pick, G, D
    <2> QED BY <1>0, <2>1, <2>2, <2>3, FoldExists
  <1>3. it \in [SUBSET D -> Seq(Refs)]
    BY <1>2 DEF IsFold
  <1>4. ASSUME NEW u \in SUBSET D
        PROVE  it[u] = Step(it, u)
    <2>1. pick[u] = Max(u)
      OBVIOUS
    <2>2. u # {} => it[u \ {Max(u)}] \in Seq(Refs) /\ Max(u) \in D
      BY <1>1, <1>3
    <2>3. u # {} => G[<<Max(u), it[u \ {Max(u)}]>>] = Step(it, u)
      BY <2>2
    <2> HIDE DEF pick, G, D
    <2> QED BY <1>2, <2>1, <2>3 DEF IsFold
  <1>5. Eq(it)
    <2> HIDE DEF D, Step
    <2> QED BY <1>3, <1>4
  <1>6. Eq(c)
    <2> HIDE DEF Eq
    <2> QED BY <1>5
  <1>7. Without(s, refs) = c[D]
    BY <1>0 DEF Without, FoldLeft, MapThenFoldSet
  <1>8. c[D] = it[D]
    <2>1. \A u \in SUBSET D : c[u] = Step(c, u)
      <3> HIDE DEF c, Step, D
      <3> QED BY <1>6
    <2> DEFINE T == {u \in SUBSET D : c[u] = it[u]}
    <2> HIDE DEF c, D
    <2>2. {} \in T
      BY <1>4, <2>1
    <2>3. ASSUME NEW u \in SUBSET D, u # {}, \A x \in u : u \ {x} \in T
          PROVE  u \in T
      <3>1. c[u \ {Max(u)}] = it[u \ {Max(u)}]
        BY <1>1, <2>3
      <3> QED BY <1>4, <2>1, <3>1
    <2> HIDE DEF T
    <2>4. D \in T
      BY <1>0, <2>2, <2>3, SetInduct
    <2> QED BY <2>4 DEF T
  <1> DEFINE F == [k \in 0 .. Len(s) |-> it[1 .. k]]
  <1>9. F \in [0 .. Len(s) -> Seq(Refs)] /\ F[0] = <<>> /\ F[Len(s)] = Without(s, refs)
    <2>1. \A k \in 0 .. Len(s) : (1 .. k) \in SUBSET D
      BY <1>0
    <2>2. 1 .. 0 = {}
      OBVIOUS
    <2>3. it[{}] = <<>>
      BY <1>4
    <2> HIDE DEF c, Step
    <2> QED BY <1>0, <1>3, <1>7, <1>8, <2>1, <2>2, <2>3
  <1>10. ASSUME NEW k \in 1 .. Len(s)
         PROVE  F[k] = IF s[k] \in refs THEN F[k - 1] ELSE Append(F[k - 1], s[k])
    <2>1. (1 .. k) \in SUBSET D /\ 1 .. k # {} /\ k \in 1 .. k
      <3>1. k \in 1 .. k
        OBVIOUS
      <3>2. \A j \in 1 .. k : j \in 1 .. Len(s)
        OBVIOUS
      <3> QED BY <3>1, <3>2
    <2>2. Max(1 .. k) = k
      <3>1. Max(1 .. k) \in 1 .. k /\ k <= Max(1 .. k)
        BY <1>0, <2>1, MaxOf
      <3> QED BY <3>1
    <2>3. (1 .. k) \ {k} = 1 .. (k - 1) /\ k - 1 \in 0 .. Len(s) /\ k \in 0 .. Len(s)
      BY <1>0
    <2>4. it[1 .. k] = Step(it, 1 .. k)
      BY <1>4, <2>1
    <2> HIDE DEF D
    <2> QED BY <2>1, <2>2, <2>3, <2>4
  <1>11. IsRounds(F, s, refs)
    <2> HIDE DEF F
    <2> QED BY <1>9, <1>10 DEF IsRounds
  <1> QED BY <1>11

LEMMA AppendFacts ==
    ASSUME NEW s \in Seq(Refs), IsInjective(s), NEW r \in Refs, r \notin ToSet(s)
    PROVE  /\ Append(s, r) \in Seq(Refs)
           /\ IsInjective(Append(s, r))
           /\ ToSet(Append(s, r)) = ToSet(s) \cup {r}
           /\ Len(Append(s, r)) = Len(s) + 1
  BY DEF IsInjective, ToSet

\* What is left keeps its order, and nothing else appears.
LEMMA WithoutFacts ==
    ASSUME NEW s \in Seq(Refs), IsInjective(s), NEW refs
    PROVE  /\ Without(s, refs) \in Seq(Refs)
           /\ IsInjective(Without(s, refs))
           /\ ToSet(Without(s, refs)) = ToSet(s) \ refs
           /\ Len(Without(s, refs)) <= Len(s)
           /\ ToSet(s) \cap refs # {} => Len(Without(s, refs)) < Len(s)
  <1>1. PICK F : IsRounds(F, s, refs)
    BY WithoutRounds
  <1> USE DEF IsRounds
  <1> DEFINE Upto(k) == {s[i] : i \in 1 .. k}
             Good(k) == /\ IsInjective(F[k])
                        /\ ToSet(F[k]) = Upto(k) \ refs
                        /\ Len(F[k]) <= k
                        /\ Upto(k) \cap refs # {} => Len(F[k]) < k
             T == {k \in 0 .. Len(s) : Good(k)}
  <1>2. 0 \in T
    BY <1>1 DEF IsInjective, ToSet
  <1>3. ASSUME NEW k \in 1 .. Len(s), k - 1 \in T
        PROVE  k \in T
    <2>1. Good(k - 1) /\ k \in 0 .. Len(s)
      BY <1>3
    <2>2. Upto(k) = Upto(k - 1) \cup {s[k]} /\ s[k] \notin Upto(k - 1) /\ s[k] \in Refs
      BY DEF IsInjective
    <2>3. F[k - 1] \in Seq(Refs) /\ k - 1 \in Nat /\ Len(F[k - 1]) \in Nat
      BY <1>1
    <2> DEFINE e == F[k - 1]
               x == s[k]
    <2>4. CASE x \in refs
      <3>1. F[k] = e
        BY <1>1, <2>4
      <3> HIDE DEF Upto, e, x
      <3>2. Good(k)
        BY <2>1, <2>2, <2>3, <2>4, <3>1 DEF e, x
      <3> QED BY <2>1, <3>2
    <2>5. CASE x \notin refs
      <3>1. F[k] = Append(e, x)
        BY <1>1, <2>5
      <3>2. x \notin ToSet(e) /\ IsInjective(e)
        BY <2>1, <2>2
      <3>3. IsInjective(F[k]) /\ ToSet(F[k]) = ToSet(e) \cup {x} /\ Len(F[k]) = Len(e) + 1
        <4>1. e \in Seq(Refs) /\ x \in Refs
          BY <2>2, <2>3
        <4> HIDE DEF e, x
        <4> QED BY <3>1, <3>2, <4>1, AppendFacts
      <3>4. Upto(k) \ refs = (Upto(k - 1) \ refs) \cup {x} /\ Upto(k) \cap refs = Upto(k - 1) \cap refs
        BY <2>2, <2>5
      <3> HIDE DEF Upto
      <3>5. Good(k)
        BY <2>1, <2>3, <3>3, <3>4
      <3> QED BY <2>1, <3>5
    <2> QED BY <2>4, <2>5
  <1>4. Len(s) \in T
    <2> HIDE DEF T
    <2>1. Len(s) \in Nat
      OBVIOUS
    <2>2. 0 .. Len(s) \subseteq T
      BY <1>2, <1>3, <2>1, Induct
    <2> QED BY <2>1, <2>2
  <1>5. Upto(Len(s)) = ToSet(s)
    BY DEF ToSet
  <1> HIDE DEF Upto
  <1> QED BY <1>1, <1>4, <1>5

\* The newest entries of a sequence.
LEMMA SuffixFacts ==
    ASSUME NEW s \in Seq(Refs), IsInjective(s), NEW k \in 0 .. Len(s)
    PROVE  LET t == SubSeq(s, k + 1, Len(s)) IN
           /\ t \in Seq(Refs)
           /\ IsInjective(t)
           /\ ToSet(t) \subseteq ToSet(s)
           /\ Len(t) = Len(s) - k
  <1> DEFINE t == SubSeq(s, k + 1, Len(s))
  <1>1. t \in Seq(Refs) /\ Len(t) = Len(s) - k /\ \A i \in 1 .. Len(s) - k : t[i] = s[k + i]
    OBVIOUS
  <1> HIDE DEF t
  <1>2. DOMAIN t = 1 .. Len(s) - k /\ \A i \in DOMAIN t : k + i \in DOMAIN s /\ t[i] = s[k + i]
    BY <1>1
  <1>3. IsInjective(t)
    BY <1>2 DEF IsInjective
  <1>4. ToSet(t) \subseteq ToSet(s)
    BY <1>2 DEF ToSet
  <1> QED BY <1>1, <1>3, <1>4 DEF t

\* There are no more entries than references.
LEMMA InjectiveLen ==
    ASSUME NEW s \in Seq(Refs), IsInjective(s)
    PROVE  /\ Cardinality(Refs) \in Nat
           /\ Len(s) \in 0 .. Cardinality(Refs)
           /\ s \in BoundedSeq(Refs, Cardinality(Refs))
  <1>1. s \in Injection(1 .. Len(s), Refs)
    BY DEF IsInjective, Injection
  <1>2. Cardinality(1 .. Len(s)) <= Cardinality(Refs)
    BY <1>1, CacheAssumption, FS_Injection
  <1>3. Cardinality(1 .. Len(s)) = Len(s)
    <2>1. Len(s) \in Nat /\ Len(s) \in Int /\ 1 \in Int
      OBVIOUS
    <2>2. Cardinality(1 .. Len(s)) = IF 1 > Len(s) THEN 0 ELSE Len(s) - 1 + 1
      BY <2>1, FS_Interval
    <2> QED BY <2>1, <2>2
  <1>4. Cardinality(Refs) \in Nat
    BY CacheAssumption, FS_CardinalityType
  <1> QED
    BY <1>2, <1>3, <1>4 DEF BoundedSeq, SeqOf

-----------------------------------------------------------------------------
(***************************************************************************)
(* WithinSize for any sizes f and any entries C, and what the operations   *)
(* do to it.                                                               *)
(***************************************************************************)
Within(f, C) == SumOf(f, C) <= MaxSize \/ Cardinality({r \in C : f[r] > 0}) = 1

\* Entries are removed.
LEMMA WithinFewer ==
    ASSUME NEW f \in [Refs -> Nat], NEW C \in SUBSET Refs, Within(f, C), NEW B \in SUBSET C
    PROVE  Within(f, B)
  <1>1. IsFiniteSet(Refs) /\ MaxSize \in Nat
    BY CacheAssumption
  <1>2. CASE SumOf(f, C) <= MaxSize
    <2>1. SumOf(f, B) <= SumOf(f, C) /\ SumOf(f, B) \in Nat /\ SumOf(f, C) \in Nat
      BY <1>1, SumMono, SumStep
    <2> QED BY <1>1, <1>2, <2>1 DEF Within
  <1>3. CASE Cardinality({r \in C : f[r] > 0}) = 1
    <2>1. IsFiniteSet({r \in C : f[r] > 0})
      BY <1>1, FS_Subset
    <2>2. PICK x : {r \in C : f[r] > 0} = {x}
      BY <1>3, <2>1, FS_Singleton
    <2>3. CASE x \in B
      <3>1. {r \in B : f[r] > 0} = {x}
        BY <2>2, <2>3
      <3> QED BY <3>1, FS_Singleton DEF Within
    <2>4. CASE x \notin B
      <3>1. \A r \in B : f[r] = 0
        BY <2>2, <2>4
      <3>2. SumOf(f, B) = 0
        BY <1>1, <3>1, SumZero
      <3> QED BY <1>1, <3>2 DEF Within
    <2> QED BY <2>3, <2>4
  <1> QED BY <1>2, <1>3 DEF Within

\* An entry without a size is added.
LEMMA WithinUnsized ==
    ASSUME NEW f \in [Refs -> Nat], NEW C \in SUBSET Refs, Within(f, C), NEW r \in Refs \ C
    PROVE  Within([f EXCEPT ![r] = 0], C \cup {r})
  <1> DEFINE g == [f EXCEPT ![r] = 0]
             U == C \cup {r}
  <1>1. IsFiniteSet(Refs) /\ g \in [Refs -> Nat] /\ U \in SUBSET Refs /\ r \in U /\ U \ {r} = C
    BY CacheAssumption
  <1>2. g[r] = 0 /\ \A x \in C : g[x] = f[x]
    OBVIOUS
  <1>3. {x \in U : g[x] > 0} = {x \in C : f[x] > 0}
    BY <1>2
  <1> HIDE DEF g, U
  <1>4. SumOf(g, U) = g[r] + SumOf(g, U \ {r})
    BY <1>1, SumStep
  <1>5. SumOf(g, C) = SumOf(f, C) /\ SumOf(g, C) \in Nat
    BY <1>1, <1>2, SumAgree, SumStep
  <1>6. SumOf(g, U) = SumOf(f, C)
    BY <1>1, <1>2, <1>4, <1>5
  <1> QED BY <1>3, <1>6 DEF Within, g, U

\* An image is stored beside entries that leave it room, or by itself.
LEMMA WithinStored ==
    ASSUME NEW f \in [Refs -> Nat], NEW K \in SUBSET Refs, NEW r \in Refs, NEW n \in Nat,
           SumOf(f, K) + n <= MaxSize \/ K = {}
    PROVE  Within([f EXCEPT ![r] = n], (K \ {r}) \cup {r})
  <1> DEFINE g == [f EXCEPT ![r] = n]
             U == (K \ {r}) \cup {r}
  <1>1. /\ IsFiniteSet(Refs) /\ MaxSize \in Nat /\ g \in [Refs -> Nat] /\ U \in SUBSET Refs
        /\ r \in U /\ U \ {r} = K \ {r} /\ K \ {r} \in SUBSET K /\ K \ {r} \in SUBSET Refs
    BY CacheAssumption
  <1>2. g[r] = n /\ \A x \in K \ {r} : g[x] = f[x]
    OBVIOUS
  <1>3. K = {} => U = {r}
    OBVIOUS
  <1> HIDE DEF g, U
  <1>4. SumOf(g, U) = n + SumOf(g, K \ {r})
    BY <1>1, <1>2, SumStep
  <1>5. SumOf(g, K \ {r}) = SumOf(f, K \ {r}) /\ SumOf(g, K \ {r}) \in Nat
    BY <1>1, <1>2, SumAgree, SumStep
  <1>6. SumOf(f, K \ {r}) <= SumOf(f, K) /\ SumOf(f, K) \in Nat
    BY <1>1, SumMono, SumStep
  <1>7. CASE SumOf(f, K) + n <= MaxSize
    BY <1>1, <1>4, <1>5, <1>6, <1>7 DEF Within, g, U
  <1>8. CASE K = {} /\ n > MaxSize
    <2>1. {x \in U : g[x] > 0} = {r}
      BY <1>1, <1>2, <1>3, <1>8
    <2> QED BY <2>1, FS_Singleton DEF Within, g, U
  <1>9. CASE K = {} /\ n <= MaxSize
    <2>1. SumOf(f, K) = 0
      BY <1>1, <1>9, SumStep
    <2> QED BY <1>1, <1>7, <1>9, <2>1
  <1> QED BY <1>1, <1>7, <1>8, <1>9

-----------------------------------------------------------------------------
\* A set of numbers up to n that holds n has a least member.
LEMMA LeastOf ==
    ASSUME NEW n \in Nat, NEW P \in SUBSET (0 .. n), n \in P
    PROVE  \E k \in P : \A j \in 0 .. k - 1 : j \notin P
  <1> SUFFICES ASSUME \A k \in P : \E j \in 0 .. k - 1 : j \in P PROVE FALSE
    OBVIOUS
  <1> DEFINE T == {k \in 0 .. n : \A j \in 0 .. k : j \notin P}
  <1>1. 0 \in T
    <2>1. \A j \in 0 .. 0 : j = 0
      OBVIOUS
    <2>2. 0 \notin P
      OBVIOUS
    <2> QED BY <2>1, <2>2
  <1>2. ASSUME NEW k \in 1 .. n, k - 1 \in T
        PROVE  k \in T
    <2>1. \A j \in 0 .. k - 1 : j \notin P
      BY <1>2
    <2>2. k \notin P
      BY <2>1
    <2>3. \A j \in 0 .. k : j = k \/ j \in 0 .. k - 1
      OBVIOUS
    <2>4. k \in 0 .. n
      OBVIOUS
    <2> QED BY <2>1, <2>2, <2>3, <2>4
  <1>3. 0 .. n \subseteq T
    <2> HIDE DEF T
    <2> QED BY <1>1, <1>2, Induct
  <1> QED BY <1>3

\* The loop of enforceSizeLimits leaves the newest entries: those that fit, or none.
LEMMA SizeLimitFacts ==
    ASSUME lru \in Seq(Refs), NEW n
    PROVE  \E k \in 0 .. Len(lru) :
            /\ AfterSizeLimit(n) = SubSeq(lru, k + 1, Len(lru))
            /\ k = Len(lru) \/ Fits(AfterSizeLimit(n), n)
  <1> DEFINE Enough(j) == j = Len(lru) \/ Fits(SubSeq(lru, j + 1, Len(lru)), n)
             P == {k \in 0 .. Len(lru) : Enough(k)}
             Least(k) == Enough(k) /\ \A j \in 0 .. k - 1 : ~Enough(j)
             drop == CHOOSE k \in 0 .. Len(lru) : Least(k)
  <1>1. \E k \in 0 .. Len(lru) : Least(k)
    <2>1. Len(lru) \in Nat /\ P \in SUBSET (0 .. Len(lru)) /\ Len(lru) \in P
      OBVIOUS
    <2>2. \E k \in P : \A j \in 0 .. k - 1 : j \notin P
      <3> HIDE DEF P
      <3> QED BY <2>1, LeastOf
    <2>3. PICK k \in P : \A j \in 0 .. k - 1 : j \notin P
      BY <2>2
    <2>4. \A j \in 0 .. k - 1 : j \in 0 .. Len(lru)
      OBVIOUS
    <2> HIDE DEF Enough
    <2> QED BY <2>3, <2>4
  <1>2. drop \in 0 .. Len(lru) /\ Enough(drop)
    <2> HIDE DEF Enough
    <2> QED BY <1>1
  <1>3. AfterSizeLimit(n) = SubSeq(lru, drop + 1, Len(lru))
    BY DEF AfterSizeLimit
  <1> HIDE DEF drop
  <1> QED BY <1>2, <1>3

-----------------------------------------------------------------------------
(***************************************************************************)
(* The inductive invariant.  A Get that is still attached is under way and *)
(* its reference is cached, so touching the entry adds nothing to the map. *)
(***************************************************************************)
Held == \A g \in attached : pc[g] # "idle" /\ found[g] \in Cached

IInv == TypeOK /\ WithinSize /\ Held

LEMMA TypeFacts ==
    ASSUME IInv
    PROVE  /\ lru \in Seq(Refs) /\ IsInjective(lru) /\ Cached \in SUBSET Refs
           /\ size \in [Refs -> Nat] /\ Within(size, Cached)
  <1>1. lru \in Seq(Refs)
    BY DEF IInv, TypeOK, BoundedSeq, SeqOf
  <1>2. Cached \in SUBSET Refs
    BY <1>1 DEF Cached, ToSet
  <1>3. size \in [Refs -> Nat]
    <2>1. size \in [Refs -> Sizes \cup {0}] /\ \A x \in Sizes \cup {0} : x \in Nat
      BY CacheAssumption DEF IInv, TypeOK
    <2> QED BY <2>1
  <1>4. TotalSize(Cached) = SumOf(size, Cached)
    BY DEF TotalSize, SumOf
  <1> QED
    BY <1>1, <1>2, <1>3, <1>4 DEF IInv, TypeOK, WithinSize, Within

\* What the next state must show.
LEMMA Reestablish ==
    ASSUME lru' \in Seq(Refs), IsInjective(lru'), Within(size', Cached'),
           size' \in [Refs -> Sizes \cup {0}], expired' \subseteq Cached',
           (reported' = reported /\ reported \in 0 .. Cardinality(Refs)) \/ reported' = Len(lru'),
           pc' \in [Getters -> {"idle", "check", "delete", "touch"}],
           found' \in [Getters -> Refs], attached' \subseteq Getters, foundOld' \subseteq Getters,
           running' \in BOOLEAN, Held'
    PROVE  IInv'
  <1>1. /\ Len(lru') \in 0 .. Cardinality(Refs)
        /\ lru' \in BoundedSeq(Refs, Cardinality(Refs))
    BY InjectiveLen
  <1>2. TypeOK'
    BY <1>1 DEF TypeOK
  <1>3. TotalSize(Cached)' = SumOf(size', Cached')
    BY DEF TotalSize, SumOf, Cached, MapThenSumSet, MapThenFoldSet
  <1>4. WithinSize'
    BY <1>3 DEF WithinSize, Within
  <1> QED BY <1>2, <1>4 DEF IInv

\* What Put has kept when it stores an image of size n: room for it, in both limits.
LEMMA KeptFacts ==
    ASSUME IInv, NEW n \in Sizes, NEW kept, kept = AfterCountLimit(AfterSizeLimit(n))
    PROVE  /\ kept \in Seq(Refs) /\ IsInjective(kept) /\ ToSet(kept) \in SUBSET Cached
           /\ SumOf(size, ToSet(kept)) + n <= MaxSize \/ ToSet(kept) = {}
           /\ Len(kept) + 1 <= Len(lru) \/ Len(kept) + 1 <= MaxCachedImages
  <1> DEFINE t == AfterSizeLimit(n)
  <1>1. lru \in Seq(Refs) /\ IsInjective(lru) /\ Cached \in SUBSET Refs /\ size \in [Refs -> Nat]
    BY TypeFacts
  <1>2. PICK k \in 0 .. Len(lru) :
            t = SubSeq(lru, k + 1, Len(lru)) /\ (k = Len(lru) \/ Fits(t, n))
    BY <1>1, SizeLimitFacts
  <1> HIDE DEF t
  <1>3. t \in Seq(Refs) /\ IsInjective(t) /\ ToSet(t) \subseteq Cached /\ Len(t) = Len(lru) - k
    BY <1>1, <1>2, SuffixFacts DEF Cached
  <1>4. MaxCachedImages \in Nat \ {0} /\ n \in Nat /\ MaxSize \in Nat /\ IsFiniteSet(Refs)
    BY CacheAssumption
  <1>5. ToSet(t) = {} \/ SumOf(size, ToSet(t)) + n <= MaxSize
    <2>1. CASE k = Len(lru)
      <3>1. t = <<>>
        BY <1>3, <2>1
      <3> QED BY <3>1 DEF ToSet
    <2>2. CASE Fits(t, n)
      BY <2>2 DEF Fits, TotalSize, SumOf
    <2> QED BY <1>2, <2>1, <2>2
  <1>6. kept = IF Len(t) >= MaxCachedImages /\ t # <<>> THEN Tail(t) ELSE t
    BY DEF AfterCountLimit, t
  <1>7. CASE Len(t) >= MaxCachedImages /\ t # <<>>
    <2>1. kept = SubSeq(t, 1 + 1, Len(t)) /\ 1 \in 0 .. Len(t) /\ Len(t) \in Nat
      BY <1>3, <1>4, <1>6, <1>7
    <2>2. kept \in Seq(Refs) /\ IsInjective(kept) /\ ToSet(kept) \subseteq ToSet(t) /\ Len(kept) = Len(t) - 1
      BY <1>3, <2>1, SuffixFacts
    <2>3. ToSet(t) \in SUBSET Refs
      BY <1>1, <1>3
    <2>4. /\ SumOf(size, ToSet(kept)) <= SumOf(size, ToSet(t))
          /\ SumOf(size, ToSet(kept)) \in Nat /\ SumOf(size, ToSet(t)) \in Nat
      BY <1>1, <1>4, <2>2, <2>3, SumMono, SumStep
    <2>5. SumOf(size, ToSet(kept)) + n <= MaxSize \/ ToSet(kept) = {}
      BY <1>4, <1>5, <2>2, <2>4
    <2>6. Len(kept) + 1 <= Len(lru)
      BY <1>1, <1>3, <2>1, <2>2
    <2> QED BY <1>3, <2>2, <2>5, <2>6
  <1>8. CASE ~(Len(t) >= MaxCachedImages /\ t # <<>>)
    <2>1. kept = t
      BY <1>6, <1>8
    <2>2. Len(t) + 1 <= MaxCachedImages
      <3>1. t = <<>> => Len(t) = 0
        OBVIOUS
      <3>2. Len(t) \in Nat
        BY <1>3
      <3> QED BY <1>4, <1>8, <3>1, <3>2
    <2> QED BY <1>3, <1>5, <2>1, <2>2
  <1> QED BY <1>7, <1>8

LEMMA InitIInv == Init => IInv
  <1> SUFFICES ASSUME Init PROVE IInv
    OBVIOUS
  <1>1. lru = <<>> /\ lru \in Seq(Refs) /\ IsInjective(lru) /\ Cached = {}
    BY DEF Init, IsInjective, Cached, ToSet
  <1>2. lru \in BoundedSeq(Refs, Cardinality(Refs)) /\ Cardinality(Refs) \in Nat
    BY <1>1, InjectiveLen
  <1>3. (CHOOSE r \in Refs : TRUE) \in Refs
    BY CacheAssumption
  <1>4. TypeOK
    BY <1>1, <1>2, <1>3 DEF Init, TypeOK
  <1>5. Held
    BY DEF Init, Held
  <1>6. WithinSize
    <2>1. TotalSize(Cached) = SumOf(size, {})
      BY <1>1 DEF TotalSize, SumOf
    <2>2. size \in [Refs -> Nat] /\ IsFiniteSet(Refs) /\ MaxSize \in Nat
      BY CacheAssumption DEF Init
    <2>3. SumOf(size, {}) = 0
      BY <2>2, SumStep
    <2> QED BY <2>1, <2>2, <2>3 DEF WithinSize
  <1> QED BY <1>4, <1>5, <1>6 DEF IInv

LEMMA PutStep ==
    ASSUME IInv, NEW r \in Refs, NEW n \in Sizes, Put(r, n)
    PROVE  IInv' /\ (Len(lru') <= Len(lru) \/ Len(lru') <= MaxCachedImages)
  <1> DEFINE kept == AfterCountLimit(AfterSizeLimit(n))
             left == Without(kept, {r})
  <1>1. /\ lru' = Append(left, r)
        /\ size' = [size EXCEPT ![r] = n]
        /\ expired' = expired \cap (ToSet(kept) \ {r})
        /\ reported' = Len(lru')
        /\ attached' = attached \ HoldersOf((Cached \ ToSet(kept)) \cup {r})
        /\ UNCHANGED <<pc, found, foundOld, running>>
    BY DEF Put, Detach, getVars
  <1>2. lru \in Seq(Refs) /\ Cached \in SUBSET Refs /\ size \in [Refs -> Nat] /\ n \in Nat
    BY TypeFacts, CacheAssumption
  <1>3. /\ kept \in Seq(Refs) /\ IsInjective(kept) /\ ToSet(kept) \in SUBSET Cached
        /\ SumOf(size, ToSet(kept)) + n <= MaxSize \/ ToSet(kept) = {}
        /\ Len(kept) + 1 <= Len(lru) \/ Len(kept) + 1 <= MaxCachedImages
    BY KeptFacts
  <1> HIDE DEF kept
  <1>4. /\ left \in Seq(Refs) /\ IsInjective(left) /\ ToSet(left) = ToSet(kept) \ {r}
        /\ Len(left) <= Len(kept)
    BY <1>3, WithoutFacts
  <1> HIDE DEF left
  <1>5. /\ lru' \in Seq(Refs) /\ IsInjective(lru') /\ Cached' = (ToSet(kept) \ {r}) \cup {r}
        /\ Len(lru') = Len(left) + 1
    <2>1. r \notin ToSet(left)
      BY <1>4
    <2> QED BY <1>1, <1>4, <2>1, AppendFacts DEF Cached
  <1>6. Within(size', Cached')
    BY <1>1, <1>2, <1>3, <1>5, WithinStored
  <1>7. Held'
    <2> SUFFICES ASSUME NEW g \in attached' PROVE (pc[g] # "idle" /\ found[g] \in Cached)'
      BY DEF Held
    <2>1. g \in attached /\ g \in Getters
      BY <1>1 DEF IInv, TypeOK
    <2>2. pc[g] # "idle" /\ found[g] \in Cached
      BY <2>1 DEF IInv, Held
    <2>3. found[g] \notin (Cached \ ToSet(kept)) \cup {r}
      BY <1>1, <2>1, <2>2 DEF HoldersOf
    <2> QED BY <1>1, <1>5, <2>2, <2>3
  <1>8. IInv'
    <2>1. size' \in [Refs -> Sizes \cup {0}]
      BY <1>1 DEF IInv, TypeOK
    <2>2. expired' \subseteq Cached'
      BY <1>1, <1>5
    <2>3. TypeOK
      BY DEF IInv
    <2> QED BY <1>1, <1>5, <1>6, <1>7, <2>1, <2>2, <2>3, Reestablish DEF TypeOK
  <1>9. Len(lru') <= Len(lru) \/ Len(lru') <= MaxCachedImages
    <2>1. Len(left) \in Nat /\ Len(kept) \in Nat /\ Len(lru) \in Nat /\ MaxCachedImages \in Nat
      BY <1>2, <1>3, <1>4, CacheAssumption
    <2> QED BY <1>3, <1>4, <1>5, <2>1
  <1> QED BY <1>8, <1>9

LEMMA PrepullStep ==
    ASSUME IInv, NEW r \in PrepullRefs, Prepull(r)
    PROVE  IInv'
  <1>1. /\ r \notin Cached /\ lru' = Append(lru, r) /\ size' = [size EXCEPT ![r] = 0]
        /\ UNCHANGED <<expired, reported, pc, found, attached, foundOld, running>>
    BY DEF Prepull, getVars
  <1>2. /\ lru \in Seq(Refs) /\ IsInjective(lru) /\ Cached \in SUBSET Refs
        /\ size \in [Refs -> Nat] /\ Within(size, Cached) /\ r \in Refs
    BY TypeFacts, CacheAssumption
  <1>3. lru' \in Seq(Refs) /\ IsInjective(lru') /\ Cached' = Cached \cup {r}
    BY <1>1, <1>2, AppendFacts DEF Cached
  <1>4. Within(size', Cached')
    BY <1>1, <1>2, <1>3, WithinUnsized
  <1>5. size' \in [Refs -> Sizes \cup {0}] /\ expired' \subseteq Cached'
    BY <1>1, <1>2, <1>3 DEF IInv, TypeOK
  <1>6. Held'
    BY <1>1, <1>3 DEF IInv, Held
  <1> QED BY <1>1, <1>3, <1>4, <1>5, <1>6, Reestablish DEF IInv, TypeOK

(***************************************************************************)
(* Entries leave the map, and the Gets that hold them are detached:        *)
(* Invalidate, CleanupExpired and an expiring Get.                         *)
(***************************************************************************)
LEMMA RemoveStep ==
    ASSUME IInv, NEW refs, lru' = Without(lru, refs), size' = size,
           expired' \subseteq expired \ refs,
           reported' = reported \/ reported' = Len(lru'),
           pc' \in [Getters -> {"idle", "check", "delete", "touch"}], found' = found,
           attached' \subseteq attached \ HoldersOf(refs),
           \A g \in attached' : pc'[g] = pc[g],
           foundOld' \subseteq Getters, running' = running
    PROVE  IInv' /\ Len(lru') <= Len(lru)
  <1>1. /\ lru \in Seq(Refs) /\ IsInjective(lru) /\ Cached \in SUBSET Refs
        /\ size \in [Refs -> Nat] /\ Within(size, Cached)
    BY TypeFacts
  <1>2. /\ lru' \in Seq(Refs) /\ IsInjective(lru') /\ Cached' = Cached \ refs
        /\ Len(lru') <= Len(lru)
    BY <1>1, WithoutFacts DEF Cached
  <1>3. Within(size', Cached')
    BY <1>1, <1>2, WithinFewer
  <1>4. Held'
    <2> SUFFICES ASSUME NEW g \in attached' PROVE (pc[g] # "idle" /\ found[g] \in Cached)'
      BY DEF Held
    <2>1. g \in attached /\ g \in Getters /\ g \notin HoldersOf(refs)
      BY DEF IInv, TypeOK
    <2>2. pc[g] # "idle" /\ found[g] \in Cached
      BY <2>1 DEF IInv, Held
    <2> QED BY <1>2, <2>1, <2>2 DEF HoldersOf
  <1>5. expired' \subseteq Cached'
    BY <1>2 DEF IInv, TypeOK
  <1> QED BY <1>2, <1>3, <1>4, <1>5, Reestablish DEF IInv, TypeOK

\* A touched entry moves to the end; the Get is attached, so it was in the map.
LEMMA TouchStep ==
    ASSUME IInv, NEW g \in Getters, GetTouch(g)
    PROVE  IInv' /\ Len(lru') <= Len(lru)
  <1> DEFINE r == found[g]
             left == Without(lru, {r})
  <1>1. /\ lru' = IF g \in attached THEN Append(left, r) ELSE lru
        /\ pc' = [pc EXCEPT ![g] = "idle"] /\ attached' = attached \ {g} /\ foundOld' = foundOld \ {g}
        /\ UNCHANGED <<size, expired, reported, found, running>>
    BY DEF GetTouch
  <1>2. /\ lru \in Seq(Refs) /\ IsInjective(lru) /\ Cached \in SUBSET Refs
        /\ size \in [Refs -> Nat] /\ Within(size, Cached)
    BY TypeFacts
  <1>3. lru' \in Seq(Refs) /\ IsInjective(lru') /\ Cached' = Cached /\ Len(lru') <= Len(lru)
    <2>1. CASE g \notin attached
      BY <1>1, <1>2, <2>1 DEF Cached
    <2>2. CASE g \in attached
      <3>1. r \in Cached /\ r \in Refs
        BY <1>2, <2>2 DEF IInv, Held
      <3>2. left \in Seq(Refs) /\ IsInjective(left) /\ ToSet(left) = Cached \ {r} /\ Len(left) < Len(lru)
        BY <1>2, <3>1, WithoutFacts DEF Cached
      <3> HIDE DEF left, r
      <3>3. lru' = Append(left, r) /\ r \notin ToSet(left)
        BY <1>1, <2>2, <3>2
      <3>4. lru' \in Seq(Refs) /\ IsInjective(lru') /\ Cached' = ToSet(left) \cup {r} /\ Len(lru') = Len(left) + 1
        BY <3>1, <3>2, <3>3, AppendFacts DEF Cached
      <3>5. Cached' = Cached
        BY <3>1, <3>2, <3>4
      <3>6. Len(left) \in Nat /\ Len(lru) \in Nat
        BY <1>2, <3>2
      <3> QED BY <3>2, <3>4, <3>5, <3>6
    <2> QED BY <2>1, <2>2
  <1>4. Within(size', Cached')
    BY <1>1, <1>2, <1>3
  <1>5. Held'
    BY <1>1, <1>3 DEF IInv, TypeOK, Held
  <1> QED BY <1>1, <1>3, <1>4, <1>5, Reestablish DEF IInv, TypeOK

\* Steps that leave the map's entries alone.
LEMMA OtherStep ==
    ASSUME IInv,
           \/ \E g \in Getters, r \in Refs : GetLookup(g, r)
           \/ \E g \in Getters : GetCheck(g) \/ ExpireFound(g)
           \/ \E r \in Refs : Expire(r)
           \/ Stop \/ UNCHANGED vars
    PROVE  IInv' /\ Len(lru') <= Len(lru)
  <1>1. /\ lru \in Seq(Refs) /\ IsInjective(lru) /\ Within(size, Cached) /\ Len(lru) \in Nat
    BY TypeFacts
  <1>2. lru' = lru /\ size' = size /\ reported' = reported /\ Cached' = Cached
    BY DEF GetLookup, GetCheck, ExpireFound, Expire, Stop, vars, getVars, Cached
  <1>3. Within(size', Cached')
    BY <1>1, <1>2
  <1>4. /\ expired' \subseteq Cached
        /\ pc' \in [Getters -> {"idle", "check", "delete", "touch"}]
        /\ found' \in [Getters -> Refs] /\ attached' \subseteq Getters /\ foundOld' \subseteq Getters
        /\ running' \in BOOLEAN
    <2> USE DEF IInv, TypeOK
    <2>1. CASE \E g \in Getters, r \in Refs : GetLookup(g, r)
      BY <2>1 DEF GetLookup
    <2>2. CASE \E g \in Getters : GetCheck(g) \/ ExpireFound(g)
      BY <2>2 DEF GetCheck, ExpireFound, getVars
    <2>3. CASE (\E r \in Refs : Expire(r)) \/ Stop \/ UNCHANGED vars
      BY <2>3 DEF Expire, Stop, vars, getVars
    <2> QED BY <2>1, <2>2, <2>3
  <1>5. Held'
    <2> USE DEF IInv, TypeOK, Held
    <2>1. ASSUME NEW g \in Getters, NEW r \in Refs, GetLookup(g, r)
          PROVE  Held'
      BY <1>2, <2>1 DEF GetLookup
    <2>2. ASSUME NEW g \in Getters, GetCheck(g)
          PROVE  Held'
      BY <1>2, <2>2 DEF GetCheck
    <2>3. ASSUME UNCHANGED <<pc, found, attached>>
          PROVE  Held'
      BY <1>2, <2>3
    <2> HIDE DEF IInv, TypeOK, Held
    <2> QED BY <2>1, <2>2, <2>3 DEF ExpireFound, Expire, Stop, vars, getVars
  <1>6. IInv'
    BY <1>1, <1>2, <1>3, <1>4, <1>5, Reestablish DEF IInv, TypeOK
  <1> QED BY <1>1, <1>2, <1>6

LEMMA NextStep ==
    ASSUME IInv, [Next]_vars
    PROVE  /\ IInv'
           /\ \/ Len(lru') <= Len(lru) \/ Len(lru') <= MaxCachedImages
              \/ \E r \in PrepullRefs : Prepull(r)
  <1> USE DEF IInv
  <1>1. ASSUME NEW r \in Refs, NEW n \in Sizes, Put(r, n)
        PROVE  IInv' /\ (Len(lru') <= Len(lru) \/ Len(lru') <= MaxCachedImages)
    BY <1>1, PutStep
  <1>2. ASSUME NEW r \in PrepullRefs, Prepull(r)
        PROVE  IInv'
    BY <1>2, PrepullStep
  <1>3. ASSUME NEW r \in Refs, Invalidate(r)
        PROVE  IInv' /\ Len(lru') <= Len(lru)
    BY <1>3, RemoveStep DEF Invalidate, Detach, getVars, TypeOK
  <1>4. ASSUME CleanupExpired
        PROVE  IInv' /\ Len(lru') <= Len(lru)
    BY <1>4, RemoveStep DEF CleanupExpired, Detach, getVars, TypeOK
  <1>5. ASSUME NEW g \in Getters, GetDelete(g)
        PROVE  IInv' /\ Len(lru') <= Len(lru)
    <2>1. lru' = Without(lru, {found[g]}) /\ expired' = expired \ {found[g]}
      BY <1>5 DEF GetDelete
    <2>2. attached' \subseteq attached \ HoldersOf({found[g]}) /\ foundOld' \subseteq Getters
      BY <1>5 DEF GetDelete, TypeOK
    <2>3. \A h \in attached' : pc'[h] = pc[h]
      BY <1>5 DEF GetDelete, TypeOK
    <2>4. pc' \in [Getters -> {"idle", "check", "delete", "touch"}]
      BY <1>5 DEF GetDelete, TypeOK
    <2>5. size' = size /\ reported' = reported /\ found' = found /\ running' = running
      BY <1>5 DEF GetDelete
    <2> QED BY <2>1, <2>2, <2>3, <2>4, <2>5, RemoveStep
  <1>6. ASSUME NEW g \in Getters, GetTouch(g)
        PROVE  IInv' /\ Len(lru') <= Len(lru)
    BY <1>6, TouchStep
  <1>7. ASSUME \/ \E g \in Getters, r \in Refs : GetLookup(g, r)
               \/ \E g \in Getters : GetCheck(g) \/ ExpireFound(g)
               \/ \E r \in Refs : Expire(r)
               \/ Stop \/ UNCHANGED vars
        PROVE  IInv' /\ Len(lru') <= Len(lru)
    BY <1>7, OtherStep
  <1> HIDE DEF IInv
  <1> QED BY <1>1, <1>2, <1>3, <1>4, <1>5, <1>6, <1>7 DEF Next, Get

\* The inductive invariant holds in every state that calls of the cache reach.
THEOREM Invariance == Spec => []IInv
  <1>1. IInv /\ [Next]_vars => IInv'
    BY NextStep
  <1> QED BY <1>1, InitIInv, PTL DEF Spec

(***************************************************************************)
(* In every run of the cache, with any images, sizes, limits and Gets, no  *)
(* reference has two entries and every expired image is a cached one.      *)
(***************************************************************************)
THEOREM TypeCorrect == Spec => []TypeOK
  BY Invariance, PTL DEF IInv

(***************************************************************************)
(* Put keeps the cache within the configured size, or the one image that   *)
(* exceeds it is the only one with a size, whatever Prepull, the clean-up  *)
(* and Gets between their two critical sections do.                        *)
(***************************************************************************)
THEOREM SizeKept == Spec => []WithinSize
  BY Invariance, PTL DEF IInv

(***************************************************************************)
(* No step but Prepull's takes the number of cached images above the       *)
(* configured one, or further above it.                                    *)
(***************************************************************************)
THEOREM CountKept == Spec => CountStaysLimited
  <1>1. ASSUME NEW a \in Nat, NEW b \in Nat
        PROVE  a <= Max({a, b}) /\ b <= Max({a, b}) /\ Max({a, b}) \in Nat
    <2>1. \E x \in {a, b} : \A y \in {a, b} : x >= y
      OBVIOUS
    <2>2. Max({a, b}) \in {a, b} /\ \A y \in {a, b} : Max({a, b}) >= y
      BY <2>1 DEF Max
    <2> QED BY <2>2
  <1>2. IInv /\ IInv' /\ [Next]_vars =>
            [\/ Len(lru') <= Max({Len(lru), MaxCachedImages})
             \/ \E r \in PrepullRefs : Prepull(r)]_vars
    <2> SUFFICES ASSUME IInv, IInv', [Next]_vars, Len(lru') <= Len(lru) \/ Len(lru') <= MaxCachedImages
                 PROVE  Len(lru') <= Max({Len(lru), MaxCachedImages})
      BY NextStep
    <2>1. Len(lru) \in Nat /\ MaxCachedImages \in Nat
      BY TypeFacts, CacheAssumption
    <2>2. Len(lru') \in Nat
      <3>1. lru' \in BoundedSeq(Refs, Cardinality(Refs))
        BY DEF IInv, TypeOK
      <3> QED BY <3>1 DEF BoundedSeq, SeqOf
    <2> HIDE DEF IInv
    <2> QED BY <1>1, <2>1, <2>2
  <1> QED BY <1>2, Invariance, PTL DEF Spec, CountStaysLimited
=============================================================================
