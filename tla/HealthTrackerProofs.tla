------------------------- MODULE HealthTrackerProofs -------------------------
(***************************************************************************)
(* Theorems about HealthTracker: any number of probers, any window, any    *)
(* number of samples kept and any clock.                                   *)
(***************************************************************************)
EXTENDS HealthTracker, TLAPS, FiniteSetTheorems, SequenceTheorems

-----------------------------------------------------------------------------
(***************************************************************************)
(* What a fold computes, by taking a smallest set for which a claim fails. *)
(***************************************************************************)
LEMMA Smallest ==
  ASSUME NEW S, IsFiniteSet(S), NEW T \in SUBSET (SUBSET S), T # {}
  PROVE  \E x \in T : \A y \in T : y \subseteq x => y = x
  <1>1. IsWellFoundedOn(StrictSubsetOrdering(S), SUBSET S)
    BY FS_FiniteSubsetsOfFinite, FS_StrictSubsetOrderingWellFounded
  <1>2. \E x \in T : \A y \in T : ~ (<<y, x>> \in StrictSubsetOrdering(S))
    BY <1>1, WFMin
  <1> QED
    BY <1>2 DEF StrictSubsetOrdering

LEMMA SetInduct ==
  ASSUME NEW S, IsFiniteSet(S), NEW T, {} \in T,
         \A s \in SUBSET S : s # {} /\ (\A x \in s : s \ {x} \in T) => s \in T
  PROVE  SUBSET S \subseteq T
  <1> DEFINE Bad == (SUBSET S) \ T
  <1> SUFFICES ASSUME Bad # {} PROVE FALSE
    OBVIOUS
  <1>1. PICK u \in Bad : \A y \in Bad : y \subseteq u => y = u
    <2>1. Bad \in SUBSET (SUBSET S)
      OBVIOUS
    <2> HIDE DEF Bad
    <2> QED BY <2>1, Smallest
  <1>2. \A x \in u : u \ {x} \in T
    BY <1>1
  <1> QED BY <1>1, <1>2

LEMMA Induct ==
  ASSUME NEW n \in Nat, NEW T, 0 \in T, \A k \in 1 .. n : k - 1 \in T => k \in T
  PROVE  0 .. n \subseteq T
  <1> DEFINE Bad == {0 .. k : k \in (0 .. n) \ T}
  <1> SUFFICES ASSUME Bad # {} PROVE FALSE
    OBVIOUS
  <1>1. IsFiniteSet(0 .. n)
    BY FS_Interval
  <1>2. PICK u \in Bad : \A y \in Bad : y \subseteq u => y = u
    <2> DEFINE S == 0 .. n
    <2>1. Bad \in SUBSET (SUBSET S) /\ IsFiniteSet(S)
      BY <1>1
    <2> HIDE DEF Bad, S
    <2> QED BY <2>1, Smallest
  <1>3. PICK k \in (0 .. n) \ T : u = 0 .. k
    BY <1>2
  <1>4. k \in 1 .. n /\ k - 1 \in (0 .. n) \ T
    OBVIOUS
  <1>5. 0 .. k - 1 \in Bad /\ 0 .. k - 1 \subseteq 0 .. k /\ k \in 0 .. k /\ k \notin 0 .. k - 1
    BY <1>4
  <1> QED BY <1>2, <1>3, <1>5

\* The table of the values of a fold for the subsets of u: the value of {} is base,
\* that of s comes from s without pick[s].
IsFold(it, u, A, base, pick, G) ==
    /\ it \in [SUBSET u -> A]
    /\ \A s \in SUBSET u : it[s] = IF s = {} THEN base ELSE G[<<pick[s], it[s \ {pick[s]}]>>]

LEMMA FoldUnique ==
  ASSUME NEW S, IsFiniteSet(S), NEW A, NEW base, NEW pick, NEW G, NEW f, NEW g,
         \A s \in SUBSET S : s # {} => pick[s] \in s,
         NEW u \in SUBSET S, NEW v \in SUBSET S,
         IsFold(f, u, A, base, pick, G), IsFold(g, v, A, base, pick, G)
  PROVE  \A s \in SUBSET (u \cap v) : f[s] = g[s]
  <1> DEFINE T == {s \in SUBSET (u \cap v) : f[s] # g[s]}
  <1> SUFFICES ASSUME T # {} PROVE FALSE
    OBVIOUS
  <1>1. T \in SUBSET (SUBSET S)
    OBVIOUS
  <1>2. PICK x \in T : \A y \in T : y \subseteq x => y = x
    <2> HIDE DEF T
    <2> QED BY <1>1, Smallest
  <1>3. x # {}
    BY DEF IsFold
  <1>4. pick[x] \in x /\ x \ {pick[x]} \in SUBSET (u \cap v) /\ x \ {pick[x]} # x
    BY <1>3
  <1>5. f[x \ {pick[x]}] = g[x \ {pick[x]}]
    BY <1>2, <1>4
  <1> QED
    BY <1>3, <1>4, <1>5 DEF IsFold

LEMMA FoldExists ==
  ASSUME NEW S, IsFiniteSet(S), NEW A, NEW base \in A, NEW pick, NEW G,
         \A s \in SUBSET S : s # {} => pick[s] \in s,
         \A x \in S, a \in A : G[<<x, a>>] \in A
  PROVE  \E it : IsFold(it, S, A, base, pick, G)
  <1> DEFINE Is(f, u) == IsFold(f, u, A, base, pick, G)
             V(s) == (CHOOSE f : Is(f, s))[s]
             Ext(u) == [s \in SUBSET u |-> IF s = u
                          THEN IF u = {} THEN base ELSE G[<<pick[u], V(u \ {pick[u]})>>]
                          ELSE V(s)]
             T == {u \in SUBSET S : ~ \E f : Is(f, u)}
  <1>1. ASSUME NEW u \in SUBSET S, \A v \in SUBSET u : v # u => \E f : Is(f, v)
        PROVE  Is(Ext(u), u)
    <2>1. \A v \in SUBSET u : v # u => Is(CHOOSE f : Is(f, v), v)
      BY <1>1
    <2>2. ASSUME NEW v \in SUBSET u, v # u PROVE V(v) \in A
      <3> DEFINE f == CHOOSE f : Is(f, v)
      <3>1. IsFold(f, v, A, base, pick, G)
        BY <2>1, <2>2
      <3> HIDE DEF f
      <3>2. f \in [SUBSET v -> A] /\ v \in SUBSET v
        BY <3>1 DEF IsFold
      <3>3. f[v] \in A
        BY <3>2
      <3> QED BY <3>3 DEF f
    <2>3. u # {} => pick[u] \in u /\ u \ {pick[u]} \in SUBSET u /\ u \ {pick[u]} # u
      OBVIOUS
    <2>4. Ext(u) \in [SUBSET u -> A]
      BY <2>2, <2>3
    <2>5. ASSUME NEW s \in SUBSET u
          PROVE  Ext(u)[s] = IF s = {} THEN base ELSE G[<<pick[s], Ext(u)[s \ {pick[s]}]>>]
      <3>1. CASE s = u
        <4>1. CASE u = {}
          BY <3>1, <4>1
        <4>2. CASE u # {}
          <5>1. Ext(u)[u] = G[<<pick[u], V(u \ {pick[u]})>>]
            BY <4>2
          <5>2. Ext(u)[u \ {pick[u]}] = V(u \ {pick[u]})
            BY <2>3, <4>2
          <5> QED BY <3>1, <4>2, <5>1, <5>2
        <4> QED BY <4>1, <4>2
      <3>2. CASE s # u
        <4> DEFINE f == CHOOSE f : Is(f, s)
        <4>1. Is(f, s) /\ V(s) = f[s]
          BY <2>1, <3>2
        <4>2. Ext(u)[s] = f[s]
          BY <3>2, <4>1
        <4>3. CASE s = {}
          BY <4>1, <4>2, <4>3 DEF IsFold
        <4>4. CASE s # {}
          <5> DEFINE t == s \ {pick[s]}
                     g == CHOOSE g : Is(g, t)
          <5>1. pick[s] \in s /\ t \in SUBSET s /\ t # s /\ t \in SUBSET u /\ t # u
            BY <4>4
          <5>2. Is(g, t) /\ V(t) = g[t]
            BY <2>1, <5>1
          <5>3. Ext(u)[t] = g[t]
            BY <5>1, <5>2
          <5>4. f[t] = g[t]
            <6>1. s \in SUBSET S /\ t \in SUBSET S /\ t \in SUBSET (s \cap t)
              BY <5>1
            <6>2. IsFold(f, s, A, base, pick, G)
              BY <4>1
            <6>3. IsFold(g, t, A, base, pick, G)
              BY <5>2
            <6> HIDE DEF f, g, t
            <6>4. \A r \in SUBSET (s \cap t) : f[r] = g[r]
              BY <6>1, <6>2, <6>3, FoldUnique
            <6> QED BY <6>1, <6>4
          <5>5. f[s] = G[<<pick[s], f[t]>>]
            <6> HIDE DEF f
            <6> QED BY <4>1, <4>4 DEF IsFold
          <5> HIDE DEF Ext, f, g
          <5> QED BY <4>2, <4>4, <5>3, <5>4, <5>5
        <4> QED BY <4>3, <4>4
      <3> QED BY <3>1, <3>2
    <2> QED
      <3> HIDE DEF Ext
      <3> QED BY <2>4, <2>5 DEF IsFold
  <1>2. CASE T = {}
    BY <1>2
  <1>3. CASE T # {}
    <2>1. PICK u \in T : \A y \in T : y \subseteq u => y = u
      <3>1. T \in SUBSET (SUBSET S)
        OBVIOUS
      <3> HIDE DEF T
      <3> QED BY <1>3, <3>1, Smallest
    <2>2. \A v \in SUBSET u : v # u => \E f : Is(f, v)
      BY <2>1
    <2> HIDE DEF Is, Ext
    <2> QED BY <1>1, <2>2
  <1> QED BY <1>2, <1>3

LEMMA MaxOf ==
  ASSUME NEW n \in Nat, NEW s \in SUBSET (1 .. n), s # {}
  PROVE  Max(s) \in s /\ \A y \in s : y <= Max(s)
  <1>2. \E x \in s : \A y \in s : y <= x
    <2> DEFINE T == {k \in 0 .. n : s \cap (1 .. k) # {} => \E x \in s \cap (1 .. k) : \A y \in s \cap (1 .. k) : y <= x}
    <2>1. 0 \in T
      OBVIOUS
    <2>2. ASSUME NEW k \in 1 .. n, k - 1 \in T
          PROVE  k \in T
      <3>1. CASE k \in s
        BY <3>1
      <3>2. CASE k \notin s
        <4>1. s \cap (1 .. k) = s \cap (1 .. k - 1)
          BY <3>2
        <4> QED BY <2>2, <4>1
      <3> QED BY <3>1, <3>2
    <2> HIDE DEF T
    <2>3. n \in T
      BY <2>1, <2>2, Induct
    <2> QED BY <2>3 DEF T
  <1> QED BY <1>2 DEF Max

\* A set of numbers up to n that holds n has a least member.
LEMMA LeastOf ==
    ASSUME NEW n \in Nat, NEW P \in SUBSET (0 .. n), n \in P
    PROVE  \E k \in P : \A j \in 0 .. k - 1 : j \notin P
  <1> SUFFICES ASSUME \A k \in P : \E j \in 0 .. k - 1 : j \in P PROVE FALSE
    OBVIOUS
  <1> DEFINE T == {k \in 0 .. n : \A j \in 0 .. k : j \notin P}
  <1>1. 0 \in T
    <2>1. \A j \in 0 .. 0 : j = 0
      OBVIOUS
    <2>2. 0 \notin P
      OBVIOUS
    <2> QED BY <2>1, <2>2
  <1>2. ASSUME NEW k \in 1 .. n, k - 1 \in T
        PROVE  k \in T
    <2>1. \A j \in 0 .. k - 1 : j \notin P
      BY <1>2
    <2>2. k \notin P
      BY <2>1
    <2>3. \A j \in 0 .. k : j = k \/ j \in 0 .. k - 1
      OBVIOUS
    <2>4. k \in 0 .. n
      OBVIOUS
    <2> QED BY <2>1, <2>2, <2>3, <2>4
  <1>3. 0 .. n \subseteq T
    <2> HIDE DEF T
    <2> QED BY <1>1, <1>2, Induct
  <1> QED BY <1>3

\* What pruneLocked has kept after each round of its loop.
IsRounds(F, q, time) ==
    /\ F \in [0 .. Len(q) -> Seq(Samples)]
    /\ F[0] = <<>>
    /\ F[Len(q)] = Pruned(q, time)
    /\ \A k \in 1 .. Len(q) : F[k] = IF Counts(q[k], time) THEN Append(F[k - 1], q[k]) ELSE F[k - 1]

LEMMA PrunedRounds ==
    ASSUME NEW q \in Seq(Samples), NEW time
    PROVE  \E F : IsRounds(F, q, time)
  <1> DEFINE D == 1 .. Len(q)
             pick == [u \in SUBSET D |-> Max(u)]
             G == [xa \in D \X Seq(Samples) |->
                     IF Counts(q[xa[1]], time) THEN Append(xa[2], q[xa[1]]) ELSE xa[2]]
             Step(it, u) == IF u = {} THEN <<>>
                            ELSE IF Counts(q[Max(u)], time) THEN Append(it[u \ {Max(u)}], q[Max(u)])
                            ELSE it[u \ {Max(u)}]
             Eq(c) == c = [u \in SUBSET D |-> Step(c, u)]
             c == CHOOSE c : Eq(c)
  <1>0. Len(q) \in Nat /\ DOMAIN q = D /\ IsFiniteSet(D) /\ \A k \in D : q[k] \in Samples
    BY FS_Interval
  <1>1. \A u \in SUBSET D : u # {} => Max(u) \in u /\ Max(u) \in D
    BY <1>0, MaxOf
  <1>2. PICK it : IsFold(it, D, Seq(Samples), <<>>, pick, G)
    <2>1. \A u \in SUBSET D : u # {} => pick[u] \in u
      BY <1>1
    <2>2. \A x \in D, a \in Seq(Samples) : G[<<x, a>>] \in Seq(Samples)
      BY <1>0
    <2>3. <<>> \in Seq(Samples)
      OBVIOUS
    <2> HIDE DEF pick, G, D
    <2> QED BY <1>0, <2>1, <2>2, <2>3, FoldExists
  <1>3. it \in [SUBSET D -> Seq(Samples)]
    BY <1>2 DEF IsFold
  <1>4. ASSUME NEW u \in SUBSET D
        PROVE  it[u] = Step(it, u)
    <2>1. pick[u] = Max(u)
      OBVIOUS
    <2>2. u # {} => it[u \ {Max(u)}] \in Seq(Samples) /\ Max(u) \in D
      BY <1>1, <1>3
    <2>3. u # {} => G[<<Max(u), it[u \ {Max(u)}]>>] = Step(it, u)
      BY <2>2
    <2> HIDE DEF pick, G, D
    <2> QED BY <1>2, <2>1, <2>3 DEF IsFold
  <1>5. Eq(it)
    <2> HIDE DEF D, Step
    <2> QED BY <1>3, <1>4
  <1>6. Eq(c)
    <2> HIDE DEF Eq
    <2> QED BY <1>5
  <1>7. Pruned(q, time) = c[D]
    BY <1>0 DEF Pruned, FoldLeft, MapThenFoldSet
  <1>8. c[D] = it[D]
    <2>1. \A u \in SUBSET D : c[u] = Step(c, u)
      <3> HIDE DEF c, Step, D
      <3> QED BY <1>6
    <2> DEFINE T == {u \in SUBSET D : c[u] = it[u]}
    <2> HIDE DEF c, D
    <2>2. {} \in T
      BY <1>4, <2>1
    <2>3. ASSUME NEW u \in SUBSET D, u # {}, \A x \in u : u \ {x} \in T
          PROVE  u \in T
      <3>1. c[u \ {Max(u)}] = it[u \ {Max(u)}]
        BY <1>1, <2>3
      <3> QED BY <1>4, <2>1, <3>1
    <2> HIDE DEF T
    <2>4. D \in T
      BY <1>0, <2>2, <2>3, SetInduct
    <2> QED BY <2>4 DEF T
  <1> DEFINE F == [k \in 0 .. Len(q) |-> it[1 .. k]]
  <1>9. F \in [0 .. Len(q) -> Seq(Samples)] /\ F[0] = <<>> /\ F[Len(q)] = Pruned(q, time)
    <2>1. \A k \in 0 .. Len(q) : (1 .. k) \in SUBSET D
      BY <1>0
    <2>2. 1 .. 0 = {}
      OBVIOUS
    <2>3. it[{}] = <<>>
      BY <1>4
    <2> HIDE DEF c, Step
    <2> QED BY <1>0, <1>3, <1>7, <1>8, <2>1, <2>2, <2>3
  <1>10. ASSUME NEW k \in 1 .. Len(q)
         PROVE  F[k] = IF Counts(q[k], time) THEN Append(F[k - 1], q[k]) ELSE F[k - 1]
    <2>1. (1 .. k) \in SUBSET D /\ 1 .. k # {} /\ k \in 1 .. k
      <3>1. k \in 1 .. k
        OBVIOUS
      <3>2. \A j \in 1 .. k : j \in 1 .. Len(q)
        OBVIOUS
      <3> QED BY <3>1, <3>2
    <2>2. Max(1 .. k) = k
      <3>1. Max(1 .. k) \in 1 .. k /\ k <= Max(1 .. k)
        BY <1>0, <2>1, MaxOf
      <3> QED BY <3>1
    <2>3. (1 .. k) \ {k} = 1 .. (k - 1) /\ k - 1 \in 0 .. Len(q) /\ k \in 0 .. Len(q)
      BY <1>0
    <2>4. it[1 .. k] = Step(it, 1 .. k)
      BY <1>4, <2>1
    <2> HIDE DEF D
    <2> QED BY <2>1, <2>2, <2>3, <2>4
  <1>11. IsRounds(F, q, time)
    <2> HIDE DEF F
    <2> QED BY <1>9, <1>10 DEF IsRounds
  <1> QED BY <1>11

\* Pruning keeps samples and makes none.
LEMMA PrunedFacts ==
    ASSUME NEW q \in Seq(Samples), NEW time
    PROVE  /\ Pruned(q, time) \in Seq(Samples)
           /\ Len(Pruned(q, time)) <= Len(q)
           /\ \A k \in DOMAIN Pruned(q, time) : \E j \in DOMAIN q : Pruned(q, time)[k] = q[j]
  <1>1. PICK F : IsRounds(F, q, time)
    BY PrunedRounds
  <1> USE DEF IsRounds
  <1> DEFINE Good(m) == Len(F[m]) <= m /\ \A k \in DOMAIN F[m] : \E j \in DOMAIN q : F[m][k] = q[j]
             T == {m \in 0 .. Len(q) : Good(m)}
  <1>2. 0 \in T
    BY <1>1
  <1>3. ASSUME NEW m \in 1 .. Len(q), m - 1 \in T
        PROVE  m \in T
    <2> DEFINE e == F[m - 1]
    <2>1. e \in Seq(Samples) /\ q[m] \in Samples /\ m \in DOMAIN q /\ m \in 0 .. Len(q) /\ Good(m - 1)
      BY <1>1, <1>3
    <2>2. F[m] = e \/ F[m] = Append(e, q[m])
      BY <1>1
    <2> HIDE DEF e
    <2>3. Len(e) <= m - 1 /\ Len(e) \in Nat /\ \A k \in DOMAIN e : \E j \in DOMAIN q : e[k] = q[j]
      BY <2>1 DEF e
    <2>4. Good(m)
      <3>1. CASE F[m] = e
        BY <2>3, <3>1
      <3>2. CASE F[m] = Append(e, q[m])
        <4>1. Len(F[m]) = Len(e) + 1 /\ DOMAIN F[m] = 1 .. Len(e) + 1
          BY <2>1, <3>2
        <4>2. \A k \in 1 .. Len(e) : F[m][k] = e[k] /\ k \in DOMAIN e
          BY <2>1, <3>2
        <4>3. F[m][Len(e) + 1] = q[m]
          BY <2>1, <3>2
        <4>4. \A k \in DOMAIN F[m] : k \in 1 .. Len(e) \/ k = Len(e) + 1
          BY <2>3, <4>1
        <4>5. \A k \in DOMAIN F[m] : \E j \in DOMAIN q : F[m][k] = q[j]
          BY <2>1, <2>3, <4>2, <4>3, <4>4
        <4> QED BY <2>3, <4>1, <4>5
      <3> QED BY <2>2, <3>1, <3>2
    <2> QED BY <2>1, <2>4
  <1>4. Len(q) \in T
    <2> HIDE DEF T
    <2>1. Len(q) \in Nat
      OBVIOUS
    <2>2. 0 .. Len(q) \subseteq T
      BY <1>2, <1>3, <2>1, Induct
    <2> QED BY <2>1, <2>2
  <1> QED BY <1>1, <1>4

\* Samples in the order of their times lose the oldest ones only.
LEMMA PrunedSuffix ==
    ASSUME NEW q \in Seq(Samples), NEW time \in Int,
           \A a, b \in DOMAIN q : a <= b => q[a].at <= q[b].at
    PROVE  \E d \in 0 .. Len(q) :
            /\ Len(Pruned(q, time)) = Len(q) - d
            /\ \A k \in 1 .. Len(q) - d : Pruned(q, time)[k] = q[d + k]
            /\ \A k \in 1 .. d : ~Counts(q[k], time)
            /\ \A k \in d + 1 .. Len(q) : Counts(q[k], time)
  <1>1. PICK F : IsRounds(F, q, time)
    BY PrunedRounds
  <1> DEFINE P == {k \in 0 .. Len(q) : k = Len(q) \/ Counts(q[k + 1], time)}
  <1>2. Len(q) \in Nat /\ P \in SUBSET (0 .. Len(q)) /\ Len(q) \in P
    OBVIOUS
  <1>3. PICK d \in P : \A j \in 0 .. d - 1 : j \notin P
    <2> HIDE DEF P
    <2> QED BY <1>2, LeastOf
  <1>4. d \in 0 .. Len(q)
    OBVIOUS
  <1>5. ASSUME NEW k \in 1 .. d PROVE ~Counts(q[k], time)
    <2>1. k - 1 \in 0 .. d - 1 /\ k - 1 \in 0 .. Len(q) /\ (k - 1) + 1 = k
      BY <1>4
    <2> QED BY <1>3, <2>1
  <1>6. ASSUME NEW k \in d + 1 .. Len(q) PROVE Counts(q[k], time)
    <2>1. d + 1 \in DOMAIN q /\ k \in DOMAIN q /\ d + 1 <= k /\ Counts(q[d + 1], time)
      BY <1>3, <1>4
    <2>2. q[d + 1].at <= q[k].at /\ q[d + 1].at \in Int /\ q[k].at \in Int
      <3>1. q[d + 1] \in Samples /\ q[k] \in Samples
        BY <2>1
      <3>2. q[d + 1].at <= q[k].at
        BY <2>1
      <3> QED BY <3>1, <3>2 DEF Samples
    <2>3. Window \in Int
      BY TrackerAssumption
    <2> QED BY <2>1, <2>2, <2>3 DEF Counts
  <1> HIDE DEF P
  <1> DEFINE Good(m) == IF m <= d THEN F[m] = <<>>
                        ELSE Len(F[m]) = m - d /\ \A k \in 1 .. m - d : F[m][k] = q[d + k]
             T == {m \in 0 .. Len(q) : Good(m)}
  <1>7. 0 \in T
    BY <1>1, <1>4 DEF IsRounds
  <1>8. ASSUME NEW m \in 1 .. Len(q), m - 1 \in T
        PROVE  m \in T
    <2> DEFINE e == F[m - 1]
    <2>1. e \in Seq(Samples) /\ q[m] \in Samples /\ m \in DOMAIN q /\ m \in 0 .. Len(q) /\ Good(m - 1)
      BY <1>1, <1>8 DEF IsRounds
    <2>2. F[m] = IF Counts(q[m], time) THEN Append(e, q[m]) ELSE e
      BY <1>1 DEF IsRounds
    <2> HIDE DEF e
    <2>3. CASE m <= d
      BY <1>4, <1>5, <2>1, <2>2, <2>3 DEF e
    <2>4. CASE m > d
      <3>1. F[m] = Append(e, q[m])
        BY <1>4, <1>6, <2>2, <2>4
      <3>2. Len(e) = m - 1 - d /\ \A k \in 1 .. m - 1 - d : e[k] = q[d + k]
        BY <1>4, <2>1, <2>4 DEF e
      <3>3. Len(F[m]) = m - d
        BY <1>4, <2>1, <3>1, <3>2
      <3>4. ASSUME NEW k \in 1 .. m - d PROVE F[m][k] = q[d + k]
        <4>1. d \in Int /\ m \in Int /\ k \in Int /\ 1 <= k /\ k <= m - d /\ Len(e) = m - 1 - d
          BY <1>4, <2>1, <3>2
        <4>2. CASE k = Len(e) + 1
          <5>1. d + k = m
            BY <4>1, <4>2
          <5>2. F[m][k] = q[m]
            BY <2>1, <3>1, <4>2
          <5> QED BY <5>1, <5>2
        <4>3. CASE k # Len(e) + 1
          <5>1. k \in 1 .. Len(e) /\ k \in 1 .. m - 1 - d
            BY <4>1, <4>3
          <5>2. F[m][k] = e[k]
            BY <2>1, <3>1, <5>1
          <5> QED BY <3>2, <5>1, <5>2
        <4> QED BY <4>2, <4>3
      <3>5. Good(m)
        BY <1>4, <2>4, <3>3, <3>4
      <3> QED BY <2>1, <3>5
    <2> QED BY <1>4, <2>3, <2>4
  <1>9. Len(q) \in T
    <2> HIDE DEF T
    <2>1. 0 .. Len(q) \subseteq T
      BY <1>2, <1>7, <1>8, Induct
    <2> QED BY <1>2, <2>1
  <1>10. Len(Pruned(q, time)) = Len(q) - d /\ \A k \in 1 .. Len(q) - d : Pruned(q, time)[k] = q[d + k]
    <2>1. F[Len(q)] = Pruned(q, time) /\ Good(Len(q))
      BY <1>1, <1>9 DEF IsRounds
    <2>2. CASE Len(q) <= d
      BY <1>2, <1>4, <2>1, <2>2
    <2>3. CASE Len(q) > d
      BY <1>2, <1>4, <2>1, <2>3
    <2> QED BY <1>2, <1>4, <2>2, <2>3
  <1> QED BY <1>4, <1>5, <1>6, <1>10

-----------------------------------------------------------------------------
(***************************************************************************)
(* The inductive invariant, in parts.                                      *)
(***************************************************************************)
Pruning(p) == pc[p] \in {"prune", "keep"}

\* How many samples p has read and dealt with, and how many of them it dropped.
Done(p) == IF pc[p] = "keep" THEN loc[p].j - 2 ELSE loc[p].j - 1

Dropped(p) == Done(p) - loc[p].i

\* The loops stay within the array; it is not replaced while a snapshot runs.
InBounds(p) ==
    /\ loc[p].at <= now
    /\ loc[p].n <= Len(cells)
    /\ pc[p] # "sum" => loc[p].j <= loc[p].n + 1
    /\ Pruning(p) => loc[p].i <= Done(p)
    /\ pc[p] = "count" => loc[p].failures <= loc[p].j - 1

Bounded == \A p \in Probers : InSnapshot(p) => InBounds(p)

\* Each field of s is a recorded one.
Genuine(s, all) ==
    /\ \E h \in DOMAIN all : all[h].at = s.at
    /\ \E h \in DOMAIN all : all[h].failed = s.failed

\* Also beyond the slice, where an overlapping snapshot may still read.
AllGenuine ==
    /\ \A k \in DOMAIN cells : Genuine(cells[k], history)
    /\ \A p \in Probers : pc[p] = "keep" => Genuine(loc[p].s, history)

\* Samples are recorded in the order of the clock.
Sorted ==
    /\ \A k \in DOMAIN history : history[k].at <= now
    /\ \A a, b \in DOMAIN history : a <= b => history[a].at <= history[b].at

Alone == overlapped \/ \A p, q \in Probers : InSnapshot(p) /\ InSnapshot(q) => p = q

ProperRates == \A p \in Probers :
    pc[p] = "panicked" \/ rate[p][1] > rate[p][2] \/ rate[p][2] = 0 => overlapped

(***************************************************************************)
(* The states in which a snapshot is exact.  Once left they never return.  *)
(***************************************************************************)
AllCount == \A k \in DOMAIN history : Counts(history[k], now)

Calm == ~overlapped \/ AllCount

\* The k-th of the last n samples recorded.
Recorded(n, k) == history[Len(history) - n + k]

\* Nothing that should still count at the given time is missing from the slice.
NoneMissing(time) == \A k \in 1 .. Len(history) - len :
    k + MaxSamples > Len(history) => ~Counts(history[k], time)

\* The slice holds the last samples recorded; while one snapshot prunes by itself
\* its array is shifted in part.
SliceIsLast ==
    AllCount \/ (\A p \in Probers : ~Pruning(p)) => \A k \in 1 .. len : cells[k] = Recorded(len, k)

PruneExact(p) ==
    /\ loc[p].n = len
    /\ \A k \in 1 .. loc[p].i :
        cells[k] = Recorded(len, Dropped(p) + k) /\ Counts(Recorded(len, Dropped(p) + k), loc[p].at)
    /\ \A k \in loc[p].j .. len : cells[k] = Recorded(len, k)
    /\ \A k \in 1 .. Dropped(p) : ~Counts(Recorded(len, k), loc[p].at)
    /\ pc[p] = "keep" => loc[p].s = Recorded(len, loc[p].j - 1) /\ Counts(loc[p].s, loc[p].at)

\* The failures among the first m samples of the slice.
FailuresIn(m) == {k \in Len(history) - len + 1 .. Len(history) - len + m : history[k].failed}

CountExact(p) ==
    /\ loc[p].n = len /\ len > 0
    /\ loc[p].failures = Cardinality(FailuresIn(loc[p].j - 1))

ProberExact(p) ==
    /\ InSnapshot(p) => NoneMissing(loc[p].at)
    /\ Pruning(p) => PruneExact(p)
    /\ pc[p] \in {"sum", "count"} => \A k \in 1 .. len : Counts(Recorded(len, k), loc[p].at)
    /\ pc[p] = "count" => CountExact(p)

Exact ==
    /\ len <= Len(history)
    /\ NoneMissing(now)
    /\ SliceIsLast
    /\ \A p \in Probers : ProberExact(p)

\* The part that needs no calm.
Basic == TypeOK /\ Bounded /\ AllGenuine /\ Sorted /\ Alone

IInv == Basic /\ ProperRates /\ (Calm => Exact)

-----------------------------------------------------------------------------
LEMMA InitIInv == Init => IInv
  <1> SUFFICES ASSUME Init PROVE IInv
    OBVIOUS
  <1>1. /\ cells = <<>> /\ len = 0 /\ now = 0 /\ history = <<>> /\ overlapped = FALSE
        /\ \A p \in Probers : pc[p] = "idle" /\ rate[p] = <<0, 1>>
    BY DEF Init, NoFailure
  <1>2. TypeOK
    <2>1. <<>> \in Seq(Samples) /\ Len(<<>>) = 0
      OBVIOUS
    <2>2. NoSample \in Samples
      BY TrackerAssumption DEF Samples, NoSample
    <2>3. [err |-> FALSE, at |-> 0, n |-> 0, j |-> 1, i |-> 0, s |-> NoSample, failures |-> 0] \in Locals
      BY <2>2, TrackerAssumption DEF Locals
    <2>4. loc \in [Probers -> Locals]
      BY <2>3 DEF Init
    <2>5. rate \in [Probers -> (0 .. MaxSamples) \X (0 .. MaxSamples)]
      BY TrackerAssumption DEF Init, NoFailure
    <2>6. pc \in [Probers -> {"idle", "record", "snapshot", "prune", "keep", "sum", "count", "panicked"}]
      BY DEF Init
    <2>7. Len(cells) <= MaxSamples /\ len \in 0 .. Len(cells) /\ now \in 0 .. MaxTime /\ Len(history) <= MaxRecords
      BY <1>1, <2>1, TrackerAssumption
    <2>8. cells \in Seq(Samples) /\ history \in Seq(Samples) /\ overlapped \in BOOLEAN
      BY <1>1, <2>1
    <2> QED BY <2>4, <2>5, <2>6, <2>7, <2>8 DEF TypeOK
  <1>3. Bounded /\ AllGenuine /\ Sorted /\ Alone /\ ProperRates
    BY <1>1 DEF Bounded, AllGenuine, Sorted, Alone, ProperRates, InSnapshot
  <1>4. Exact
    BY <1>1 DEF Exact, NoneMissing, SliceIsLast, Pruning, InSnapshot, ProberExact
  <1> QED BY <1>2, <1>3, <1>4 DEF IInv, Basic

\* The samples that Record prunes: the slice and the new one, or the newest of them.
LEMMA NewestFacts ==
    ASSUME TypeOK, NEW s \in Samples
    PROVE  LET q == Newest(Append(SubSeq(cells, 1, len), s), MaxSamples) IN
           /\ q \in Seq(Samples)
           /\ Len(q) = IF len + 1 > MaxSamples THEN MaxSamples ELSE len + 1
           /\ \A k \in 1 .. Len(q) : q[k] = IF k = Len(q) THEN s ELSE cells[len + 1 - Len(q) + k]
           /\ \A k \in 1 .. Len(q) : k = Len(q) \/ len + 1 - Len(q) + k \in 1 .. len
  <1> DEFINE t == SubSeq(cells, 1, len)
             a == Append(t, s)
             q == Newest(a, MaxSamples)
             Facts == /\ q \in Seq(Samples)
                      /\ Len(q) = IF len + 1 > MaxSamples THEN MaxSamples ELSE len + 1
                      /\ \A k \in 1 .. Len(q) : q[k] = IF k = Len(q) THEN s ELSE cells[len + 1 - Len(q) + k]
                      /\ \A k \in 1 .. Len(q) : k = Len(q) \/ len + 1 - Len(q) + k \in 1 .. len
  <1> SUFFICES Facts
    OBVIOUS
  <1>1. len \in Nat /\ len <= Len(cells) /\ cells \in Seq(Samples) /\ MaxSamples \in Nat \ {0}
    BY TrackerAssumption DEF TypeOK
  <1>2. t \in Seq(Samples) /\ Len(t) = len /\ \A k \in 1 .. len : t[k] = cells[k]
    BY <1>1
  <1> HIDE DEF t
  <1>3. a \in Seq(Samples) /\ Len(a) = len + 1 /\ a[len + 1] = s /\ \A k \in 1 .. len : a[k] = cells[k]
    BY <1>1, <1>2
  <1> HIDE DEF a
  <1>4. CASE len + 1 > MaxSamples
    <2>1. q = SubSeq(a, len + 1 - MaxSamples + 1, len + 1)
      BY <1>1, <1>3, <1>4 DEF Newest
    <2>2. /\ q \in Seq(Samples) /\ Len(q) = MaxSamples
          /\ \A k \in 1 .. MaxSamples : q[k] = a[len + 1 - MaxSamples + k]
      BY <1>1, <1>3, <1>4, <2>1
    <2> HIDE DEF q
    <2>3. \A k \in 1 .. MaxSamples : k = MaxSamples \/ len + 1 - MaxSamples + k \in 1 .. len
      BY <1>1, <1>4
    <2>4. Facts
      BY <1>1, <1>3, <1>4, <2>2, <2>3
    <2> QED BY <2>4
  <1>5. CASE ~(len + 1 > MaxSamples)
    <2>1. q = a
      BY <1>1, <1>3, <1>5 DEF Newest
    <2> HIDE DEF q
    <2>2. \A k \in 1 .. len + 1 : k = len + 1 \/ (k \in 1 .. len /\ len + 1 - (len + 1) + k = k)
      BY <1>1
    <2>3. Facts
      BY <1>1, <1>3, <1>5, <2>1, <2>2
    <2> QED BY <2>3
  <1>6. Facts
    BY <1>4, <1>5
  <1> QED BY <1>6

LEMMA RecordBasic ==
    ASSUME Basic, NEW failed \in BOOLEAN, Record(failed),
           \A p \in Probers : pc'[p] \notin {"prune", "keep", "sum", "count"}
    PROVE  /\ cells' \in Seq(Samples) /\ Len(cells') <= MaxSamples /\ len' \in 0 .. Len(cells')
           /\ history' \in Seq(Samples) /\ Len(history') <= MaxRecords
           /\ Bounded' /\ AllGenuine' /\ Sorted' /\ Alone'
  <1> DEFINE s == [at |-> now, failed |-> failed]
             q == Newest(Append(SubSeq(cells, 1, len), s), MaxSamples)
  <1>1. /\ cells' = Pruned(q, now) /\ len' = Len(cells') /\ history' = Append(history, s)
        /\ Len(history) < MaxRecords /\ now' = now /\ overlapped' = overlapped
    BY DEF Record
  <1>2. TypeOK /\ s \in Samples /\ history \in Seq(Samples) /\ now \in Nat
    BY TrackerAssumption DEF Basic, TypeOK, Samples
  <1>3. /\ q \in Seq(Samples)
        /\ Len(q) = IF len + 1 > MaxSamples THEN MaxSamples ELSE len + 1
        /\ \A k \in 1 .. Len(q) : q[k] = IF k = Len(q) THEN s ELSE cells[len + 1 - Len(q) + k]
        /\ \A k \in 1 .. Len(q) : k = Len(q) \/ len + 1 - Len(q) + k \in 1 .. len
    BY <1>2, NewestFacts
  <1>4. /\ cells' \in Seq(Samples) /\ Len(cells') <= Len(q)
        /\ \A k \in DOMAIN cells' : \E j \in DOMAIN q : cells'[k] = q[j]
    BY <1>1, <1>3, PrunedFacts
  <1> HIDE DEF q
  <1>5. /\ history' \in Seq(Samples) /\ Len(history') = Len(history) + 1 /\ history'[Len(history) + 1] = s
        /\ \A k \in DOMAIN history : k \in DOMAIN history' /\ history'[k] = history[k]
        /\ DOMAIN history' = 1 .. Len(history) + 1 /\ DOMAIN history = 1 .. Len(history)
        /\ Len(history) + 1 \in DOMAIN history'
    BY <1>1, <1>2
  <1>6. /\ cells' \in Seq(Samples) /\ Len(cells') <= MaxSamples /\ len' \in 0 .. Len(cells')
        /\ Len(history') <= MaxRecords
    <2>1. len \in Nat /\ MaxSamples \in Nat /\ MaxRecords \in Nat /\ Len(cells') \in Nat
      BY <1>2, <1>4, TrackerAssumption DEF TypeOK
    <2>2. Len(history) \in Nat
      BY <1>2
    <2> QED BY <1>1, <1>3, <1>4, <1>5, <2>1, <2>2
  <1>7. Bounded' /\ Alone'
    BY DEF Bounded, Alone, InSnapshot
  <1>8. AllGenuine'
    <2>1. Genuine(s, history')
      <3>1. s.at = now /\ s.failed = failed
        OBVIOUS
      <3> QED BY <1>1, <1>5 DEF Genuine
    <2>2. ASSUME NEW c, Genuine(c, history) PROVE Genuine(c, history')
      BY <1>5, <2>2 DEF Genuine
    <2>3. \A k \in 1 .. len : k \in DOMAIN cells
      BY <1>2 DEF TypeOK
    <2>4. \A j \in DOMAIN q : q[j] = s \/ \E i \in DOMAIN cells : q[j] = cells[i]
      <3>1. DOMAIN q = 1 .. Len(q)
        BY <1>3
      <3> QED BY <1>3, <2>3, <3>1
    <2>5. ASSUME NEW k \in DOMAIN cells' PROVE Genuine(cells'[k], history')
      <3>1. cells'[k] = s \/ \E i \in DOMAIN cells : cells'[k] = cells[i]
        BY <1>4, <2>4
      <3>2. CASE cells'[k] = s
        BY <2>1, <3>2
      <3>3. CASE \E i \in DOMAIN cells : cells'[k] = cells[i]
        BY <2>2, <3>3 DEF Basic, AllGenuine
      <3> QED BY <3>1, <3>2, <3>3
    <2> QED BY <2>5 DEF AllGenuine
  <1>9. Sorted'
    <2>1. \A k \in DOMAIN history' : k \in DOMAIN history \/ k = Len(history) + 1
      BY <1>5
    <2>2. history'[Len(history) + 1].at = now
      BY <1>5
    <2>3. \A k \in DOMAIN history : k < Len(history) + 1 /\ history[k].at <= now /\ k \in Nat
      BY <1>5 DEF Basic, Sorted
    <2>4. \A k \in DOMAIN history' : history'[k].at <= now'
      BY <1>1, <1>2, <1>5, <2>1, <2>2, <2>3
    <2>5. \A a, b \in DOMAIN history' : a <= b => history'[a].at <= history'[b].at
      <3> SUFFICES ASSUME NEW a \in DOMAIN history', NEW b \in DOMAIN history', a <= b
                   PROVE  history'[a].at <= history'[b].at
        OBVIOUS
      <3>1. CASE b = Len(history) + 1
        BY <1>1, <2>2, <2>4, <3>1
      <3>2. CASE b \in DOMAIN history
        <4>1. a \in DOMAIN history
          BY <2>1, <2>3, <3>2
        <4> QED BY <1>5, <3>2, <4>1 DEF Basic, Sorted
      <3> QED BY <2>1, <3>1, <3>2
    <2> QED BY <2>4, <2>5 DEF Sorted
  <1> QED BY <1>5, <1>6, <1>7, <1>8, <1>9

Labels == {"idle", "record", "snapshot", "prune", "keep", "sum", "count", "panicked"}

\* What a step of prober p, other than Record, has to show.
LEMMA ProberStep ==
    ASSUME Basic, NEW p \in Probers,
           pc' \in [Probers -> Labels], loc' \in [Probers -> Locals],
           \A q \in Probers : q # p => pc'[q] = pc[q] /\ loc'[q] = loc[q],
           cells' \in Seq(Samples), Len(cells') = Len(cells),
           \A k \in DOMAIN cells' : Genuine(cells'[k], history),
           len' \in 0 .. Len(cells), now' = now, history' = history,
           rate' \in [Probers -> (0 .. MaxSamples) \X (0 .. MaxSamples)],
           overlapped' \in BOOLEAN, overlapped => overlapped',
           InSnapshot(p)' => InBounds(p)',
           pc'[p] = "keep" => Genuine(loc'[p].s, history),
           InSnapshot(p)' => InSnapshot(p) \/ overlapped' \/ \A q \in Probers : ~InSnapshot(q)
    PROVE  Basic'
  <1>1. TypeOK'
    BY DEF Basic, TypeOK, Labels
  <1>2. ASSUME NEW q \in Probers, q # p
        PROVE  /\ InSnapshot(q)' <=> InSnapshot(q)
               /\ InSnapshot(q) => InBounds(q)'
               /\ pc'[q] = "keep" => Genuine(loc'[q].s, history)
    <2>1. InSnapshot(q) => InBounds(q)
      BY DEF Basic, Bounded
    <2> QED BY <1>2, <2>1 DEF InSnapshot, InBounds, Pruning, Done, Basic, AllGenuine
  <1>3. Bounded' /\ AllGenuine'
    BY <1>2 DEF Bounded, AllGenuine
  <1>4. Sorted'
    BY DEF Basic, Sorted
  <1>5. Alone'
    <2> SUFFICES ASSUME ~overlapped', NEW a \in Probers, NEW b \in Probers, InSnapshot(a)', InSnapshot(b)'
                 PROVE  a = b
      BY DEF Alone
    <2>1. \A x, y \in Probers : InSnapshot(x) /\ InSnapshot(y) => x = y
      BY DEF Basic, Alone
    <2> QED BY <1>2, <2>1
  <1> QED BY <1>1, <1>3, <1>4, <1>5 DEF Basic

\* The locals of a prober in numbers.
LEMMA LocalTypes ==
    ASSUME Basic, NEW p \in Probers
    PROVE  /\ pc[p] \in Labels /\ loc[p] \in Locals
           /\ loc[p].at \in Nat /\ loc[p].n \in Nat /\ loc[p].j \in Nat \ {0} /\ loc[p].i \in Nat
           /\ loc[p].s \in Samples /\ loc[p].failures \in Nat /\ loc[p].err \in BOOLEAN
           /\ loc[p].at <= MaxTime /\ loc[p].n <= MaxSamples /\ loc[p].j <= MaxSamples + 1
           /\ loc[p].i <= MaxSamples /\ loc[p].failures <= MaxSamples
           /\ cells \in Seq(Samples) /\ Len(cells) \in Nat /\ Len(cells) <= MaxSamples
           /\ len \in Nat /\ len <= Len(cells)
           /\ now \in Nat /\ now <= MaxTime /\ MaxSamples \in Nat \ {0} /\ MaxTime \in Nat
           /\ history \in Seq(Samples) /\ Len(history) \in Nat
  <1>1. loc[p] \in Locals /\ MaxSamples \in Nat \ {0} /\ MaxTime \in Nat
    BY TrackerAssumption DEF Basic, TypeOK
  <1>2. /\ loc[p].at \in 0 .. MaxTime /\ loc[p].n \in 0 .. MaxSamples /\ loc[p].j \in 1 .. MaxSamples + 1
        /\ loc[p].i \in 0 .. MaxSamples /\ loc[p].failures \in 0 .. MaxSamples
        /\ loc[p].s \in Samples /\ loc[p].err \in BOOLEAN
    BY <1>1 DEF Locals
  <1>3. /\ cells \in Seq(Samples) /\ Len(cells) <= MaxSamples /\ len \in 0 .. Len(cells)
        /\ now \in 0 .. MaxTime /\ history \in Seq(Samples) /\ pc[p] \in Labels
    BY DEF Basic, TypeOK, Labels
  <1>4. /\ loc[p].at \in Nat /\ loc[p].n \in Nat /\ loc[p].j \in Nat \ {0} /\ loc[p].i \in Nat
        /\ loc[p].failures \in Nat
        /\ loc[p].at <= MaxTime /\ loc[p].n <= MaxSamples /\ loc[p].j <= MaxSamples + 1
        /\ loc[p].i <= MaxSamples /\ loc[p].failures <= MaxSamples
    BY <1>1, <1>2
  <1>5. Len(cells) \in Nat /\ Len(history) \in Nat
    BY <1>3
  <1>6. len \in Nat /\ len <= Len(cells) /\ now \in Nat /\ now <= MaxTime
    BY <1>1, <1>3, <1>5
  <1> QED BY <1>1, <1>2, <1>3, <1>4, <1>5, <1>6

\* A step that leaves the array and the rates alone.
LEMMA QuietStep ==
    ASSUME Basic, NEW p \in Probers,
           pc' \in [Probers -> Labels], loc' \in [Probers -> Locals],
           \A q \in Probers : q # p => pc'[q] = pc[q] /\ loc'[q] = loc[q],
           cells' = cells, len' = len, now' = now, history' = history, rate' = rate,
           overlapped' \in BOOLEAN, overlapped => overlapped',
           InSnapshot(p)' => InBounds(p)',
           pc'[p] = "keep" => Genuine(loc'[p].s, history),
           InSnapshot(p)' => InSnapshot(p) \/ overlapped' \/ \A q \in Probers : ~InSnapshot(q)
    PROVE  Basic'
  <1>1. /\ cells' \in Seq(Samples) /\ Len(cells') = Len(cells) /\ len' \in 0 .. Len(cells)
        /\ rate' \in [Probers -> (0 .. MaxSamples) \X (0 .. MaxSamples)]
    BY DEF Basic, TypeOK
  <1>2. \A k \in DOMAIN cells' : Genuine(cells'[k], history)
    BY DEF Basic, AllGenuine
  <1> QED BY <1>1, <1>2, ProberStep

LEMMA SnapshotBasic ==
    ASSUME Basic, NEW p \in Probers, Snapshot(p)
    PROVE  /\ Basic'
           /\ pc[p] = "snapshot" /\ pc'[p] = "prune" /\ \A q \in Probers : q # p => pc'[q] = pc[q] /\ loc'[q] = loc[q]
           /\ loc'[p].at = now /\ loc'[p].n = len /\ loc'[p].j = 1 /\ loc'[p].i = 0
  <1>1. loc' = [loc EXCEPT ![p] = [loc[p] EXCEPT !.at = now, !.n = len, !.j = 1, !.i = 0]]
    BY DEF Snapshot
  <1>2. /\ pc[p] = "snapshot" /\ pc' = [pc EXCEPT ![p] = "prune"]
        /\ overlapped' = (overlapped \/ \E q \in Probers : InSnapshot(q))
        /\ UNCHANGED <<cells, len, now, history, rate>>
    BY DEF Snapshot, Goto
  <1>3. pc \in [Probers -> Labels] /\ loc \in [Probers -> Locals] /\ overlapped \in BOOLEAN
    BY DEF Basic, TypeOK, Labels
  <1>4. [loc[p] EXCEPT !.at = now, !.n = len, !.j = 1, !.i = 0] \in Locals
    <2>1. now \in 0 .. MaxTime /\ len \in 0 .. MaxSamples /\ 1 \in 1 .. MaxSamples + 1 /\ 0 \in 0 .. MaxSamples
      BY LocalTypes
    <2> QED BY <1>3, <2>1 DEF Locals
  <1>5. loc' \in [Probers -> Locals] /\ \A q \in Probers : q # p => loc'[q] = loc[q]
    BY <1>1, <1>3, <1>4
  <1>6. loc'[p].at = now /\ loc'[p].n = len /\ loc'[p].j = 1 /\ loc'[p].i = 0
    BY <1>1, <1>3 DEF Locals
  <1>7. pc' \in [Probers -> Labels] /\ pc'[p] = "prune" /\ \A q \in Probers : q # p => pc'[q] = pc[q]
    BY <1>2, <1>3 DEF Labels
  <1>8. InBounds(p)'
    BY <1>2, <1>6, <1>7, LocalTypes DEF InBounds, Pruning, Done
  <1>9. Basic'
    BY <1>2, <1>3, <1>5, <1>7, <1>8, QuietStep
  <1> QED BY <1>2, <1>5, <1>6, <1>7, <1>9

\* A torn sample is a sample, and each of its fields a recorded one.
LEMMA MixedFacts ==
    ASSUME NEW some, NEW all, \A s \in some : s \in Samples /\ Genuine(s, all), NEW s \in Mixed(some)
    PROVE  s \in Samples /\ Genuine(s, all)
  <1>1. PICK a \in some, f \in some : s = [at |-> a.at, failed |-> f.failed]
    BY DEF Mixed
  <1>2. a \in Samples /\ f \in Samples /\ s.at = a.at /\ s.failed = f.failed
    BY <1>1
  <1>3. s \in Samples
    BY <1>1, <1>2 DEF Samples
  <1> QED BY <1>2, <1>3 DEF Genuine

LEMMA WritingFacts ==
    ASSUME Basic, NEW k
    PROVE  \A s \in Writing(k) : s \in Samples /\ Genuine(s, history)
  <1> SUFFICES ASSUME NEW q \in Probers, pc[q] = "keep"
               PROVE  loc[q].s \in Samples /\ Genuine(loc[q].s, history)
    BY DEF Writing
  <1> QED BY LocalTypes DEF Basic, AllGenuine

LEMMA PruneReadBasic ==
    ASSUME Basic, NEW p \in Probers, PruneRead(p)
    PROVE  /\ Basic'
           /\ pc[p] = "prune" /\ loc[p].j <= loc[p].n
           /\ \A q \in Probers : q # p => pc'[q] = pc[q] /\ loc'[q] = loc[q]
           /\ loc'[p].s \in Mixed({cells[loc[p].j]} \cup Writing(loc[p].j))
           /\ loc'[p].j = loc[p].j + 1 /\ loc'[p].i = loc[p].i /\ loc'[p].n = loc[p].n /\ loc'[p].at = loc[p].at
           /\ pc'[p] = IF Counts(loc'[p].s, loc[p].at) THEN "keep" ELSE "prune"
           /\ UNCHANGED <<cells, len, now, history, rate, overlapped>>
  <1>1. PICK s \in Mixed({cells[loc[p].j]} \cup Writing(loc[p].j)) :
            /\ loc' = [loc EXCEPT ![p].s = s, ![p].j = @ + 1]
            /\ pc' = [pc EXCEPT ![p] = IF Counts(s, loc[p].at) THEN "keep" ELSE "prune"]
    BY DEF PruneRead, Goto
  <1>2. /\ pc[p] = "prune" /\ loc[p].j <= loc[p].n
        /\ UNCHANGED <<cells, len, now, history, rate, overlapped>>
    BY DEF PruneRead
  <1>3. pc \in [Probers -> Labels] /\ loc \in [Probers -> Locals] /\ overlapped \in BOOLEAN
    BY DEF Basic, TypeOK, Labels
  <1>4. InSnapshot(p) /\ InBounds(p)
    BY <1>2 DEF InSnapshot, Basic, Bounded
  <1>5. s \in Samples /\ Genuine(s, history)
    <2>1. loc[p].j \in DOMAIN cells
      BY <1>2, <1>4, LocalTypes DEF InBounds
    <2>2. cells[loc[p].j] \in Samples /\ Genuine(cells[loc[p].j], history)
      BY <2>1, LocalTypes DEF Basic, AllGenuine
    <2>3. \A x \in {cells[loc[p].j]} \cup Writing(loc[p].j) : x \in Samples /\ Genuine(x, history)
      BY <2>2, WritingFacts
    <2> QED BY <2>3, MixedFacts
  <1>6. loc'[p] = [loc[p] EXCEPT !.s = s, !.j = loc[p].j + 1] /\ \A q \in Probers : q # p => loc'[q] = loc[q]
    BY <1>1, <1>3
  <1>7. [loc[p] EXCEPT !.s = s, !.j = loc[p].j + 1] \in Locals
    <2>1. loc[p].j + 1 \in 1 .. MaxSamples + 1
      BY <1>2, LocalTypes
    <2> QED BY <1>3, <1>5, <2>1 DEF Locals
  <1>8. loc' \in [Probers -> Locals]
    <2>1. loc' = [loc EXCEPT ![p] = [loc[p] EXCEPT !.s = s, !.j = loc[p].j + 1]]
      BY <1>1, <1>3
    <2> QED BY <1>3, <1>7, <2>1
  <1>9. /\ loc'[p].s = s /\ loc'[p].j = loc[p].j + 1 /\ loc'[p].i = loc[p].i /\ loc'[p].n = loc[p].n
        /\ loc'[p].at = loc[p].at
    BY <1>3, <1>6 DEF Locals
  <1>10. /\ pc' \in [Probers -> Labels] /\ pc'[p] = IF Counts(s, loc[p].at) THEN "keep" ELSE "prune"
         /\ \A q \in Probers : q # p => pc'[q] = pc[q]
    BY <1>1, <1>3 DEF Labels
  <1>11. InBounds(p)'
    <2>1. loc[p].i <= loc[p].j - 1 /\ loc[p].at <= now /\ loc[p].n <= Len(cells)
      BY <1>2, <1>4 DEF InBounds, Pruning, Done
    <2>2. pc'[p] \in {"keep", "prune"}
      BY <1>10
    <2>3. /\ loc[p].j \in Nat /\ loc[p].i \in Nat /\ loc[p].n \in Nat
      BY LocalTypes
    <2>4. Done(p)' = loc[p].j \/ Done(p)' = loc[p].j - 1
      BY <1>9, <2>2, <2>3 DEF Done
    <2> QED BY <1>2, <1>9, <2>1, <2>2, <2>3, <2>4 DEF InBounds
  <1>12. Basic'
    BY <1>2, <1>3, <1>4, <1>5, <1>6, <1>8, <1>9, <1>10, <1>11, QuietStep
  <1> QED BY <1>2, <1>6, <1>9, <1>10, <1>12

LEMMA PruneKeepBasic ==
    ASSUME Basic, NEW p \in Probers, PruneKeep(p)
    PROVE  /\ Basic'
           /\ pc[p] = "keep" /\ pc'[p] = "prune" /\ loc[p].i + 1 <= len
           /\ \A q \in Probers : q # p => pc'[q] = pc[q] /\ loc'[q] = loc[q]
           /\ \E s \in Mixed(Writing(loc[p].i + 1)) : cells' = [cells EXCEPT ![loc[p].i + 1] = s]
           /\ loc'[p].i = loc[p].i + 1 /\ loc'[p].j = loc[p].j /\ loc'[p].n = loc[p].n /\ loc'[p].at = loc[p].at
           /\ UNCHANGED <<len, now, history, rate, overlapped>>
  <1> DEFINE k == loc[p].i + 1
  <1>1. /\ pc[p] = "keep" /\ k <= len /\ pc' = [pc EXCEPT ![p] = "prune"]
        /\ loc' = [loc EXCEPT ![p].i = k] /\ UNCHANGED <<len, now, history, rate, overlapped>>
    BY DEF PruneKeep, Goto
  <1>2. PICK s \in Mixed(Writing(k)) : cells' = [cells EXCEPT ![k] = s]
    BY DEF PruneKeep
  <1>3. pc \in [Probers -> Labels] /\ loc \in [Probers -> Locals] /\ overlapped \in BOOLEAN
    BY DEF Basic, TypeOK, Labels
  <1>4. InSnapshot(p) /\ InBounds(p)
    BY <1>1 DEF InSnapshot, Basic, Bounded
  <1>5. s \in Samples /\ Genuine(s, history)
    BY WritingFacts, MixedFacts
  <1>6. cells' \in Seq(Samples) /\ Len(cells') = Len(cells) /\ DOMAIN cells' = DOMAIN cells
    BY <1>1, <1>2, <1>5, LocalTypes
  <1>7. \A m \in DOMAIN cells' : Genuine(cells'[m], history)
    BY <1>2, <1>5, <1>6 DEF Basic, AllGenuine
  <1>8. loc'[p] = [loc[p] EXCEPT !.i = k] /\ \A q \in Probers : q # p => loc'[q] = loc[q]
    BY <1>1, <1>3
  <1>9. loc' \in [Probers -> Locals]
    <2>1. k \in 0 .. MaxSamples
      BY <1>1, LocalTypes
    <2>2. [loc[p] EXCEPT !.i = k] \in Locals
      BY <1>3, <2>1 DEF Locals
    <2>3. loc' = [loc EXCEPT ![p] = [loc[p] EXCEPT !.i = k]]
      BY <1>1, <1>3
    <2> QED BY <1>3, <2>2, <2>3
  <1>10. loc'[p].i = k /\ loc'[p].j = loc[p].j /\ loc'[p].n = loc[p].n /\ loc'[p].at = loc[p].at
    BY <1>3, <1>8 DEF Locals
  <1>11. pc' \in [Probers -> Labels] /\ pc'[p] = "prune" /\ \A q \in Probers : q # p => pc'[q] = pc[q]
    BY <1>1, <1>3 DEF Labels
  <1>12. InBounds(p)'
    <2>1. loc[p].i <= loc[p].j - 2
      BY <1>1, <1>4 DEF InBounds, Pruning, Done
    <2> QED BY <1>1, <1>4, <1>6, <1>10, <1>11, <2>1, LocalTypes DEF InBounds, Pruning, Done
  <1>13. rate' \in [Probers -> (0 .. MaxSamples) \X (0 .. MaxSamples)] /\ len' \in 0 .. Len(cells)
    BY <1>1 DEF Basic, TypeOK
  <1>14. Basic'
    BY <1>1, <1>3, <1>4, <1>6, <1>7, <1>8, <1>9, <1>11, <1>12, <1>13, ProberStep
  <1> QED BY <1>1, <1>2, <1>8, <1>10, <1>11, <1>14

LEMMA PrunePanicBasic ==
    ASSUME Basic, NEW p \in Probers, PrunePanic(p)
    PROVE  /\ Basic'
           /\ pc[p] = "keep" /\ loc[p].i + 1 > len /\ pc'[p] = "panicked"
           /\ \A q \in Probers : q # p => pc'[q] = pc[q]
           /\ UNCHANGED <<cells, len, now, history, loc, rate, overlapped>>
  <1>1. /\ pc[p] = "keep" /\ loc[p].i + 1 > len /\ pc' = [pc EXCEPT ![p] = "panicked"]
        /\ UNCHANGED <<cells, len, now, history, loc, rate, overlapped>>
    BY DEF PrunePanic, Goto
  <1>2. pc \in [Probers -> Labels] /\ loc \in [Probers -> Locals] /\ overlapped \in BOOLEAN
    BY DEF Basic, TypeOK, Labels
  <1>3. pc' \in [Probers -> Labels] /\ pc'[p] = "panicked" /\ \A q \in Probers : q # p => pc'[q] = pc[q]
    BY <1>1, <1>2 DEF Labels
  <1>4. ~InSnapshot(p)'
    BY <1>3 DEF InSnapshot
  <1>5. Basic'
    BY <1>1, <1>2, <1>3, <1>4, QuietStep
  <1> QED BY <1>1, <1>3, <1>5

LEMMA PruneEndBasic ==
    ASSUME Basic, NEW p \in Probers, PruneEnd(p)
    PROVE  /\ Basic'
           /\ pc[p] = "prune" /\ loc[p].j = loc[p].n + 1 /\ pc'[p] = "sum" /\ len' = loc[p].i
           /\ \A q \in Probers : q # p => pc'[q] = pc[q]
           /\ UNCHANGED <<cells, now, history, loc, rate, overlapped>>
  <1>1. /\ pc[p] = "prune" /\ loc[p].j > loc[p].n /\ pc' = [pc EXCEPT ![p] = "sum"] /\ len' = loc[p].i
        /\ UNCHANGED <<cells, now, history, loc, rate, overlapped>>
    BY DEF PruneEnd, Goto
  <1>2. pc \in [Probers -> Labels] /\ loc \in [Probers -> Locals] /\ overlapped \in BOOLEAN
    BY DEF Basic, TypeOK, Labels
  <1>3. InSnapshot(p) /\ InBounds(p)
    BY <1>1 DEF InSnapshot, Basic, Bounded
  <1>4. loc[p].i <= loc[p].j - 1 /\ loc[p].j <= loc[p].n + 1 /\ loc[p].n <= Len(cells) /\ loc[p].at <= now
    BY <1>1, <1>3 DEF InBounds, Pruning, Done
  <1>5. pc' \in [Probers -> Labels] /\ pc'[p] = "sum" /\ \A q \in Probers : q # p => pc'[q] = pc[q]
    BY <1>1, <1>2 DEF Labels
  <1>6. loc[p].j = loc[p].n + 1 /\ len' \in 0 .. Len(cells)
    <2>1. loc[p].j \in Nat /\ loc[p].n \in Nat /\ loc[p].i \in Nat /\ Len(cells) \in Nat
      BY LocalTypes
    <2> QED BY <1>1, <1>4, <2>1
  <1>7. InBounds(p)'
    BY <1>1, <1>4, <1>5 DEF InBounds, Pruning
  <1>8. /\ cells' \in Seq(Samples) /\ rate' \in [Probers -> (0 .. MaxSamples) \X (0 .. MaxSamples)]
        /\ \A k \in DOMAIN cells' : Genuine(cells'[k], history)
    BY <1>1 DEF Basic, TypeOK, AllGenuine
  <1>9. Basic'
    BY <1>1, <1>2, <1>3, <1>5, <1>6, <1>7, <1>8, ProberStep
  <1> QED BY <1>1, <1>5, <1>6, <1>9

LEMMA SumBeginBasic ==
    ASSUME Basic, NEW p \in Probers, SumBegin(p)
    PROVE  /\ Basic' /\ pc[p] = "sum"
           /\ \A q \in Probers : q # p => pc'[q] = pc[q] /\ loc'[q] = loc[q] /\ rate'[q] = rate[q]
           /\ UNCHANGED <<cells, len, now, history, overlapped>>
           /\ \/ len = 0 /\ rate'[p] = NoFailure /\ pc'[p] = "idle" /\ loc' = loc
              \/ /\ len > 0 /\ pc'[p] = "count" /\ rate' = rate
                 /\ loc'[p].n = len /\ loc'[p].j = 1 /\ loc'[p].failures = 0 /\ loc'[p].at = loc[p].at
  <1>1. pc[p] = "sum" /\ UNCHANGED <<cells, len, now, history, overlapped>>
    BY DEF SumBegin
  <1>2. /\ pc \in [Probers -> Labels] /\ loc \in [Probers -> Locals] /\ overlapped \in BOOLEAN
        /\ rate \in [Probers -> (0 .. MaxSamples) \X (0 .. MaxSamples)]
        /\ cells' \in Seq(Samples) /\ len' \in 0 .. Len(cells) /\ \A k \in DOMAIN cells' : Genuine(cells'[k], history)
    BY <1>1 DEF Basic, TypeOK, Labels, AllGenuine
  <1>3. InSnapshot(p) /\ loc[p].at <= now
    BY <1>1 DEF InSnapshot, Basic, Bounded, InBounds
  <1>4. CASE len = 0 /\ rate' = [rate EXCEPT ![p] = NoFailure] /\ pc' = [pc EXCEPT ![p] = "idle"] /\ loc' = loc
    <2>1. NoFailure \in (0 .. MaxSamples) \X (0 .. MaxSamples)
      BY TrackerAssumption DEF NoFailure
    <2>2. rate' \in [Probers -> (0 .. MaxSamples) \X (0 .. MaxSamples)] /\ rate'[p] = NoFailure
      BY <1>2, <1>4, <2>1
    <2>3. /\ pc' \in [Probers -> Labels] /\ pc'[p] = "idle"
          /\ \A q \in Probers : q # p => pc'[q] = pc[q] /\ rate'[q] = rate[q]
      BY <1>2, <1>4 DEF Labels
    <2>4. ~InSnapshot(p)'
      BY <2>3 DEF InSnapshot
    <2>5. Basic'
      BY <1>1, <1>2, <1>4, <2>2, <2>3, <2>4, ProberStep
    <2> QED BY <1>1, <1>4, <2>2, <2>3, <2>5
  <1>5. CASE /\ len > 0 /\ pc' = [pc EXCEPT ![p] = "count"] /\ rate' = rate
             /\ loc' = [loc EXCEPT ![p] = [loc[p] EXCEPT !.n = len, !.j = 1, !.failures = 0]]
    <2>1. len \in 0 .. MaxSamples /\ 1 \in 1 .. MaxSamples + 1 /\ 0 \in 0 .. MaxSamples
      BY LocalTypes
    <2>2. [loc[p] EXCEPT !.n = len, !.j = 1, !.failures = 0] \in Locals
      <3>1. loc[p] \in Locals
        BY <1>2
      <3> QED BY <2>1, <3>1 DEF Locals
    <2>3. loc' \in [Probers -> Locals] /\ \A q \in Probers : q # p => loc'[q] = loc[q]
      BY <1>2, <1>5, <2>2
    <2>4. loc'[p].n = len /\ loc'[p].j = 1 /\ loc'[p].failures = 0 /\ loc'[p].at = loc[p].at
      BY <1>2, <1>5 DEF Locals
    <2>5. pc' \in [Probers -> Labels] /\ pc'[p] = "count" /\ \A q \in Probers : q # p => pc'[q] = pc[q]
      BY <1>2, <1>5 DEF Labels
    <2>6. InBounds(p)'
      BY <1>1, <1>3, <2>4, <2>5, LocalTypes DEF InBounds, Pruning
    <2>7. Basic'
      BY <1>1, <1>2, <1>3, <1>5, <2>3, <2>5, <2>6, ProberStep
    <2> QED BY <1>1, <1>5, <2>3, <2>4, <2>5, <2>7
  <1> QED BY <1>4, <1>5 DEF SumBegin, Goto

LEMMA CountBasic ==
    ASSUME Basic, NEW p \in Probers, Count(p)
    PROVE  /\ Basic' /\ pc[p] = "count" /\ loc[p].j <= loc[p].n
           /\ \A q \in Probers : q # p => loc'[q] = loc[q]
           /\ \E s \in Mixed({cells[loc[p].j]} \cup Writing(loc[p].j)) :
                loc'[p].failures = IF s.failed THEN loc[p].failures + 1 ELSE loc[p].failures
           /\ loc'[p].j = loc[p].j + 1 /\ loc'[p].n = loc[p].n /\ loc'[p].at = loc[p].at
           /\ UNCHANGED <<cells, len, now, history, pc, rate, overlapped>>
  <1>1. PICK s \in Mixed({cells[loc[p].j]} \cup Writing(loc[p].j)) :
            loc' = [loc EXCEPT ![p].failures = IF s.failed THEN @ + 1 ELSE @, ![p].j = @ + 1]
    BY DEF Count
  <1>2. /\ pc[p] = "count" /\ loc[p].j <= loc[p].n
        /\ UNCHANGED <<cells, len, now, history, pc, rate, overlapped>>
    BY DEF Count
  <1>3. pc \in [Probers -> Labels] /\ loc \in [Probers -> Locals] /\ overlapped \in BOOLEAN
    BY DEF Basic, TypeOK, Labels
  <1>4. InSnapshot(p) /\ InBounds(p)
    BY <1>2 DEF InSnapshot, Basic, Bounded
  <1> DEFINE f == IF s.failed THEN loc[p].failures + 1 ELSE loc[p].failures
             new == [loc[p] EXCEPT !.failures = f, !.j = loc[p].j + 1]
  <1>5. loc' = [loc EXCEPT ![p] = new]
    BY <1>1, <1>3
  <1>6. loc[p].failures <= loc[p].j - 1 /\ loc[p].at <= now /\ loc[p].n <= Len(cells)
    BY <1>2, <1>4 DEF InBounds
  <1>7. f \in 0 .. MaxSamples /\ loc[p].j + 1 \in 1 .. MaxSamples + 1 /\ f <= loc[p].j /\ f \in Nat
    <2>1. /\ loc[p].j \in Nat \ {0} /\ loc[p].n \in Nat /\ loc[p].failures \in Nat /\ MaxSamples \in Nat
          /\ loc[p].n <= MaxSamples
      BY LocalTypes
    <2>2. f = loc[p].failures \/ f = loc[p].failures + 1
      BY Zenon
    <2> HIDE DEF f
    <2>3. f \in Nat /\ f <= loc[p].failures + 1
      BY <2>1, <2>2
    <2>4. f <= loc[p].j /\ loc[p].j <= MaxSamples
      BY <1>2, <1>6, <2>1, <2>3
    <2> QED BY <2>1, <2>3, <2>4
  <1> HIDE DEF f
  <1>8. new \in Locals
    BY <1>3, <1>7 DEF Locals
  <1>9. new.failures = f /\ new.j = loc[p].j + 1 /\ new.n = loc[p].n /\ new.at = loc[p].at
    BY <1>3 DEF Locals
  <1> HIDE DEF new
  <1>10. loc' \in [Probers -> Locals] /\ loc'[p] = new /\ \A q \in Probers : q # p => loc'[q] = loc[q]
    BY <1>3, <1>5, <1>8
  <1>11. InBounds(p)'
    <2>1. loc[p].j \in Nat /\ loc[p].n \in Nat
      BY LocalTypes
    <2>2. loc[p].j + 1 <= loc[p].n + 1 /\ f <= loc[p].j + 1 - 1
      BY <1>2, <1>7, <2>1
    <2>3. /\ loc'[p].failures = f /\ loc'[p].j = loc[p].j + 1 /\ loc'[p].n = loc[p].n
          /\ loc'[p].at = loc[p].at /\ pc'[p] = "count" /\ now' = now /\ cells' = cells
      BY <1>2, <1>9, <1>10
    <2> QED BY <1>6, <2>1, <2>2, <2>3 DEF InBounds, Pruning
  <1>12. Basic'
    BY <1>2, <1>3, <1>4, <1>10, <1>11, QuietStep
  <1> QED BY <1>2, <1>9, <1>10, <1>12 DEF f

LEMMA DivideBasic ==
    ASSUME Basic, NEW p \in Probers, Divide(p)
    PROVE  /\ Basic' /\ pc[p] = "count" /\ loc[p].j = loc[p].n + 1 /\ pc'[p] = "idle"
           /\ rate'[p] = <<loc[p].failures, len>>
           /\ \A q \in Probers : q # p => pc'[q] = pc[q] /\ rate'[q] = rate[q]
           /\ UNCHANGED <<cells, len, now, history, loc, overlapped>>
  <1>1. /\ pc[p] = "count" /\ loc[p].j > loc[p].n /\ pc' = [pc EXCEPT ![p] = "idle"]
        /\ rate' = [rate EXCEPT ![p] = <<loc[p].failures, len>>]
        /\ UNCHANGED <<cells, len, now, history, loc, overlapped>>
    BY DEF Divide, Goto
  <1>2. /\ pc \in [Probers -> Labels] /\ loc \in [Probers -> Locals] /\ overlapped \in BOOLEAN
        /\ rate \in [Probers -> (0 .. MaxSamples) \X (0 .. MaxSamples)]
        /\ cells' \in Seq(Samples) /\ len' \in 0 .. Len(cells) /\ \A k \in DOMAIN cells' : Genuine(cells'[k], history)
    BY <1>1 DEF Basic, TypeOK, Labels, AllGenuine
  <1>3. InSnapshot(p) /\ InBounds(p)
    BY <1>1 DEF InSnapshot, Basic, Bounded
  <1>4. loc[p].j = loc[p].n + 1
    <2>1. loc[p].j <= loc[p].n + 1
      BY <1>1, <1>3 DEF InBounds
    <2>2. loc[p].j \in Nat /\ loc[p].n \in Nat
      BY LocalTypes
    <2> QED BY <1>1, <2>1, <2>2
  <1>5. <<loc[p].failures, len>> \in (0 .. MaxSamples) \X (0 .. MaxSamples)
    BY LocalTypes
  <1>6. /\ pc' \in [Probers -> Labels] /\ pc'[p] = "idle" /\ rate'[p] = <<loc[p].failures, len>>
        /\ rate' \in [Probers -> (0 .. MaxSamples) \X (0 .. MaxSamples)]
        /\ \A q \in Probers : q # p => pc'[q] = pc[q] /\ rate'[q] = rate[q]
    BY <1>1, <1>2, <1>5 DEF Labels
  <1>7. ~InSnapshot(p)'
    BY <1>6 DEF InSnapshot
  <1>8. Basic'
    BY <1>1, <1>2, <1>6, <1>7, ProberStep
  <1> QED BY <1>1, <1>4, <1>6, <1>8

-----------------------------------------------------------------------------
(***************************************************************************)
(* What is read and written while it is calm.                              *)
(***************************************************************************)
LEMMA RecordedType ==
    ASSUME Basic, len <= Len(history), NEW k \in 1 .. len
    PROVE  /\ Len(history) - len + k \in DOMAIN history
           /\ Recorded(len, k) \in Samples
  <1>1. len \in Nat /\ history \in Seq(Samples) /\ Len(history) \in Nat /\ DOMAIN history = 1 .. Len(history)
    BY DEF Basic, TypeOK
  <1>2. Len(history) - len + k \in 1 .. Len(history)
    BY <1>1
  <1> QED BY <1>1, <1>2 DEF Recorded

\* A sample that counts counted before.
LEMMA CountsBefore ==
    ASSUME NEW s \in Samples, NEW t \in Int, NEW u \in Int, t <= u, Counts(s, u)
    PROVE  Counts(s, t)
  <1>1. Window \in Int /\ s.at \in Int
    BY TrackerAssumption DEF Samples
  <1> QED BY <1>1 DEF Counts

LEMMA MixedSame ==
    ASSUME NEW v \in Samples, NEW some, \A x \in some : x = v, NEW s \in Mixed(some)
    PROVE  s = v
  <1>1. PICK a \in some, f \in some : s = [at |-> a.at, failed |-> f.failed]
    BY DEF Mixed
  <1>2. s = [at |-> v.at, failed |-> v.failed]
    BY <1>1
  <1> QED BY <1>2 DEF Samples

\* The numbers of a snapshot that prunes while it is calm.
LEMMA PruneNumbers ==
    ASSUME Basic, NEW p \in Probers, Pruning(p), PruneExact(p)
    PROVE  /\ loc[p].n = len /\ loc[p].j \in 1 .. len + 1 /\ loc[p].i \in 0 .. len /\ len \in Nat
           /\ Dropped(p) \in 0 .. len /\ Done(p) \in 0 .. len /\ loc[p].i + Dropped(p) = Done(p)
           /\ pc[p] = "keep" => Done(p) = loc[p].j - 2 /\ loc[p].j - 1 \in 1 .. len /\ loc[p].i + 1 \in 1 .. len
           /\ pc[p] = "prune" => Done(p) = loc[p].j - 1
           /\ loc[p].at <= now /\ loc[p].at \in Nat /\ now \in Nat
  <1>1. InBounds(p)
    BY DEF Pruning, InSnapshot, Basic, Bounded
  <1>2. loc[p].n = len /\ loc[p].j <= len + 1 /\ loc[p].i <= Done(p) /\ loc[p].at <= now
    BY <1>1 DEF InBounds, PruneExact, Pruning
  <1>3. loc[p].j \in Nat \ {0} /\ loc[p].i \in Nat /\ len \in Nat /\ loc[p].at \in Nat /\ now \in Nat
    BY LocalTypes
  <1>4. CASE pc[p] = "keep"
    <2>1. Done(p) = loc[p].j - 2
      BY <1>4 DEF Done
    <2> QED BY <1>2, <1>3, <1>4, <2>1 DEF Dropped
  <1>5. CASE pc[p] = "prune"
    <2>1. Done(p) = loc[p].j - 1
      BY <1>5 DEF Done
    <2> QED BY <1>2, <1>3, <1>5, <2>1 DEF Dropped
  <1> QED BY <1>4, <1>5 DEF Pruning

\* While every sample counts, none is dropped.
LEMMA NothingDropped ==
    ASSUME Basic, Exact, AllCount, NEW p \in Probers, Pruning(p)
    PROVE  Dropped(p) = 0
  <1>1. PruneExact(p) /\ len <= Len(history)
    BY DEF Exact, ProberExact
  <1>2. Dropped(p) \in 0 .. len /\ len \in Nat /\ loc[p].at <= now /\ loc[p].at \in Nat /\ now \in Nat
    BY <1>1, PruneNumbers
  <1> SUFFICES ASSUME Dropped(p) # 0 PROVE FALSE
    OBVIOUS
  <1>3. 1 \in 1 .. Dropped(p) /\ 1 \in 1 .. len
    BY <1>2
  <1>4. ~Counts(Recorded(len, 1), loc[p].at)
    BY <1>1, <1>3 DEF PruneExact
  <1>5. Recorded(len, 1) \in Samples /\ Counts(Recorded(len, 1), now)
    BY <1>1, <1>3, RecordedType DEF AllCount, Recorded
  <1> QED BY <1>2, <1>4, <1>5, CountsBefore

\* What is being written into the slice is what belongs there.
LEMMA WritersExact ==
    ASSUME Basic, Exact, Calm, NEW p \in Probers, InSnapshot(p), NEW k, NEW q \in Probers,
           pc[q] = "keep", loc[q].i + 1 = k, p # q
    PROVE  k \in 1 .. len /\ loc[q].s = Recorded(len, k)
  <1>1. AllCount
    BY DEF Calm, Basic, Alone, InSnapshot
  <1>2. Pruning(q) /\ PruneExact(q)
    BY DEF Pruning, Exact, ProberExact
  <1>3. Dropped(q) = 0
    BY <1>1, <1>2, NothingDropped
  <1>4. /\ Done(q) = loc[q].j - 2 /\ loc[q].i + Dropped(q) = Done(q) /\ loc[q].i + 1 \in 1 .. len
        /\ loc[q].i \in 0 .. len /\ loc[q].j \in 1 .. len + 1 /\ len \in Nat
    BY <1>2, PruneNumbers
  <1>5. k = loc[q].j - 1
    BY <1>3, <1>4
  <1> QED BY <1>2, <1>4, <1>5 DEF PruneExact

LEMMA ReadsExact ==
    ASSUME Basic, Exact, Calm, NEW p \in Probers,
           NEW k \in 1 .. len, \/ pc[p] = "prune" /\ k = loc[p].j
                               \/ pc[p] = "count",
           NEW s \in Mixed({cells[k]} \cup Writing(k))
    PROVE  s = Recorded(len, k)
  <1>1. InSnapshot(p) /\ len <= Len(history) /\ SliceIsLast
    BY DEF InSnapshot, Exact
  <1>2. cells[k] = Recorded(len, k)
    <2>1. CASE pc[p] = "prune"
      <3>1. PruneExact(p)
        BY <2>1 DEF Exact, ProberExact, Pruning
      <3>2. k \in loc[p].j .. len
        BY <2>1, LocalTypes
      <3> QED BY <3>1, <3>2 DEF PruneExact
    <2>2. CASE pc[p] = "count"
      <3>1. AllCount \/ \A q \in Probers : ~Pruning(q)
        BY <1>1, <2>2 DEF Calm, Basic, Alone, Pruning, InSnapshot
      <3> QED BY <1>1, <3>1 DEF SliceIsLast
    <2> QED BY <2>1, <2>2
  <1>3. \A x \in Writing(k) : x = Recorded(len, k)
    <2> SUFFICES ASSUME NEW q \in Probers, pc[q] = "keep", loc[q].i + 1 = k
                 PROVE  loc[q].s = Recorded(len, k)
      BY DEF Writing
    <2> QED BY <1>1, WritersExact
  <1>4. Recorded(len, k) \in Samples
    BY <1>1, RecordedType
  <1>5. \A x \in {cells[k]} \cup Writing(k) : x = Recorded(len, k)
    BY <1>2, <1>3
  <1> QED BY <1>4, <1>5, MixedSame

-----------------------------------------------------------------------------
(***************************************************************************)
(* Exact is kept as long as it stays calm.                                 *)
(***************************************************************************)
LEMMA OthersExact ==
    ASSUME NEW q \in Probers, ProberExact(q), pc'[q] = pc[q], loc'[q] = loc[q],
           UNCHANGED <<cells, len, history>>
    PROVE  ProberExact(q)'
  <1>1. InSnapshot(q)' => NoneMissing(loc[q].at)'
    BY DEF ProberExact, InSnapshot, NoneMissing, Counts
  <1>2. Pruning(q)' => PruneExact(q)'
    BY DEF ProberExact, Pruning, PruneExact, Dropped, Done, Recorded, Counts
  <1>3. pc'[q] \in {"sum", "count"} => \A k \in 1 .. len' : Counts(Recorded(len, k), loc[q].at)'
    BY DEF ProberExact, Recorded, Counts
  <1>4. pc'[q] = "count" => CountExact(q)'
    BY DEF ProberExact, CountExact, FailuresIn
  <1> QED BY <1>1, <1>2, <1>3, <1>4 DEF ProberExact

LEMMA ExactQuiet ==
    ASSUME Exact, NEW p \in Probers, UNCHANGED <<cells, len, now, history>>,
           \A q \in Probers : q # p => pc'[q] = pc[q] /\ loc'[q] = loc[q],
           AllCount \/ (Pruning(p) => Pruning(p)'), ProberExact(p)'
    PROVE  Exact'
  <1>1. len' <= Len(history') /\ NoneMissing(now)'
    BY DEF Exact, NoneMissing, Counts
  <1>2. SliceIsLast'
    <2>1. AllCount' => AllCount
      BY DEF AllCount, Counts
    <2>2. (\A q \in Probers : ~Pruning(q)') => AllCount \/ \A q \in Probers : ~Pruning(q)
      BY DEF Pruning
    <2>3. AllCount' \/ (\A q \in Probers : ~Pruning(q)') => \A k \in 1 .. len : cells[k] = Recorded(len, k)
      BY <2>1, <2>2 DEF Exact, SliceIsLast
    <2> QED BY <2>3 DEF SliceIsLast, Recorded
  <1>3. \A q \in Probers : ProberExact(q)'
    BY OthersExact DEF Exact
  <1> QED BY <1>1, <1>2, <1>3 DEF Exact

LEMMA SnapshotCalm ==
    ASSUME Basic, Exact, Calm', NEW p \in Probers, Snapshot(p)
    PROVE  Exact'
  <1>1. /\ pc'[p] = "prune" /\ \A q \in Probers : q # p => pc'[q] = pc[q] /\ loc'[q] = loc[q]
        /\ loc'[p].at = now /\ loc'[p].n = len /\ loc'[p].j = 1 /\ loc'[p].i = 0 /\ pc[p] = "snapshot"
    BY SnapshotBasic
  <1>2. /\ overlapped' = (overlapped \/ \E q \in Probers : InSnapshot(q))
        /\ UNCHANGED <<cells, len, now, history, rate>>
    BY DEF Snapshot
  <1>3. \A k \in 1 .. len : cells[k] = Recorded(len, k)
    <2>1. AllCount' => AllCount
      BY <1>2 DEF AllCount, Counts
    <2>2. ~overlapped' => \A q \in Probers : ~Pruning(q)
      BY <1>2 DEF Pruning, InSnapshot
    <2> QED BY <2>1, <2>2 DEF Calm, Exact, SliceIsLast
  <1>4. ProberExact(p)'
    <2>1. Dropped(p)' = 0
      BY <1>1 DEF Dropped, Done
    <2>2. PruneExact(p)'
      BY <1>1, <1>2, <1>3, <2>1 DEF PruneExact, Recorded
    <2>3. NoneMissing(loc[p].at)'
      BY <1>1, <1>2 DEF Exact, NoneMissing, Counts
    <2> QED BY <1>1, <2>2, <2>3 DEF ProberExact
  <1>5. Pruning(p)'
    BY <1>1 DEF Pruning
  <1> QED BY <1>1, <1>2, <1>4, <1>5, ExactQuiet

LEMMA PruneReadCalm ==
    ASSUME Basic, Exact, Calm, NEW p \in Probers, PruneRead(p)
    PROVE  Exact'
  <1> DEFINE k == loc[p].j
             v == Recorded(len, k)
             d == Dropped(p)
  <1>1. /\ pc[p] = "prune" /\ loc[p].j <= loc[p].n
        /\ \A q \in Probers : q # p => pc'[q] = pc[q] /\ loc'[q] = loc[q]
        /\ loc'[p].s \in Mixed({cells[loc[p].j]} \cup Writing(loc[p].j))
        /\ loc'[p].j = loc[p].j + 1 /\ loc'[p].i = loc[p].i /\ loc'[p].n = loc[p].n /\ loc'[p].at = loc[p].at
        /\ pc'[p] = IF Counts(loc'[p].s, loc[p].at) THEN "keep" ELSE "prune"
        /\ UNCHANGED <<cells, len, now, history, rate, overlapped>>
    BY PruneReadBasic
  <1>2. Pruning(p) /\ InSnapshot(p) /\ PruneExact(p) /\ NoneMissing(loc[p].at) /\ len <= Len(history)
    BY <1>1 DEF Pruning, InSnapshot, Exact, ProberExact
  <1>3. /\ loc[p].n = len /\ k \in 1 .. len + 1 /\ loc[p].i \in 0 .. len /\ d \in 0 .. len
        /\ loc[p].i + d = k - 1 /\ len \in Nat
    BY <1>1, <1>2, PruneNumbers
  <1>4. k \in 1 .. len
    BY <1>1, <1>3
  <1>5. loc'[p].s = v /\ v \in Samples
    BY <1>1, <1>2, <1>4, ReadsExact, RecordedType
  <1>6. \A m \in k + 1 .. len : cells[m] = Recorded(len, m)
    <2>1. \A m \in k + 1 .. len : m \in k .. len
      BY <1>3
    <2> QED BY <1>2, <2>1 DEF PruneExact
  <1>7. PruneExact(p)'
    <2>1. CASE Counts(v, loc[p].at)
      <3>1. pc'[p] = "keep" /\ Done(p)' = k - 1 /\ Dropped(p)' = d
        BY <1>1, <1>3, <1>5, <2>1 DEF Done, Dropped
      <3>2. /\ loc'[p].n = len' /\ loc'[p].s = Recorded(len, loc[p].j - 1)'
            /\ Counts(loc[p].s, loc[p].at)'
        BY <1>1, <1>3, <1>5, <2>1 DEF Recorded, Counts
      <3>3. \A m \in 1 .. loc'[p].i : (cells[m] = Recorded(len, Dropped(p) + m) /\ Counts(Recorded(len, Dropped(p) + m), loc[p].at))'
        BY <1>1, <1>2, <3>1 DEF PruneExact, Recorded, Counts
      <3>4. \A m \in loc'[p].j .. len' : (cells[m] = Recorded(len, m))'
        BY <1>1, <1>6 DEF Recorded
      <3>5. \A m \in 1 .. Dropped(p)' : ~Counts(Recorded(len, m), loc[p].at)'
        BY <1>1, <1>2, <3>1 DEF PruneExact, Recorded, Counts
      <3> QED BY <3>2, <3>3, <3>4, <3>5 DEF PruneExact
    <2>2. CASE ~Counts(v, loc[p].at)
      <3>1. pc'[p] = "prune" /\ Done(p)' = k /\ Dropped(p)' = d + 1
        BY <1>1, <1>3, <1>5, <2>2 DEF Done, Dropped
      <3>2. loc[p].i = 0
        <4> SUFFICES ASSUME loc[p].i # 0 PROVE FALSE
          OBVIOUS
        <4> DEFINE u == Recorded(len, k - 1)
        <4>1. loc[p].i \in 1 .. loc[p].i /\ d + loc[p].i = k - 1 /\ k - 1 \in 1 .. len
          BY <1>3
        <4>2. Counts(u, loc[p].at)
          BY <1>2, <4>1 DEF PruneExact
        <4>3. u \in Samples /\ u.at <= v.at
          <5>1. /\ Len(history) - len + (k - 1) \in DOMAIN history /\ Len(history) - len + k \in DOMAIN history
                /\ u \in Samples
            BY <1>2, <1>4, <4>1, RecordedType
          <5>2. Len(history) - len + (k - 1) <= Len(history) - len + k
            <6>1. Len(history) \in Nat
              BY LocalTypes
            <6> QED BY <1>3, <6>1
          <5> QED BY <5>1, <5>2 DEF Recorded, Basic, Sorted
        <4>4. u.at \in Int /\ v.at \in Int /\ Window \in Int /\ loc[p].at \in Int
          BY <1>5, <4>3, LocalTypes, TrackerAssumption DEF Samples
        <4> HIDE DEF u, v
        <4> QED BY <2>2, <4>2, <4>3, <4>4 DEF Counts
      <3>3. d + 1 = k
        BY <1>3, <3>2
      <3>4. loc'[p].n = len' /\ loc'[p].i = 0
        BY <1>1, <1>3, <3>2
      <3>5. \A m \in loc'[p].j .. len' : (cells[m] = Recorded(len, m))'
        BY <1>1, <1>6 DEF Recorded
      <3>6. \A m \in 1 .. Dropped(p)' : ~Counts(Recorded(len, m), loc[p].at)'
        <4>1. \A m \in 1 .. d + 1 : m \in 1 .. d \/ m = k
          BY <1>3, <3>3
        <4>2. \A m \in 1 .. d + 1 : ~Counts(Recorded(len, m), loc[p].at)
          BY <1>2, <2>2, <4>1 DEF PruneExact
        <4> QED BY <1>1, <3>1, <4>2 DEF Recorded, Counts
      <3> QED BY <3>1, <3>4, <3>5, <3>6 DEF PruneExact
    <2> QED BY <2>1, <2>2
  <1>8. Pruning(p)' /\ pc'[p] \notin {"sum", "count"}
    BY <1>1 DEF Pruning
  <1>9. NoneMissing(loc[p].at)'
    BY <1>1, <1>2 DEF NoneMissing, Counts
  <1>10. ProberExact(p)'
    BY <1>7, <1>8, <1>9 DEF ProberExact
  <1> QED BY <1>1, <1>8, <1>10, ExactQuiet

LEMMA PruneKeepCalm ==
    ASSUME Basic, Exact, Calm, NEW p \in Probers, PruneKeep(p)
    PROVE  Exact'
  <1> DEFINE k == loc[p].i + 1
             v == Recorded(len, loc[p].j - 1)
             d == Dropped(p)
  <1>1. /\ pc[p] = "keep" /\ pc'[p] = "prune"
        /\ \A q \in Probers : q # p => pc'[q] = pc[q] /\ loc'[q] = loc[q]
        /\ \E s \in Mixed(Writing(k)) : cells' = [cells EXCEPT ![k] = s]
        /\ loc'[p].i = k /\ loc'[p].j = loc[p].j /\ loc'[p].n = loc[p].n /\ loc'[p].at = loc[p].at
        /\ UNCHANGED <<len, now, history, rate, overlapped>>
    BY PruneKeepBasic
  <1>2. Pruning(p) /\ InSnapshot(p) /\ PruneExact(p) /\ NoneMissing(loc[p].at) /\ len <= Len(history)
    BY <1>1 DEF Pruning, InSnapshot, Exact, ProberExact
  <1>3. /\ loc[p].n = len /\ loc[p].j \in 1 .. len + 1 /\ k \in 1 .. len /\ d \in 0 .. len /\ len \in Nat
        /\ loc[p].i \in 0 .. len /\ loc[p].i + d = loc[p].j - 2 /\ loc[p].j - 1 \in 1 .. len
    BY <1>1, <1>2, PruneNumbers
  <1>4. loc[p].s = v /\ Counts(v, loc[p].at) /\ v \in Samples
    BY <1>1, <1>2, <1>3, RecordedType DEF PruneExact
  <1>5. \A x \in Writing(k) : x = v
    <2> SUFFICES ASSUME NEW q \in Probers, pc[q] = "keep", loc[q].i + 1 = k
                 PROVE  loc[q].s = v
      BY DEF Writing
    <2>1. CASE q = p
      BY <1>4, <2>1
    <2>2. CASE q # p
      <3>1. AllCount
        BY <1>2, <2>2 DEF Calm, Basic, Alone, InSnapshot
      <3>2. loc[q].s = Recorded(len, k)
        BY <1>2, <2>2, WritersExact
      <3>3. d = 0
        BY <1>2, <3>1, NothingDropped
      <3>4. k = loc[p].j - 1
        BY <1>3, <3>3
      <3> QED BY <3>2, <3>4
    <2> QED BY <2>1, <2>2
  <1>6. cells' = [cells EXCEPT ![k] = v]
    BY <1>1, <1>4, <1>5, MixedSame
  <1>7. cells \in Seq(Samples) /\ DOMAIN cells = 1 .. Len(cells) /\ k \in DOMAIN cells /\ len <= Len(cells) /\ Len(cells) \in Nat
    <2>1. cells \in Seq(Samples) /\ Len(cells) \in Nat /\ len <= Len(cells)
      BY LocalTypes
    <2>2. DOMAIN cells = 1 .. Len(cells)
      BY <2>1
    <2> HIDE DEF k
    <2>3. k \in 1 .. Len(cells)
      BY <1>3, <2>1
    <2> QED BY <2>1, <2>2, <2>3
  <1>8. cells'[k] = v /\ \A m \in DOMAIN cells : m # k => cells'[m] = cells[m]
    BY <1>6, <1>7
  <1>9. PruneExact(p)'
    <2>1. Dropped(p)' = d
      BY <1>1, <1>3 DEF Done, Dropped
    <2>2. \A m \in 1 .. k : cells'[m] = Recorded(len, d + m) /\ Counts(Recorded(len, d + m), loc[p].at)
      <3> SUFFICES ASSUME NEW m \in 1 .. k
                   PROVE  cells'[m] = Recorded(len, d + m) /\ Counts(Recorded(len, d + m), loc[p].at)
        OBVIOUS
      <3>1. CASE m = k
        <4>1. d + m = loc[p].j - 1
          BY <1>3, <3>1
        <4> QED BY <1>4, <1>8, <3>1, <4>1
      <3>2. CASE m # k
        <4>1. m \in 1 .. loc[p].i /\ m \in 1 .. Len(cells)
          <5>1. m \in Int /\ 1 <= m /\ m <= loc[p].i + 1 /\ m # loc[p].i + 1 /\ loc[p].i \in Int
            BY <1>3, <3>2
          <5>2. loc[p].i <= len /\ len \in Int /\ len <= Len(cells) /\ Len(cells) \in Int
            BY <1>3, <1>7
          <5> QED BY <5>1, <5>2
        <4>2. m \in DOMAIN cells
          BY <1>7, <4>1
        <4> QED BY <1>2, <1>8, <3>2, <4>1, <4>2 DEF PruneExact
      <3> QED BY <3>1, <3>2
    <2>3. \A m \in loc[p].j .. len : cells'[m] = Recorded(len, m)
      <3>1. \A m \in loc[p].j .. len : m # k /\ m \in DOMAIN cells
        <4>1. loc[p].j \in Nat /\ d \in Nat /\ loc[p].i \in Nat /\ 1 <= loc[p].j
          BY <1>3
        <4>2. loc[p].i + 1 < loc[p].j
          BY <1>3, <4>1
        <4>3. ASSUME NEW m \in loc[p].j .. len PROVE m # loc[p].i + 1 /\ m \in 1 .. Len(cells)
          <5>1. m \in Int /\ loc[p].j <= m /\ m <= len
            BY <1>3, <4>1
          <5>2. len \in Int /\ len <= Len(cells) /\ Len(cells) \in Int
            BY <1>3, <1>7
          <5> QED BY <4>1, <4>2, <5>1, <5>2
        <4> QED BY <1>7, <4>3
      <3> QED BY <1>2, <1>8, <3>1 DEF PruneExact
    <2>4. \A m \in 1 .. d : ~Counts(Recorded(len, m), loc[p].at)
      BY <1>2 DEF PruneExact
    <2>5. \A m \in 1 .. loc'[p].i :
            (cells[m] = Recorded(len, Dropped(p) + m) /\ Counts(Recorded(len, Dropped(p) + m), loc[p].at))'
      BY <1>1, <2>1, <2>2 DEF Recorded, Counts
    <2>6. \A m \in loc'[p].j .. len' : (cells[m] = Recorded(len, m))'
      BY <1>1, <2>3 DEF Recorded
    <2>7. \A m \in 1 .. Dropped(p)' : ~Counts(Recorded(len, m), loc[p].at)'
      BY <1>1, <2>1, <2>4 DEF Recorded, Counts
    <2> QED BY <1>1, <1>3, <2>5, <2>6, <2>7 DEF PruneExact
  <1>10. Pruning(p)' /\ ProberExact(p)'
    <2>1. NoneMissing(loc[p].at)'
      BY <1>1, <1>2 DEF NoneMissing, Counts
    <2> QED BY <1>1, <1>9, <2>1 DEF ProberExact, Pruning
  <1>11. CASE AllCount
    <2>1. d = 0
      BY <1>2, <1>11, NothingDropped
    <2>2. k = loc[p].j - 1
      BY <1>3, <2>1
    <2>3. cells[k] = v
      BY <1>3, <1>11, <2>2 DEF Exact, SliceIsLast
    <2>4. cells' = cells
      BY <1>6, <1>7, <2>3
    <2> QED BY <1>1, <1>10, <2>4, ExactQuiet
  <1>12. CASE ~AllCount
    <2>1. \A q \in Probers : q # p => ~InSnapshot(q)'
      BY <1>1, <1>2, <1>12 DEF Calm, Basic, Alone, InSnapshot
    <2>2. \A q \in Probers : q # p => ProberExact(q)'
      BY <2>1 DEF ProberExact, InSnapshot, Pruning
    <2>3. SliceIsLast'
      <3>1. ~AllCount'
        BY <1>1, <1>12 DEF AllCount, Counts
      <3> QED BY <1>10, <3>1 DEF SliceIsLast
    <2>4. len' <= Len(history') /\ NoneMissing(now)'
      BY <1>1 DEF Exact, NoneMissing, Counts
    <2> QED BY <1>10, <2>2, <2>3, <2>4 DEF Exact
  <1> QED BY <1>11, <1>12

\* An index out of range needs snapshots that overlapped.
LEMMA NoPanicCalm ==
    ASSUME Basic, Exact, NEW p \in Probers
    PROVE  ~PrunePanic(p)
  <1> SUFFICES ASSUME PrunePanic(p) PROVE FALSE
    OBVIOUS
  <1>1. pc[p] = "keep" /\ loc[p].i + 1 > len
    BY PrunePanicBasic
  <1>2. loc[p].i + 1 \in 1 .. len /\ len \in Nat
    BY <1>1, PruneNumbers DEF Pruning, Exact, ProberExact
  <1> QED BY <1>1, <1>2

LEMMA PruneEndCalm ==
    ASSUME Basic, Exact, Calm, NEW p \in Probers, PruneEnd(p)
    PROVE  Exact'
  <1> DEFINE d == Dropped(p)
             H == Len(history)
  <1>1. /\ pc[p] = "prune" /\ loc[p].j = loc[p].n + 1 /\ pc'[p] = "sum" /\ len' = loc[p].i
        /\ \A q \in Probers : q # p => pc'[q] = pc[q]
        /\ UNCHANGED <<cells, now, history, loc, rate, overlapped>>
    BY PruneEndBasic
  <1>2. Pruning(p) /\ InSnapshot(p) /\ PruneExact(p) /\ NoneMissing(loc[p].at) /\ len <= H /\ NoneMissing(now)
    BY <1>1 DEF Pruning, InSnapshot, Exact, ProberExact
  <1>3. /\ loc[p].n = len /\ loc[p].i \in 0 .. len /\ d \in 0 .. len /\ len \in Nat /\ loc[p].i + d = len
        /\ loc[p].at <= now /\ loc[p].at \in Nat /\ now \in Nat
    <2>1. /\ loc[p].n = len /\ loc[p].i \in 0 .. len /\ d \in 0 .. len /\ len \in Nat
          /\ loc[p].i + d = Done(p) /\ Done(p) = loc[p].j - 1
          /\ loc[p].at <= now /\ loc[p].at \in Nat /\ now \in Nat
      BY <1>1, <1>2, PruneNumbers
    <2>2. Done(p) = len
      BY <1>1, <2>1
    <2> QED BY <2>1, <2>2
  <1>4. H \in Nat /\ history \in Seq(Samples) /\ DOMAIN history = 1 .. H
    BY LocalTypes
  <1>5. \A m \in 1 .. len' : Recorded(len, m)' = Recorded(len, d + m)
    <2>1. ASSUME NEW m \in 1 .. loc[p].i PROVE H - loc[p].i + m = H - len + (d + m)
      <3>1. m \in Int /\ loc[p].i \in Int /\ d \in Int /\ len \in Int /\ H \in Int /\ loc[p].i + d = len
        BY <1>3, <1>4
      <3> HIDE DEF d, H
      <3> QED BY <3>1
    <2> QED BY <1>1, <2>1 DEF Recorded
  <1>6. \A m \in 1 .. len' : Counts(Recorded(len, m), loc[p].at)' /\ (cells[m] = Recorded(len, m))'
    BY <1>1, <1>2, <1>5 DEF PruneExact, Counts
  <1>7. ASSUME NEW m \in 1 .. H - len', m + MaxSamples > H
        PROVE  ~Counts(history[m], loc[p].at) /\ ~Counts(history[m], now)
    <2>1. CASE m \in 1 .. H - len
      BY <1>2, <1>7, <2>1 DEF NoneMissing
    <2>2. CASE m \notin 1 .. H - len
      <3> DEFINE x == m - (H - len)
      <3>1. x \in 1 .. d /\ x \in 1 .. len /\ H - len + x = m
        <4>1. H \in Int /\ len \in Int /\ d \in Int /\ 0 <= loc[p].i /\ loc[p].i \in Int /\ loc[p].i + d = len
          BY <1>3, <1>4
        <4>2. m \in Int /\ 1 <= m /\ m <= H - loc[p].i
          BY <1>1, <4>1
        <4> HIDE DEF H, d
        <4>3. m > H - len
          BY <2>2, <4>1, <4>2
        <4> QED BY <4>1, <4>2, <4>3
      <3>2. ~Counts(Recorded(len, x), loc[p].at)
        BY <1>2, <3>1 DEF PruneExact
      <3>3. Recorded(len, x) = history[m] /\ history[m] \in Samples
        BY <1>2, <3>1, RecordedType DEF Recorded
      <3> QED BY <1>3, <3>2, <3>3, CountsBefore
    <2> QED BY <2>1, <2>2
  <1>8. ProberExact(p)'
    <2>1. NoneMissing(loc[p].at)'
      BY <1>1, <1>7 DEF NoneMissing, Counts
    <2> QED BY <1>1, <1>6, <2>1 DEF ProberExact, Pruning, Counts
  <1>9. CASE AllCount
    <2>1. d = 0
      BY <1>2, <1>9, NothingDropped
    <2>2. len' = len
      BY <1>1, <1>3, <2>1
    <2> QED BY <1>1, <1>8, <1>9, <2>2, ExactQuiet
  <1>10. CASE ~AllCount
    <2>1. \A q \in Probers : q # p => ~InSnapshot(q)'
      BY <1>1, <1>2, <1>10 DEF Calm, Basic, Alone, InSnapshot
    <2>2. \A q \in Probers : q # p => ProberExact(q)'
      BY <2>1 DEF ProberExact, InSnapshot, Pruning
    <2>3. SliceIsLast'
      BY <1>6 DEF SliceIsLast
    <2>4. len' <= Len(history') /\ NoneMissing(now)'
      BY <1>1, <1>2, <1>3, <1>4, <1>7 DEF NoneMissing, Counts
    <2> QED BY <1>8, <2>2, <2>3, <2>4 DEF Exact
  <1> QED BY <1>9, <1>10

LEMMA SumBeginCalm ==
    ASSUME Basic, Exact, NEW p \in Probers, SumBegin(p)
    PROVE  Exact'
  <1>1. /\ pc[p] = "sum"
        /\ \A q \in Probers : q # p => pc'[q] = pc[q] /\ loc'[q] = loc[q]
        /\ UNCHANGED <<cells, len, now, history, overlapped>>
        /\ \/ len = 0 /\ pc'[p] = "idle"
           \/ /\ len > 0 /\ pc'[p] = "count"
              /\ loc'[p].n = len /\ loc'[p].j = 1 /\ loc'[p].failures = 0 /\ loc'[p].at = loc[p].at
    BY SumBeginBasic
  <1>2. NoneMissing(loc[p].at) /\ \A k \in 1 .. len : Counts(Recorded(len, k), loc[p].at)
    BY <1>1 DEF Exact, ProberExact, InSnapshot
  <1>3. CASE pc'[p] = "idle"
    <2>1. ProberExact(p)'
      BY <1>3 DEF ProberExact, InSnapshot, Pruning
    <2> QED BY <1>1, <2>1, ExactQuiet DEF Pruning
  <1>4. CASE /\ len > 0 /\ pc'[p] = "count"
             /\ loc'[p].n = len /\ loc'[p].j = 1 /\ loc'[p].failures = 0 /\ loc'[p].at = loc[p].at
    <2>1. NoneMissing(loc[p].at)'
      BY <1>1, <1>2, <1>4 DEF NoneMissing, Counts
    <2>2. \A k \in 1 .. len' : Counts(Recorded(len, k), loc[p].at)'
      BY <1>1, <1>2, <1>4 DEF Recorded, Counts
    <2>3. Cardinality(FailuresIn(0)) = 0
      <3>1. len \in Nat /\ Len(history) \in Nat
        BY LocalTypes
      <3>2. FailuresIn(0) = {}
        BY <3>1 DEF FailuresIn
      <3> QED BY <3>2, FS_EmptySet
    <2>4. Cardinality(FailuresIn(loc[p].j - 1))' = 0
      BY <1>1, <1>4, <2>3 DEF FailuresIn
    <2>5. CountExact(p)'
      BY <1>1, <1>4, <2>4 DEF CountExact
    <2>6. ProberExact(p)'
      BY <1>4, <2>1, <2>2, <2>5 DEF ProberExact, Pruning
    <2> QED BY <1>1, <2>6, ExactQuiet DEF Pruning
  <1> QED BY <1>1, <1>3, <1>4

LEMMA FailuresFinite ==
    ASSUME Basic, NEW p \in Probers, NEW m \in Int
    PROVE  IsFiniteSet(FailuresIn(m)) /\ Cardinality(FailuresIn(m)) \in Nat
  <1> DEFINE a == Len(history) - len + 1
             b == Len(history) - len + m
  <1>1. a \in Int /\ b \in Int
    BY LocalTypes
  <1>2. IsFiniteSet(a .. b) /\ FailuresIn(m) \subseteq a .. b
    BY <1>1, FS_Interval DEF FailuresIn
  <1> QED BY <1>2, FS_Subset, FS_CardinalityType

\* Counting one more sample.
LEMMA FailuresStep ==
    ASSUME Basic, NEW p \in Probers, NEW m \in 1 .. len
    PROVE  Cardinality(FailuresIn(m)) =
             Cardinality(FailuresIn(m - 1)) + (IF Recorded(len, m).failed THEN 1 ELSE 0)
  <1> DEFINE b == Len(history) - len + m
             F == FailuresIn(m - 1)
  <1>1. len \in Int /\ Len(history) \in Int /\ m \in Int /\ 1 <= m
    BY LocalTypes
  <1>2. IsFiniteSet(F) /\ Cardinality(F) \in Nat
    BY <1>1, FailuresFinite
  <1>3. \A k : k \in Len(history) - len + 1 .. b <=> k \in Len(history) - len + 1 .. Len(history) - len + (m - 1) \/ k = b
    BY <1>1
  <1>4. b \notin F
    BY <1>1 DEF FailuresIn
  <1>5. CASE history[b].failed
    <2>1. FailuresIn(m) = F \cup {b}
      BY <1>3, <1>5 DEF FailuresIn
    <2> HIDE DEF F, b
    <2>2. Cardinality(F \cup {b}) = Cardinality(F) + 1
      BY <1>2, <1>4, FS_AddElement
    <2> QED BY <1>5, <2>1, <2>2 DEF Recorded, b, F
  <1>6. CASE ~history[b].failed
    <2>1. FailuresIn(m) = F
      BY <1>3, <1>6 DEF FailuresIn
    <2> QED BY <1>2, <1>6, <2>1 DEF Recorded
  <1> QED BY <1>5, <1>6

LEMMA CountCalm ==
    ASSUME Basic, Exact, Calm, NEW p \in Probers, Count(p)
    PROVE  Exact'
  <1> DEFINE j == loc[p].j
  <1>1. /\ pc[p] = "count" /\ j <= loc[p].n
        /\ \A q \in Probers : q # p => loc'[q] = loc[q]
        /\ loc'[p].j = j + 1 /\ loc'[p].n = loc[p].n /\ loc'[p].at = loc[p].at
        /\ UNCHANGED <<cells, len, now, history, pc, rate, overlapped>>
    BY CountBasic
  <1>2. PICK s \in Mixed({cells[j]} \cup Writing(j)) :
            loc'[p].failures = IF s.failed THEN loc[p].failures + 1 ELSE loc[p].failures
    BY CountBasic
  <1>3. /\ NoneMissing(loc[p].at) /\ \A k \in 1 .. len : Counts(Recorded(len, k), loc[p].at)
        /\ CountExact(p)
    BY <1>1 DEF Exact, ProberExact, InSnapshot
  <1>4. j \in Nat \ {0} /\ len \in Nat /\ loc[p].failures \in Nat
    BY LocalTypes
  <1>5. j \in 1 .. len
    BY <1>1, <1>3, <1>4 DEF CountExact
  <1>6. s = Recorded(len, j)
    <2> HIDE DEF j
    <2> QED BY <1>1, <1>5, ReadsExact
  <1>7. Cardinality(FailuresIn(j)) = Cardinality(FailuresIn(j - 1)) + (IF s.failed THEN 1 ELSE 0)
    BY <1>5, <1>6, FailuresStep
  <1>8. loc[p].failures = Cardinality(FailuresIn(j - 1))
    BY <1>3 DEF CountExact
  <1>9. loc'[p].failures = Cardinality(FailuresIn(j))
    <2>1. CASE s.failed
      BY <1>2, <1>7, <1>8, <2>1
    <2>2. CASE ~s.failed
      BY <1>2, <1>4, <1>7, <1>8, <2>2
    <2> QED BY <2>1, <2>2
  <1>10. Cardinality(FailuresIn(loc[p].j - 1))' = Cardinality(FailuresIn(j))
    <2>1. loc'[p].j - 1 = j
      BY <1>1, <1>4
    <2> QED BY <1>1, <2>1 DEF FailuresIn
  <1>11. CountExact(p)'
    BY <1>1, <1>3, <1>9, <1>10 DEF CountExact
  <1>12. NoneMissing(loc[p].at)'
    BY <1>1, <1>3 DEF NoneMissing, Counts
  <1>13. \A k \in 1 .. len' : Counts(Recorded(len, k), loc[p].at)'
    BY <1>1, <1>3 DEF Recorded, Counts
  <1>14. ProberExact(p)'
    BY <1>1, <1>11, <1>12, <1>13 DEF ProberExact, Pruning
  <1> QED BY <1>1, <1>14, ExactQuiet DEF Pruning

LEMMA DivideCalm ==
    ASSUME Basic, Exact, NEW p \in Probers, Divide(p)
    PROVE  Exact'
  <1>1. /\ pc[p] = "count" /\ pc'[p] = "idle" /\ \A q \in Probers : q # p => pc'[q] = pc[q]
        /\ UNCHANGED <<cells, len, now, history, loc, overlapped>>
    BY DivideBasic
  <1>2. ProberExact(p)'
    BY <1>1 DEF ProberExact, InSnapshot, Pruning
  <1> QED BY <1>1, <1>2, ExactQuiet DEF Pruning

\* The slice after Record holds the last samples again: those dropped for the limit
\* and those pruned are the oldest.
LEMMA RecordCalm ==
    ASSUME Basic, Exact, NEW failed \in BOOLEAN, Record(failed),
           \A p \in Probers : pc'[p] \notin {"prune", "keep", "sum", "count"}
    PROVE  Exact'
  <1> DEFINE s == [at |-> now, failed |-> failed]
             q == Newest(Append(SubSeq(cells, 1, len), s), MaxSamples)
             H == Len(history)
             L == Len(q)
  <1>1. /\ cells' = Pruned(q, now) /\ len' = Len(cells') /\ history' = Append(history, s)
        /\ now' = now /\ \A p \in Probers : ~InSnapshot(p)
    BY DEF Record
  <1>2. /\ TypeOK /\ s \in Samples /\ history \in Seq(Samples) /\ now \in Nat /\ H \in Nat
        /\ len \in Nat /\ MaxSamples \in Nat \ {0} /\ len <= H
    BY TrackerAssumption DEF Basic, TypeOK, Samples, Exact
  <1>3. /\ q \in Seq(Samples)
        /\ L = IF len + 1 > MaxSamples THEN MaxSamples ELSE len + 1
        /\ \A k \in 1 .. L : q[k] = IF k = L THEN s ELSE cells[len + 1 - L + k]
        /\ \A k \in 1 .. L : k = L \/ len + 1 - L + k \in 1 .. len
    BY <1>2, NewestFacts
  <1>4. Sorted'
    BY RecordBasic
  <1>5. /\ Len(history') = H + 1 /\ history'[H + 1] = s
        /\ \A k \in 1 .. H : history'[k] = history[k]
        /\ DOMAIN history' = 1 .. H + 1
    BY <1>1, <1>2
  <1>6. \A k \in 1 .. len : cells[k] = history[H - len + k]
    <2>1. \A p \in Probers : ~Pruning(p)
      BY <1>1 DEF Pruning, InSnapshot
    <2> QED BY <2>1 DEF Exact, SliceIsLast, Recorded
  <1> HIDE DEF q, s
  <1>7. L \in Nat \ {0} /\ L <= len + 1 /\ L <= H + 1 /\ DOMAIN q = 1 .. L
    BY <1>2, <1>3
  <1>8. ASSUME NEW k \in 1 .. L
        PROVE  q[k] = history'[H + 1 - L + k] /\ H + 1 - L + k \in 1 .. H + 1
    <2>0. k \in Int /\ 1 <= k /\ k <= L
      BY <1>7
    <2>1. H + 1 - L + k \in 1 .. H + 1
      BY <1>2, <1>7, <2>0
    <2>2. CASE k = L
      <3>1. H + 1 - L + k = H + 1
        BY <1>2, <1>7, <2>2
      <3> QED BY <1>3, <1>5, <2>1, <2>2, <3>1
    <2>3. CASE k # L
      <3> DEFINE c == len + 1 - L + k
      <3>1. q[k] = cells[c] /\ c \in 1 .. len
        BY <1>3, <2>3
      <3>2. cells[c] = history[H - len + c]
        BY <1>6, <3>1
      <3>3. H - len + c = H + 1 - L + k /\ H + 1 - L + k \in 1 .. H
        <4>1. H \in Nat /\ len \in Nat
          BY <1>2
        <4>2. L \in Nat /\ L <= H + 1
          BY <1>7
        <4> HIDE DEF H, L
        <4> QED BY <2>0, <2>3, <4>1, <4>2
      <3> QED BY <1>5, <2>1, <3>1, <3>2, <3>3
    <2> QED BY <2>2, <2>3
  <1>9. \A a, b \in DOMAIN q : a <= b => q[a].at <= q[b].at
    <2> SUFFICES ASSUME NEW a \in DOMAIN q, NEW b \in DOMAIN q, a <= b
                 PROVE  q[a].at <= q[b].at
      OBVIOUS
    <2>1. a \in Int /\ b \in Int /\ H + 1 - L + a <= H + 1 - L + b
      BY <1>2, <1>7
    <2>2. /\ q[a] = history'[H + 1 - L + a] /\ H + 1 - L + a \in DOMAIN history'
          /\ q[b] = history'[H + 1 - L + b] /\ H + 1 - L + b \in DOMAIN history'
      BY <1>5, <1>7, <1>8
    <2> QED BY <1>4, <2>1, <2>2 DEF Sorted
  <1>10. PICK d \in 0 .. L :
            /\ Len(cells') = L - d
            /\ \A k \in 1 .. L - d : cells'[k] = q[d + k]
            /\ \A k \in 1 .. d : ~Counts(q[k], now)
    <2>1. \E d \in 0 .. Len(q) :
            /\ Len(Pruned(q, now)) = Len(q) - d
            /\ \A k \in 1 .. Len(q) - d : Pruned(q, now)[k] = q[d + k]
            /\ \A k \in 1 .. d : ~Counts(q[k], now)
            /\ \A k \in d + 1 .. Len(q) : Counts(q[k], now)
      <3>1. now \in Int
        BY <1>2
      <3> QED BY <1>3, <1>9, <3>1, PrunedSuffix
    <2> QED BY <1>1, <2>1
  <1>11. d \in Int /\ 0 <= d /\ d <= L /\ len' = L - d
    BY <1>1, <1>7, <1>10
  <1>12. len' <= Len(history')
    BY <1>2, <1>5, <1>7, <1>11
  <1>13. SliceIsLast'
    <2>1. ASSUME NEW k \in 1 .. len'
          PROVE  cells'[k] = history'[Len(history') - len' + k]
      <3>1. k \in Int /\ 1 <= k /\ k <= L - d
        BY <1>7, <1>11
      <3>2. d + k \in 1 .. L /\ H + 1 - L + (d + k) = H + 1 - (L - d) + k
        BY <1>2, <1>7, <1>11, <3>1
      <3>3. cells'[k] = q[d + k]
        BY <1>10, <1>11
      <3>4. q[d + k] = history'[H + 1 - L + (d + k)]
        BY <1>8, <3>2
      <3>5. Len(history') - len' + k = H + 1 - (L - d) + k
        BY <1>5, <1>11
      <3> QED BY <3>2, <3>3, <3>4, <3>5
    <2> QED BY <2>1 DEF SliceIsLast, Recorded
  <1>14. NoneMissing(now)'
    <2>1. ASSUME NEW k \in 1 .. H + 1 - len', k + MaxSamples > H + 1
          PROVE  ~Counts(history'[k], now)
      <3>0. k \in Int /\ 1 <= k /\ k <= H + 1 - (L - d)
        BY <1>2, <1>7, <1>11
      <3>1. CASE k > H + 1 - L
        <4> DEFINE x == k - (H + 1 - L)
        <4>1. x \in 1 .. d /\ x \in 1 .. L /\ H + 1 - L + x = k
          BY <1>2, <1>7, <1>11, <3>0, <3>1
        <4>2. q[x] = history'[H + 1 - L + x] /\ ~Counts(q[x], now)
          BY <1>8, <1>10, <4>1
        <4> QED BY <4>1, <4>2
      <3>2. CASE k <= H + 1 - L
        <4>1. L = len + 1
          BY <1>2, <1>3, <1>7, <2>1, <3>0, <3>2
        <4>2. k \in 1 .. H - len /\ k \in 1 .. H /\ k + MaxSamples > H
          BY <1>2, <2>1, <3>0, <3>2, <4>1
        <4>3. ~Counts(history[k], now)
          BY <4>2 DEF Exact, NoneMissing
        <4> QED BY <1>5, <4>2, <4>3
      <3> QED BY <1>2, <1>7, <3>0, <3>1, <3>2
    <2> QED BY <1>1, <1>5, <2>1 DEF NoneMissing, Counts
  <1>15. \A p \in Probers : ProberExact(p)'
    BY DEF ProberExact, InSnapshot, Pruning
  <1> QED BY <1>12, <1>13, <1>14, <1>15 DEF Exact

\* What counts after a step counted before it.
LEMMA CalmBefore ==
    ASSUME TypeOK, now' \in Int, now <= now', overlapped => overlapped',
           \A k \in DOMAIN history : k \in DOMAIN history' /\ history'[k] = history[k]
    PROVE  (AllCount' => AllCount) /\ (Calm' => Calm)
  <1>1. now \in Int /\ \A k \in DOMAIN history : history[k] \in Samples
    BY TrackerAssumption DEF TypeOK
  <1>2. AllCount' => AllCount
    <2> SUFFICES ASSUME AllCount', NEW k \in DOMAIN history PROVE Counts(history[k], now)
      BY DEF AllCount
    <2>1. Counts(history[k], now')
      BY DEF AllCount, Counts
    <2> QED BY <1>1, <2>1, CountsBefore
  <1> QED BY <1>2 DEF Calm

LEMMA TickStep ==
    ASSUME IInv, Tick
    PROVE  IInv'
  <1>1. /\ now < MaxTime /\ now' = now + 1
        /\ UNCHANGED <<cells, len, history, pc, loc, rate, overlapped>>
    BY DEF Tick
  <1>2. Basic /\ TypeOK /\ now \in Nat /\ MaxTime \in Nat
    BY TrackerAssumption DEF IInv, Basic, TypeOK
  <1>3. TypeOK'
    <2>1. now' \in 0 .. MaxTime
      BY <1>1, <1>2
    <2> QED BY <1>1, <1>2, <2>1 DEF TypeOK
  <1>4. Bounded'
    <2> SUFFICES ASSUME NEW p \in Probers, InSnapshot(p)'
                 PROVE  InBounds(p)'
      BY DEF Bounded
    <2>1. InBounds(p) /\ loc[p].at \in Nat
      BY <1>1, <1>2, LocalTypes DEF Basic, Bounded, InSnapshot
    <2>2. loc[p].at <= now'
      BY <1>1, <1>2, <2>1 DEF InBounds
    <2> QED BY <1>1, <2>1, <2>2 DEF InBounds, Pruning, Done
  <1>5. AllGenuine' /\ Alone' /\ ProperRates'
    BY <1>1 DEF IInv, Basic, AllGenuine, Genuine, Alone, InSnapshot, ProperRates
  <1>6. Sorted'
    <2>1. \A k \in DOMAIN history : history[k].at \in Int /\ history[k].at <= now
      <3>1. \A k \in DOMAIN history : history[k] \in Samples
        BY <1>2 DEF TypeOK
      <3>2. \A k \in DOMAIN history : history[k].at <= now
        BY <1>2 DEF Basic, Sorted
      <3>3. \A x \in Samples : x.at \in Int
        BY <1>2 DEF Samples
      <3> QED BY <3>1, <3>2, <3>3
    <2>2. \A k \in DOMAIN history : history[k].at <= now'
      BY <1>1, <1>2, <2>1
    <2> QED BY <1>1, <1>2, <2>2 DEF Basic, Sorted
  <1>7. now' \in Int /\ now <= now'
    BY <1>1, <1>2
  <1>8. (AllCount' => AllCount) /\ (Calm' => Calm)
    BY <1>1, <1>2, <1>7, CalmBefore
  <1>9. ASSUME Exact PROVE Exact'
    <2>1. ASSUME NEW k \in 1 .. Len(history) - len, k + MaxSamples > Len(history)
          PROVE  ~Counts(history[k], now')
      <3>1. ~Counts(history[k], now)
        BY <1>9, <2>1 DEF Exact, NoneMissing
      <3>2. history[k] \in Samples
        <4>1. history \in Seq(Samples) /\ len \in Nat /\ Len(history) \in Nat
          BY <1>2 DEF TypeOK
        <4>2. k \in 1 .. Len(history)
          BY <4>1
        <4> QED BY <4>1, <4>2
      <3> QED BY <1>2, <1>7, <3>1, <3>2, CountsBefore
    <2>2. NoneMissing(now)'
      BY <1>1, <2>1 DEF NoneMissing, Counts
    <2>3. len' <= Len(history')
      BY <1>1, <1>9 DEF Exact
    <2>4. SliceIsLast'
      <3>1. (\A p \in Probers : ~Pruning(p)') => \A p \in Probers : ~Pruning(p)
        BY <1>1 DEF Pruning
      <3>2. AllCount' \/ (\A p \in Probers : ~Pruning(p)') => \A k \in 1 .. len : cells[k] = Recorded(len, k)
        BY <1>8, <1>9, <3>1 DEF Exact, SliceIsLast
      <3> QED BY <1>1, <3>2 DEF SliceIsLast, Recorded
    <2>5. \A p \in Probers : ProberExact(p)'
      BY <1>1, <1>9, OthersExact DEF Exact
    <2> QED BY <2>2, <2>3, <2>4, <2>5 DEF Exact
  <1> QED BY <1>3, <1>4, <1>5, <1>6, <1>8, <1>9 DEF IInv, Basic

-----------------------------------------------------------------------------
(***************************************************************************)
(* Every step keeps the invariant.                                         *)
(***************************************************************************)
LEMMA RecordStep ==
    ASSUME IInv, NEW failed \in BOOLEAN, Record(failed),
           pc' \in [Probers -> Labels], loc' \in [Probers -> Locals],
           \A p \in Probers : pc'[p] \notin {"prune", "keep", "sum", "count"},
           \A p \in Probers : pc'[p] = "panicked" => pc[p] = "panicked"
    PROVE  IInv'
  <1>1. Basic /\ TypeOK
    BY DEF IInv, Basic
  <1>2. /\ cells' \in Seq(Samples) /\ Len(cells') <= MaxSamples /\ len' \in 0 .. Len(cells')
        /\ history' \in Seq(Samples) /\ Len(history') <= MaxRecords
        /\ Bounded' /\ AllGenuine' /\ Sorted' /\ Alone'
    BY <1>1, RecordBasic
  <1>3. UNCHANGED <<now, rate, overlapped>> /\ history' = Append(history, [at |-> now, failed |-> failed])
    BY DEF Record
  <1>4. Basic'
    BY <1>1, <1>2, <1>3 DEF Basic, TypeOK, Labels
  <1>5. ProperRates'
    BY <1>3 DEF IInv, ProperRates
  <1>6. Calm' => Calm
    <2>1. \A k \in DOMAIN history : k \in DOMAIN history' /\ history'[k] = history[k]
      BY <1>1, <1>3 DEF TypeOK
    <2>2. now' \in Int /\ now <= now'
      BY <1>1, <1>3, TrackerAssumption DEF TypeOK
    <2> QED BY <1>1, <1>3, <2>1, <2>2, CalmBefore
  <1>7. Calm' => Exact'
    BY <1>1, <1>6, RecordCalm DEF IInv
  <1> QED BY <1>4, <1>5, <1>7 DEF IInv

LEMMA PingStep ==
    ASSUME IInv, NEW failed \in BOOLEAN, Ping(failed)
    PROVE  IInv'
  <1>1. Record(failed) /\ pc' = pc /\ loc' = loc
    BY DEF Ping
  <1>2. pc \in [Probers -> Labels] /\ loc \in [Probers -> Locals]
    BY DEF IInv, Basic, TypeOK, Labels
  <1>3. \A p \in Probers : pc[p] \notin {"prune", "keep", "sum", "count"}
    BY <1>1 DEF Record, InSnapshot
  <1> QED BY <1>1, <1>2, <1>3, RecordStep

LEMMA ProbePingStep ==
    ASSUME IInv, NEW p \in Probers, NEW failed \in BOOLEAN, ProbePing(p, failed)
    PROVE  IInv'
  <1>1. Record(failed) /\ pc' = [pc EXCEPT ![p] = "record"] /\ loc' = [loc EXCEPT ![p].err = failed]
    BY DEF ProbePing, Goto
  <1>2. pc \in [Probers -> Labels] /\ loc \in [Probers -> Locals]
    BY DEF IInv, Basic, TypeOK, Labels
  <1>3. \A q \in Probers : pc[q] \notin {"prune", "keep", "sum", "count"}
    BY <1>1 DEF Record, InSnapshot
  <1>4. [loc[p] EXCEPT !.err = failed] \in Locals
    BY <1>2 DEF Locals
  <1>5. loc' \in [Probers -> Locals]
    BY <1>1, <1>2, <1>4
  <1>6. /\ pc' \in [Probers -> Labels]
        /\ \A q \in Probers : pc'[q] \notin {"prune", "keep", "sum", "count"}
        /\ \A q \in Probers : pc'[q] = "panicked" => pc[q] = "panicked"
    BY <1>1, <1>2, <1>3 DEF Labels
  <1> QED BY <1>1, <1>5, <1>6, RecordStep

LEMMA ProbeRecordStep ==
    ASSUME IInv, NEW p \in Probers, ProbeRecord(p)
    PROVE  IInv'
  <1>1. Record(loc[p].err) /\ pc' = [pc EXCEPT ![p] = "snapshot"] /\ loc' = loc
    BY DEF ProbeRecord, Goto
  <1>2. pc \in [Probers -> Labels] /\ loc \in [Probers -> Locals] /\ loc[p].err \in BOOLEAN
    BY LocalTypes DEF IInv, Basic, TypeOK, Labels
  <1>3. \A q \in Probers : pc[q] \notin {"prune", "keep", "sum", "count"}
    BY <1>1 DEF Record, InSnapshot
  <1>4. /\ pc' \in [Probers -> Labels]
        /\ \A q \in Probers : pc'[q] \notin {"prune", "keep", "sum", "count"}
        /\ \A q \in Probers : pc'[q] = "panicked" => pc[q] = "panicked"
    BY <1>1, <1>2, <1>3 DEF Labels
  <1> QED BY <1>1, <1>2, <1>4, RecordStep

\* A step of a snapshot: it leaves the clock and what was recorded alone.
LEMMA SnapshotStep ==
    ASSUME IInv, Basic', NEW p \in Probers, UNCHANGED <<now, history>>, overlapped => overlapped',
           \A q \in Probers : q # p => pc'[q] = pc[q] /\ rate'[q] = rate[q],
           pc'[p] = "panicked" \/ rate'[p][1] > rate'[p][2] \/ rate'[p][2] = 0 => overlapped',
           Exact /\ Calm /\ Calm' => Exact'
    PROVE  IInv'
  <1>1. ProperRates'
    BY DEF IInv, ProperRates
  <1>2. Calm' => Calm
    <2>1. TypeOK /\ now' \in Int /\ now <= now'
      BY TrackerAssumption DEF IInv, Basic, TypeOK
    <2> QED BY <2>1, CalmBefore
  <1> QED BY <1>1, <1>2 DEF IInv

\* A rate that stays is as proper as it was.
LEMMA RateStays ==
    ASSUME IInv, NEW p \in Probers, rate'[p] = rate[p], overlapped => overlapped',
           pc'[p] # "panicked"
    PROVE  pc'[p] = "panicked" \/ rate'[p][1] > rate'[p][2] \/ rate'[p][2] = 0 => overlapped'
  BY DEF IInv, ProperRates

LEMMA PruneStep ==
    ASSUME IInv, NEW p \in Probers,
           Snapshot(p) \/ PruneRead(p) \/ PruneKeep(p) \/ PruneEnd(p)
    PROVE  IInv'
  <1>0. Basic /\ (Calm => Exact)
    BY DEF IInv
  <1>1. CASE Snapshot(p)
    <2>1. Basic' /\ pc'[p] = "prune" /\ \A q \in Probers : q # p => pc'[q] = pc[q]
      BY <1>0, <1>1, SnapshotBasic
    <2>2. UNCHANGED <<now, history, rate>> /\ (overlapped => overlapped')
      BY <1>1 DEF Snapshot
    <2>3. Exact /\ Calm' => Exact'
      BY <1>0, <1>1, SnapshotCalm
    <2> QED BY <2>1, <2>2, <2>3, RateStays, SnapshotStep
  <1>2. CASE PruneRead(p)
    <2>1. /\ Basic' /\ pc'[p] # "panicked" /\ \A q \in Probers : q # p => pc'[q] = pc[q]
          /\ UNCHANGED <<now, history, rate, overlapped>>
      BY <1>0, <1>2, PruneReadBasic
    <2>2. Exact /\ Calm => Exact'
      BY <1>0, <1>2, PruneReadCalm
    <2> QED BY <2>1, <2>2, RateStays, SnapshotStep
  <1>3. CASE PruneKeep(p)
    <2>1. /\ Basic' /\ pc'[p] # "panicked" /\ \A q \in Probers : q # p => pc'[q] = pc[q]
          /\ UNCHANGED <<now, history, rate, overlapped>>
      BY <1>0, <1>3, PruneKeepBasic
    <2>2. Exact /\ Calm => Exact'
      BY <1>0, <1>3, PruneKeepCalm
    <2> QED BY <2>1, <2>2, RateStays, SnapshotStep
  <1>4. CASE PruneEnd(p)
    <2>1. /\ Basic' /\ pc'[p] # "panicked" /\ \A q \in Probers : q # p => pc'[q] = pc[q]
          /\ UNCHANGED <<now, history, rate, overlapped>>
      BY <1>0, <1>4, PruneEndBasic
    <2>2. Exact /\ Calm => Exact'
      BY <1>0, <1>4, PruneEndCalm
    <2> QED BY <2>1, <2>2, RateStays, SnapshotStep
  <1> QED BY <1>1, <1>2, <1>3, <1>4

LEMMA PrunePanicStep ==
    ASSUME IInv, NEW p \in Probers, PrunePanic(p)
    PROVE  IInv'
  <1>0. Basic /\ (Calm => Exact)
    BY DEF IInv
  <1>1. /\ Basic' /\ \A q \in Probers : q # p => pc'[q] = pc[q]
        /\ UNCHANGED <<now, history, rate, overlapped>>
    BY <1>0, PrunePanicBasic
  <1>2. ~Exact
    BY <1>0, NoPanicCalm
  <1>3. overlapped
    BY <1>0, <1>2 DEF Calm
  <1> QED BY <1>1, <1>2, <1>3, SnapshotStep

LEMMA CountStep ==
    ASSUME IInv, NEW p \in Probers, SumBegin(p) \/ Count(p) \/ Divide(p)
    PROVE  IInv'
  <1>0. Basic /\ (Calm => Exact)
    BY DEF IInv
  <1>1. CASE SumBegin(p)
    <2>1. /\ Basic' /\ \A q \in Probers : q # p => pc'[q] = pc[q] /\ rate'[q] = rate[q]
          /\ UNCHANGED <<now, history, overlapped>> /\ pc'[p] # "panicked"
          /\ rate'[p] = <<0, 1>> \/ rate'[p] = rate[p]
      BY <1>0, <1>1, SumBeginBasic DEF NoFailure
    <2>2. pc'[p] = "panicked" \/ rate'[p][1] > rate'[p][2] \/ rate'[p][2] = 0 => overlapped'
      <3>1. CASE rate'[p] = <<0, 1>>
        <4>1. rate'[p][1] = 0 /\ rate'[p][2] = 1
          BY <3>1
        <4> QED BY <2>1, <4>1
      <3>2. CASE rate'[p] = rate[p]
        BY <2>1, <3>2, RateStays
      <3> QED BY <2>1, <3>1, <3>2
    <2>3. Exact => Exact'
      BY <1>0, <1>1, SumBeginCalm
    <2> QED BY <2>1, <2>2, <2>3, SnapshotStep
  <1>2. CASE Count(p)
    <2>1. /\ Basic' /\ pc[p] = "count" /\ UNCHANGED <<now, history, pc, rate, overlapped>>
      BY <1>0, <1>2, CountBasic
    <2>2. Exact /\ Calm => Exact'
      BY <1>0, <1>2, CountCalm
    <2> QED BY <2>1, <2>2, RateStays, SnapshotStep
  <1>3. CASE Divide(p)
    <2>1. /\ Basic' /\ pc'[p] = "idle" /\ pc[p] = "count" /\ rate'[p] = <<loc[p].failures, len>>
          /\ loc[p].j = loc[p].n + 1
          /\ \A q \in Probers : q # p => pc'[q] = pc[q] /\ rate'[q] = rate[q]
          /\ UNCHANGED <<now, history, overlapped>>
      BY <1>0, <1>3, DivideBasic
    <2>2. ~overlapped => ~(loc[p].failures > len \/ len = 0)
      <3> SUFFICES ASSUME ~overlapped PROVE ~(loc[p].failures > len \/ len = 0)
        OBVIOUS
      <3>1. loc[p].n = len /\ len > 0
        BY <1>0, <2>1 DEF Calm, Exact, ProberExact, CountExact
      <3>2. loc[p].failures <= loc[p].j - 1
        BY <1>0, <2>1 DEF Basic, Bounded, InBounds, InSnapshot
      <3>3. loc[p].failures \in Nat /\ len \in Nat /\ loc[p].n \in Nat /\ loc[p].j \in Nat
        BY <1>0, LocalTypes
      <3> QED BY <2>1, <3>1, <3>2, <3>3
    <2>3. rate'[p][1] = loc[p].failures /\ rate'[p][2] = len
      BY <2>1
    <2>4. Exact => Exact'
      BY <1>0, <1>3, DivideCalm
    <2> QED BY <2>1, <2>2, <2>3, <2>4, SnapshotStep
  <1> QED BY <1>1, <1>2, <1>3

LEMMA NextIInv == IInv /\ [Next]_vars => IInv'
  <1> SUFFICES ASSUME IInv, [Next]_vars PROVE IInv'
    OBVIOUS
  <1>1. ASSUME NEW p \in Probers, Probe(p) PROVE IInv'
    BY <1>1, ProbePingStep, ProbeRecordStep, PruneStep, PrunePanicStep, CountStep DEF Probe
  <1>2. ASSUME NEW failed \in BOOLEAN, Ping(failed) PROVE IInv'
    BY <1>2, PingStep
  <1>3. CASE Tick
    BY <1>3, TickStep
  <1>4. CASE UNCHANGED vars
    <2>1. UNCHANGED <<cells, len, now, history, pc, loc, rate, overlapped>>
      BY <1>4 DEF vars
    <2>2. TypeOK' /\ Sorted' /\ Alone' /\ ProperRates'
      BY <2>1 DEF IInv, Basic, TypeOK, Sorted, Alone, ProperRates, InSnapshot
    <2>3. Bounded' /\ AllGenuine'
      BY <2>1 DEF IInv, Basic, Bounded, AllGenuine, InSnapshot, InBounds, Pruning, Done, Genuine
    <2>4. Calm' => Calm
      BY <2>1 DEF Calm, AllCount, Counts
    <2>5. ASSUME Exact PROVE Exact'
      <3>1. len' <= Len(history') /\ NoneMissing(now)' /\ SliceIsLast'
        BY <2>1, <2>5 DEF Exact, NoneMissing, SliceIsLast, AllCount, Counts, Pruning, Recorded
      <3>2. \A p \in Probers : ProberExact(p)'
        BY <2>1, <2>5, OthersExact DEF Exact
      <3> QED BY <3>1, <3>2 DEF Exact
    <2> QED BY <2>2, <2>3, <2>4, <2>5 DEF IInv, Basic
  <1> QED BY <1>1, <1>2, <1>3, <1>4 DEF Next

\* The parts above hold of every state the tracker reaches.
THEOREM Invariance == Spec => []IInv
  BY InitIInv, NextIInv, PTL DEF Spec

\* The slice stays within its array and every prober within its loop's bounds,
\* although snapshots that hold only the read lock write to the array and shorten
\* the slice under one another.
THEOREM TypeCorrect == Spec => []TypeOK
  <1>1. IInv => TypeOK
    BY DEF IInv, Basic
  <1> QED BY <1>1, Invariance, PTL

\* Overlapping snapshots invent no sample: pruneLocked moves recorded times and
\* outcomes about; and only overlapping ones panic or return a rate that is none.
THEOREM NothingInvented == Spec => []OnlyRecorded
  <1>1. IInv => OnlyRecorded
    <2> SUFFICES ASSUME IInv PROVE OnlyRecorded
      OBVIOUS
    <2>1. \A k \in 1 .. len : k \in DOMAIN cells
      BY DEF IInv, Basic, TypeOK
    <2>2. \A k \in 1 .. len : Genuine(cells[k], history)
      BY <2>1 DEF IInv, Basic, AllGenuine
    <2> QED BY <2>2 DEF OnlyRecorded, Genuine, IInv, ProperRates
  <1> QED BY <1>1, Invariance, PTL

-----------------------------------------------------------------------------
\* When pruning is done the slice is what the snapshot should count.
LEMMA RecentIsSlice ==
    ASSUME Basic, Exact, NEW p \in Probers, pc[p] \in {"sum", "count"}
    PROVE  Recent(loc[p].at) = Len(history) - len + 1 .. Len(history)
  <1> DEFINE H == Len(history)
             R == Recent(loc[p].at)
  <1>1. /\ NoneMissing(loc[p].at) /\ \A k \in 1 .. len : Counts(Recorded(len, k), loc[p].at)
        /\ len <= H
    BY DEF Exact, ProberExact, InSnapshot
  <1>2. H \in Nat /\ len \in Nat /\ len <= MaxSamples /\ MaxSamples \in Nat /\ DOMAIN history = 1 .. H
    <2>1. /\ history \in Seq(Samples) /\ Len(cells) \in Nat /\ Len(cells) <= MaxSamples
          /\ len \in Nat /\ len <= Len(cells) /\ MaxSamples \in Nat
      BY LocalTypes
    <2> QED BY <2>1
  <1>3. ASSUME NEW k \in R PROVE k \in H - len + 1 .. H
    <2>1. k \in 1 .. H /\ k + MaxSamples > H /\ Counts(history[k], loc[p].at)
      BY <1>2 DEF Recent
    <2>2. k \notin 1 .. H - len
      BY <1>1, <2>1 DEF NoneMissing
    <2> HIDE DEF H
    <2> QED BY <1>2, <2>1, <2>2
  <1>4. ASSUME NEW k \in H - len + 1 .. H PROVE k \in R
    <2> DEFINE x == k - (H - len)
    <2>1. x \in 1 .. len /\ H - len + x = k /\ k \in 1 .. H /\ k + MaxSamples > H
      <3> HIDE DEF H
      <3> QED BY <1>1, <1>2
    <2>2. Counts(history[k], loc[p].at)
      BY <1>1, <2>1 DEF Recorded
    <2> QED BY <1>2, <2>1, <2>2 DEF Recent
  <1> QED BY <1>3, <1>4

\* The rate that p is about to return.
ExactRate(p) ==
    LET recent == Recent(loc[p].at)
    IN  IF recent = {} THEN NoFailure
        ELSE <<Cardinality({k \in recent : history[k].failed}), Cardinality(recent)>>

LEMMA RateIsExact ==
    ASSUME Basic, Exact, NEW p \in Probers, (SumBegin(p) /\ pc'[p] = "idle") \/ Divide(p)
    PROVE  rate'[p] = ExactRate(p)
  <1> DEFINE H == Len(history)
             R == Recent(loc[p].at)
  <1>1. H \in Nat /\ len \in Nat
    BY LocalTypes
  <1>2. CASE SumBegin(p) /\ pc'[p] = "idle"
    <2>1. pc[p] = "sum" /\ len = 0 /\ rate'[p] = NoFailure
      BY <1>2, SumBeginBasic
    <2>2. R = H - len + 1 .. H
      BY <2>1, RecentIsSlice
    <2>3. R = {}
      <3> HIDE DEF H
      <3> QED BY <1>1, <2>1, <2>2
    <2> QED BY <2>1, <2>3 DEF ExactRate
  <1>3. CASE Divide(p)
    <2>1. pc[p] = "count" /\ loc[p].j = loc[p].n + 1 /\ rate'[p] = <<loc[p].failures, len>>
      BY <1>3, DivideBasic
    <2>2. R = H - len + 1 .. H
      BY <2>1, RecentIsSlice
    <2>3. loc[p].n = len /\ len > 0 /\ loc[p].failures = Cardinality(FailuresIn(loc[p].j - 1))
      BY <2>1 DEF Exact, ProberExact, CountExact
    <2>4. loc[p].j - 1 = len
      BY <1>1, <2>1, <2>3
    <2>5. FailuresIn(len) = {k \in R : history[k].failed}
      <3>1. H - len + len = H
        BY <1>1
      <3> QED BY <2>2, <3>1 DEF FailuresIn
    <2>6. H \in R /\ Cardinality(R) = len
      <3> HIDE DEF H, R
      <3>1. H - len + 1 \in Int /\ H \in Int /\ ~(H - len + 1 > H) /\ H - (H - len + 1) + 1 = len
        BY <1>1, <2>3
      <3>2. Cardinality(R) = len
        BY <2>2, <3>1, FS_Interval
      <3> QED BY <2>2, <3>1, <3>2
    <2> HIDE DEF R
    <2>7. loc[p].failures = Cardinality({k \in R : history[k].failed})
      BY <2>3, <2>4, <2>5
    <2> QED BY <2>1, <2>6, <2>7 DEF ExactRate, R
  <1> QED BY <1>2, <1>3

\* The steps that end a snapshot with a rate.
LEMMA WhoReturns ==
    ASSUME IInv, [Next]_vars, NEW p \in Probers, InSnapshot(p), pc'[p] = "idle"
    PROVE  SumBegin(p) \/ Divide(p)
  <1>0. Basic /\ pc \in [Probers -> Labels] /\ pc[p] # "idle"
    BY DEF IInv, Basic, TypeOK, Labels, InSnapshot
  <1>1. ASSUME NEW q \in Probers, Probe(q) PROVE SumBegin(p) \/ Divide(p)
    <2>1. ASSUME NEW failed, ProbePing(q, failed) PROVE FALSE
      BY <2>1 DEF ProbePing, Record
    <2>2. ~ProbeRecord(q)
      BY DEF ProbeRecord, Record
    <2>3. ~Snapshot(q)
      BY <1>0, SnapshotBasic
    <2>4. ~PruneRead(q) /\ ~PruneKeep(q) /\ ~PrunePanic(q) /\ ~PruneEnd(q)
      BY <1>0, PruneReadBasic, PruneKeepBasic, PrunePanicBasic, PruneEndBasic
    <2>5. ~Count(q)
      BY <1>0, CountBasic
    <2>6. SumBegin(q) \/ Divide(q)
      BY <1>1, <2>1, <2>2, <2>3, <2>4, <2>5 DEF Probe
    <2>7. q = p
      BY <1>0, <2>6, SumBeginBasic, DivideBasic
    <2> QED BY <2>6, <2>7
  <1>2. ASSUME NEW failed, Ping(failed) PROVE FALSE
    BY <1>2 DEF Ping, Record
  <1>3. CASE Tick
    BY <1>0, <1>3 DEF Tick
  <1>4. CASE UNCHANGED vars
    BY <1>0, <1>4 DEF vars
  <1> QED BY <1>1, <1>2, <1>3, <1>4 DEF Next

\* Snapshot returns the failures among the last MaxSamples samples recorded that are
\* within the window, whatever Record dropped and earlier snapshots pruned, unless
\* snapshots have overlapped and a sample has left the window.
THEOREM SnapshotsExact == Spec => SnapshotExact
  <1> DEFINE Ok == \A p \in Probers :
        /\ InSnapshot(p) /\ pc'[p] = "idle"
        /\ ~overlapped \/ \A k \in DOMAIN history : Counts(history[k], now)
        =>
        LET recent == Recent(loc[p].at)
        IN  rate'[p] = IF recent = {} THEN NoFailure
                       ELSE <<Cardinality({k \in recent : history[k].failed}), Cardinality(recent)>>
  <1>1. IInv /\ [Next]_vars => Ok
    <2> SUFFICES ASSUME IInv, [Next]_vars, NEW p \in Probers, InSnapshot(p), pc'[p] = "idle", Calm
                 PROVE  rate'[p] = ExactRate(p)
      BY DEF Calm, AllCount, ExactRate
    <2>1. SumBegin(p) \/ Divide(p)
      BY WhoReturns
    <2> QED BY <2>1, RateIsExact DEF IInv
  <1> HIDE DEF Ok
  <1>2. Spec => [][Ok]_vars
    BY <1>1, Invariance, PTL DEF Spec
  <1> QED BY <1>2 DEF Ok, SnapshotExact

-----------------------------------------------------------------------------
LEMMA DivBelow ==
    ASSUME NEW x \in Nat, NEW d \in Nat \ {0}, NEW c \in Nat, x < c * d
    PROVE  x \div d \in Nat /\ x \div d < c
  <1> DEFINE z == x \div d
  <1>1. z \in Int /\ d * z <= x /\ x < d * (z + 1)
    OBVIOUS
  <1> HIDE DEF z
  <1>2. z >= 0
    <2> SUFFICES ASSUME z < 0 PROVE FALSE
      BY <1>1
    <2>1. d * (z + 1) <= 0
      BY <1>1
    <2> QED BY <1>1, <2>1
  <1>3. z < c
    <2> SUFFICES ASSUME c <= z PROVE FALSE
      BY <1>1
    <2>1. c * d <= d * z
      BY <1>1
    <2> QED BY <1>1, <2>1
  <1> QED BY <1>1, <1>2, <1>3 DEF z

LEMMA DivAbove ==
    ASSUME NEW x \in Nat, NEW d \in Nat \ {0}, NEW c \in Nat, c * d <= x
    PROVE  c <= x \div d
  <1> DEFINE z == x \div d
  <1>1. z \in Int /\ x < d * (z + 1)
    OBVIOUS
  <1> HIDE DEF z
  <1>2. c <= z
    <2> SUFFICES ASSUME z + 1 <= c PROVE FALSE
      BY <1>1
    <2>1. d * (z + 1) <= c * d
      BY <1>1
    <2> QED BY <1>1, <2>1
  <1> QED BY <1>2 DEF z

LEMMA PenaltyFacts ==
    ASSUME NEW latencyMs \in Latencies
    PROVE  LatencyPenalty(latencyMs) \in {0, 4, 8, 15, 25, 40}
  BY DEF Latencies, LatencyPenalty

\* The score of a rate that is a number.
LEMMA ClampFacts ==
    ASSUME NEW a \in Int, NEW n \in Nat \ {0}
    PROVE  /\ clampScore(a, n) \in 0 .. 100
           /\ a < 30 * n => clampScore(a, n) < 50
           /\ a >= 60 * n => clampScore(a, n) >= 50
  <1>1. CASE a < 0
    BY <1>1 DEF clampScore
  <1>2. CASE a > 100 * n
    BY <1>2 DEF clampScore
  <1>3. CASE 0 <= a /\ a <= 100 * n
    <2> DEFINE x == 2 * a + n
               d == 2 * n
    <2>1. clampScore(a, n) = x \div d
      BY <1>3 DEF clampScore
    <2>2. x \in Nat /\ d \in Nat \ {0} /\ x < 101 * d
      BY <1>3
    <2>3. (a < 30 * n => x < 50 * d) /\ (a >= 60 * n => 50 * d <= x)
      OBVIOUS
    <2> HIDE DEF x, d
    <2>4. x \div d \in Nat /\ x \div d < 101
      BY <2>2, DivBelow
    <2>5. a < 30 * n => x \div d < 50
      BY <2>2, <2>3, DivBelow
    <2>6. a >= 60 * n => 50 <= x \div d
      BY <2>2, <2>3, DivAbove
    <2> QED BY <2>1, <2>4, <2>5, <2>6
  <1> QED BY <1>1, <1>2, <1>3

LEMMA ScoreFacts ==
    ASSUME NEW latencyMs \in Latencies, NEW f \in Nat, NEW n \in Nat,
           NEW score \in ScoreFromSignals(latencyMs, f, n)
    PROVE  /\ score >= 50 => 2 * f <= n
           /\ n > 0 => score \in 0 .. 100 /\ (f = 0 => score >= 50)
  <1> DEFINE L == LatencyPenalty(latencyMs)
             points == 100 - L - (IF 2 * f > n THEN 20 ELSE 0)
             a == points * n - 100 * f
  <1>1. L \in {0, 4, 8, 15, 25, 40}
    BY PenaltyFacts
  <1>2. CASE n > 0
    <2>1. score = clampScore(a, n)
      BY <1>2 DEF ScoreFromSignals
    <2>2. a \in Int
      <3>1. points \in Int
        BY <1>1
      <3> HIDE DEF points
      <3> QED BY <3>1
    <2>3. 2 * f > n => a < 30 * n
      <3> SUFFICES ASSUME 2 * f > n PROVE a < 30 * n
        OBVIOUS
      <3>1. points \in {80, 76, 72, 65, 55, 40}
        <4> HIDE DEF L
        <4> QED BY <1>1
      <3> HIDE DEF points
      <3> QED BY <1>2, <3>1
    <2>4. f = 0 => a >= 60 * n
      <3> SUFFICES ASSUME f = 0 PROVE a >= 60 * n
        OBVIOUS
      <3>1. points \in {100, 96, 92, 85, 75, 60}
        <4> HIDE DEF L
        <4> QED BY <1>1
      <3> HIDE DEF points
      <3> QED BY <1>2, <3>1
    <2> HIDE DEF a
    <2>5. /\ clampScore(a, n) \in 0 .. 100
          /\ a < 30 * n => clampScore(a, n) < 50
          /\ a >= 60 * n => clampScore(a, n) >= 50
      BY <1>2, <2>2, ClampFacts
    <2> QED BY <1>2, <2>1, <2>3, <2>4, <2>5
  <1>3. CASE n = 0
    <2>1. score = 0 \/ score = -1
      BY <1>3 DEF ScoreFromSignals, NaNScores
    <2> QED BY <1>3, <2>1
  <1> QED BY <1>2, <1>3

\* The samples that should count, and the failures among them, give the rate.
LEMMA ExactRateFacts ==
    ASSUME Basic, NEW p \in Probers
    PROVE  LET recent == Recent(loc[p].at)
               failed == {k \in recent : history[k].failed}
           IN  /\ Cardinality(recent) \in Nat /\ Cardinality(failed) \in Nat
               /\ ExactRate(p)[1] = Cardinality(failed)
               /\ ExactRate(p)[2] \in Nat \ {0}
               /\ recent # {} => ExactRate(p)[2] = Cardinality(recent)
               /\ failed = {} => Cardinality(failed) = 0
               /\ recent = {} => Cardinality(recent) = 0 /\ failed = {}
  <1> DEFINE R == Recent(loc[p].at)
             F == {k \in R : history[k].failed}
  <1>1. Len(history) \in Nat /\ DOMAIN history = 1 .. Len(history)
    <2>1. history \in Seq(Samples)
      BY LocalTypes
    <2> QED BY <2>1
  <1>2. IsFiniteSet(1 .. Len(history))
    BY <1>1, FS_Interval
  <1>3. R \subseteq 1 .. Len(history) /\ F \subseteq R
    BY <1>1 DEF Recent
  <1>4. IsFiniteSet(R) /\ IsFiniteSet(F)
    BY <1>2, <1>3, FS_Subset
  <1> HIDE DEF R
  <1>5. Cardinality(R) \in Nat /\ Cardinality(F) \in Nat
    BY <1>4, FS_CardinalityType
  <1>6. (R = {} <=> Cardinality(R) = 0) /\ (F = {} => Cardinality(F) = 0)
    BY <1>4, FS_EmptySet
  <1>7. ExactRate(p) = IF R = {} THEN <<0, 1>> ELSE <<Cardinality(F), Cardinality(R)>>
    BY DEF ExactRate, NoFailure, R
  <1>8. R = {} => F = {}
    OBVIOUS
  <1> QED BY <1>5, <1>6, <1>7, <1>8 DEF R

\* ListBackendHealth's verdict agrees with the samples recorded: Healthy when the
\* ping succeeded and no sample that should count failed, not Healthy when more than
\* half failed, and a score from 0 to 100, unless snapshots have overlapped and a
\* sample has left the window.
THEOREM ReportsSound == Spec => ReportSound
  <1> DEFINE Ok == \A p \in Probers :
        /\ InSnapshot(p) /\ pc'[p] = "idle"
        /\ ~overlapped \/ \A k \in DOMAIN history : Counts(history[k], now)
        =>
        LET recent == Recent(loc[p].at)
            failed == {k \in recent : history[k].failed}
        IN  \A latencyMs \in Latencies : \A score \in Scores(p, latencyMs)' :
                /\ score \in 0 .. 100
                /\ Healthy(p, score) => 2 * Cardinality(failed) <= Cardinality(recent)
                /\ failed = {} /\ ~loc[p].err => Healthy(p, score)
  <1>1. IInv /\ [Next]_vars => Ok
    <2> SUFFICES ASSUME IInv, [Next]_vars, NEW p \in Probers, InSnapshot(p), pc'[p] = "idle", Calm,
                        NEW latencyMs \in Latencies,
                        NEW score \in ScoreFromSignals(latencyMs, rate'[p][1], rate'[p][2])
                 PROVE  LET recent == Recent(loc[p].at)
                            failed == {k \in recent : history[k].failed}
                        IN  /\ score \in 0 .. 100
                            /\ Healthy(p, score) => 2 * Cardinality(failed) <= Cardinality(recent)
                            /\ failed = {} /\ ~loc[p].err => Healthy(p, score)
      BY DEF Calm, AllCount, Scores
    <2> DEFINE R == Recent(loc[p].at)
               F == {k \in R : history[k].failed}
    <2>1. rate'[p] = ExactRate(p)
      BY WhoReturns, RateIsExact DEF IInv
    <2>2. /\ Cardinality(R) \in Nat /\ Cardinality(F) \in Nat
          /\ rate'[p][1] = Cardinality(F) /\ rate'[p][2] \in Nat \ {0}
          /\ R # {} => rate'[p][2] = Cardinality(R)
          /\ F = {} => Cardinality(F) = 0
          /\ R = {} => Cardinality(R) = 0 /\ F = {}
      BY <2>1, ExactRateFacts DEF IInv
    <2> HIDE DEF R
    <2>3. /\ score \in 0 .. 100
          /\ score >= 50 => 2 * Cardinality(F) <= rate'[p][2]
          /\ Cardinality(F) = 0 => score >= 50
      BY <2>2, ScoreFacts
    <2>4. score >= 50 => 2 * Cardinality(F) <= Cardinality(R)
      BY <2>2, <2>3
    <2>5. F = {} => score >= 50
      BY <2>2, <2>3
    <2> QED BY <2>3, <2>4, <2>5 DEF Healthy, R
  <1> HIDE DEF Ok
  <1>2. Spec => [][Ok]_vars
    BY <1>1, Invariance, PTL DEF Spec
  <1> QED BY <1>2 DEF Ok, ReportSound
=============================================================================
