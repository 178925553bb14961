------------------------- MODULE HistogramExportProofs -------------------------
(***************************************************************************)
(* Proofs about what Collect makes of the counts, for every number of      *)
(* buckets and every latency that the filters let through.                 *)
(*                                                                         *)
(*   BucketsExact               ExportSpec => []ExportExact                *)
(*   SumBounded                 ExportSpec => []SumWithinHalf              *)
(***************************************************************************)
EXTENDS HistogramExport, RunqLatencyProofs

(***************************************************************************)
(* Sums over finite sets                                                   *)
(***************************************************************************)
LEMMA FiniteInduction ==
    ASSUME NEW S, IsFiniteSet(S), NEW P,
           \A T \in SUBSET S : (\A U \in SUBSET T : U # T => U \in P) => T \in P
    PROVE  \A T \in SUBSET S : T \in P
<1> DEFINE Rest == {T \in SUBSET S : T \notin P}
<1> SUFFICES ASSUME Rest # {} PROVE FALSE
  OBVIOUS
<1>1. IsWellFoundedOn(StrictSubsetOrdering(S), SUBSET S)
  <2>1. IsWellFoundedOn(StrictSubsetOrdering(S), FiniteSubsetsOf(S))
    BY FS_StrictSubsetOrderingWellFounded
  <2>2. FiniteSubsetsOf(S) = SUBSET S
    BY FS_FiniteSubsetsOfFinite
  <2> QED  BY <2>1, <2>2
<1>2. PICK T \in Rest : \A U \in Rest : <<U, T>> \notin StrictSubsetOrdering(S)
  <2>1. Rest \subseteq SUBSET S  OBVIOUS
  <2> HIDE DEF Rest
  <2> QED  BY <1>1, <2>1, WFMin
<1>3. \A U \in SUBSET T : U # T => U \in P
  BY <1>2 DEF StrictSubsetOrdering
<1> QED  BY <1>2, <1>3

Chosen(s) == CHOOSE x \in s : TRUE

IsSum(sum, f, S) ==
    sum = [s \in SUBSET S |->
              IF s = {} THEN 0 ELSE f[Chosen(s)] + sum[s \ {Chosen(s)}]]

LEMMA SumIsChosen ==
    ASSUME NEW f, NEW S
    PROVE  SumFunctionOnSet(f, S) = (CHOOSE sum : IsSum(sum, f, S))[S]
BY DEF SumFunctionOnSet, FoldFunctionOnSet, MapThenFoldSet, IsSum, Chosen

LEMMA ChosenLeaves ==
    ASSUME NEW s, s # {}
    PROVE  /\ Chosen(s) \in s
           /\ s \ {Chosen(s)} \in SUBSET s
           /\ s \ {Chosen(s)} # s
BY DEF Chosen

LEMMA SumUnique ==
    ASSUME NEW f, NEW S, IsFiniteSet(S), NEW T, NEW g, NEW h,
           IsSum(g, f, S), IsSum(h, f, T)
    PROVE  \A U \in SUBSET S : U \in SUBSET T => g[U] = h[U]
<1> DEFINE P == {U \in SUBSET S : U \in SUBSET T => g[U] = h[U]}
<1>1. ASSUME NEW U \in SUBSET S, \A V \in SUBSET U : V # U => V \in P
      PROVE  U \in P
  <2> SUFFICES ASSUME U \in SUBSET T PROVE g[U] = h[U]
    OBVIOUS
  <2>1. CASE U = {}
    BY <2>1 DEF IsSum
  <2>2. CASE U # {}
    <3> DEFINE V == U \ {Chosen(U)}
    <3>1. g[V] = h[V]
      BY <1>1, <2>2, ChosenLeaves
    <3>2. g[U] = f[Chosen(U)] + g[V] /\ h[U] = f[Chosen(U)] + h[V]
      BY <2>2 DEF IsSum
    <3> QED  BY <3>1, <3>2
  <2> QED  BY <2>1, <2>2
<1> QED
  <2>1. \A U \in SUBSET S : U \in P
    <3> HIDE DEF P
    <3> QED  BY <1>1, FiniteInduction
  <2> QED  BY <2>1

LEMMA SumExists ==
    ASSUME NEW f, NEW S, IsFiniteSet(S)
    PROVE  \E sum : IsSum(sum, f, S)
<1> DEFINE SumOf(T) == CHOOSE sum : IsSum(sum, f, T)
           P == {T \in SUBSET S : \E sum : IsSum(sum, f, T)}
<1>1. ASSUME NEW T \in SUBSET S, \A U \in SUBSET T : U # T => U \in P
      PROVE  T \in P
  <2> DEFINE Less(s) == s \ {Chosen(s)}
             h == [s \in SUBSET T |->
                      IF s = {} THEN 0 ELSE f[Chosen(s)] + SumOf(Less(s))[Less(s)]]
  <2>1. ASSUME NEW U \in SUBSET T, U # T PROVE IsSum(SumOf(U), f, U)
    BY <1>1, <2>1
  <2>2. ASSUME NEW U \in SUBSET T, U # T PROVE h[U] = SumOf(U)[U]
    <3>0. IsSum(SumOf(U), f, U)
      BY <2>1, <2>2
    <3>1. CASE U = {}
      BY <3>0, <3>1 DEF IsSum
    <3>2. CASE U # {}
      <4>1. Less(U) \in SUBSET U /\ Less(U) \in SUBSET T /\ Less(U) # T
        BY <2>2, <3>2
      <4>2. IsSum(SumOf(Less(U)), f, Less(U))
        BY <2>1, <4>1
      <4>3. IsFiniteSet(U)
        BY FS_Subset
      <4>4. SumOf(U)[Less(U)] = SumOf(Less(U))[Less(U)]
        <5>1. Less(U) \in SUBSET Less(U)  OBVIOUS
        <5> HIDE DEF Less, SumOf
        <5> QED  BY <3>0, <4>1, <4>2, <4>3, <5>1, SumUnique
      <4>5. SumOf(U)[U] = f[Chosen(U)] + SumOf(U)[Less(U)]
        BY <3>0, <3>2 DEF IsSum
      <4>6. h[U] = f[Chosen(U)] + SumOf(Less(U))[Less(U)]
        BY <3>2
      <4> QED  BY <4>4, <4>5, <4>6
    <3> QED  BY <3>1, <3>2
  <2>3. ASSUME NEW s \in SUBSET T, s # {} PROVE h[Less(s)] = SumOf(Less(s))[Less(s)]
    <3>1. Less(s) \in SUBSET T /\ Less(s) # T
      BY <2>3, ChosenLeaves
    <3> HIDE DEF Less, SumOf, h
    <3> QED  BY <2>2, <3>1
  <2>4. h = [s \in SUBSET T |->
                IF s = {} THEN 0 ELSE f[Chosen(s)] + h[Less(s)]]
    <3> HIDE DEF Less, SumOf
    <3> QED  BY <2>3
  <2>5. IsSum(h, f, T)
    BY <2>4 DEF IsSum
  <2> HIDE DEF h
  <2> QED  BY <2>5
<1> QED
  <2>1. \A T \in SUBSET S : T \in P
    <3> HIDE DEF P
    <3> QED  BY <1>1, FiniteInduction
  <2> QED  BY <2>1

\* The sum takes out one element after the other; which one, depends on the set alone.
LEMMA SumStep ==
    ASSUME NEW f, NEW S, IsFiniteSet(S)
    PROVE  SumFunctionOnSet(f, S) =
             IF S = {} THEN 0
             ELSE f[Chosen(S)] + SumFunctionOnSet(f, S \ {Chosen(S)})
<1> DEFINE SumOf(T) == CHOOSE sum : IsSum(sum, f, T)
           R == S \ {Chosen(S)}
<1>1. IsFiniteSet(R)
  BY FS_Subset
<1>2. IsSum(SumOf(S), f, S) /\ IsSum(SumOf(R), f, R)
  BY <1>1, SumExists
<1>3. SumOf(S)[R] = SumOf(R)[R]
  <2>1. R \in SUBSET S /\ R \in SUBSET R  OBVIOUS
  <2> HIDE DEF R, SumOf
  <2> QED  BY <1>2, <2>1, SumUnique
<1>4. SumOf(S)[S] = IF S = {} THEN 0 ELSE f[Chosen(S)] + SumOf(S)[R]
  BY <1>2 DEF IsSum
<1>5. \A T : SumFunctionOnSet(f, T) = SumOf(T)[T]
  BY SumIsChosen
<1> QED
  <2> HIDE DEF SumOf
  <2> QED  BY <1>3, <1>4, <1>5

LEMMA SumType ==
    ASSUME NEW f, NEW S, IsFiniteSet(S), \A x \in S : f[x] \in Nat
    PROVE  SumFunctionOnSet(f, S) \in Nat
<1> DEFINE P == {T \in SUBSET S : SumFunctionOnSet(f, T) \in Nat}
<1>1. ASSUME NEW T \in SUBSET S, \A U \in SUBSET T : U # T => U \in P
      PROVE  T \in P
  <2>1. IsFiniteSet(T)
    BY FS_Subset
  <2>2. CASE T = {}
    <3>1. SumFunctionOnSet(f, T) = 0
      BY <2>1, <2>2, SumStep
    <3> QED  BY <3>1
  <2>3. CASE T # {}
    <3> DEFINE U == T \ {Chosen(T)}
    <3>1. SumFunctionOnSet(f, U) \in Nat /\ Chosen(T) \in S
      BY <1>1, <2>3, ChosenLeaves
    <3>2. SumFunctionOnSet(f, T) = f[Chosen(T)] + SumFunctionOnSet(f, U)
      BY <2>1, <2>3, SumStep
    <3>3. f[Chosen(T)] \in Nat
      BY <3>1
    <3>4. SumFunctionOnSet(f, T) \in Nat
      BY <3>1, <3>2, <3>3
    <3> QED  BY <3>4
  <2> QED  BY <2>2, <2>3
<1> QED
  <2>1. \A T \in SUBSET S : T \in P
    <3> HIDE DEF P
    <3> QED  BY <1>1, FiniteInduction
  <2> QED  BY <2>1

\* On S, g is f but for the value at x, which is raised by d.
IsRaised(f, g, S, x, d) ==
    \A y \in S : f[y] \in Nat /\ g[y] = f[y] + IF y = x THEN d ELSE 0

LEMMA SumRaised ==
    ASSUME NEW f, NEW g, NEW S, IsFiniteSet(S), NEW x, NEW d \in Nat,
           IsRaised(f, g, S, x, d)
    PROVE  SumFunctionOnSet(g, S) = SumFunctionOnSet(f, S) + IF x \in S THEN d ELSE 0
<1> DEFINE Raise(T) == IF x \in T THEN d ELSE 0
           P == {T \in SUBSET S :
                    SumFunctionOnSet(g, T) = SumFunctionOnSet(f, T) + Raise(T)}
<1>1. ASSUME NEW T \in SUBSET S, \A U \in SUBSET T : U # T => U \in P
      PROVE  T \in P
  <2>1. IsFiniteSet(T)
    BY FS_Subset
  <2>2. CASE T = {}
    <3>1. SumFunctionOnSet(g, T) = 0 /\ SumFunctionOnSet(f, T) = 0
      BY <2>1, <2>2, SumStep
    <3> QED  BY <2>2, <3>1
  <2>3. CASE T # {}
    <3> DEFINE c == Chosen(T)
               U == T \ {c}
    <3>1. c \in T /\ U \in SUBSET T /\ U # T
      BY <2>3, ChosenLeaves
    <3>2. /\ SumFunctionOnSet(g, T) = g[c] + SumFunctionOnSet(g, U)
          /\ SumFunctionOnSet(f, T) = f[c] + SumFunctionOnSet(f, U)
      BY <2>1, <2>3, SumStep
    <3>3. SumFunctionOnSet(f, U) \in Nat /\ f[c] \in Nat
      <4>1. IsFiniteSet(U)
        BY <2>1, FS_Subset
      <4>2. f[c] \in Nat /\ \A y \in U : f[y] \in Nat
        BY <3>1 DEF IsRaised
      <4> HIDE DEF c, U
      <4> QED  BY <4>1, <4>2, SumType
    <3>4. SumFunctionOnSet(g, U) = SumFunctionOnSet(f, U) + Raise(U)
      BY <1>1, <3>1
    <3>5. g[c] = f[c] + IF c = x THEN d ELSE 0
      BY <3>1 DEF IsRaised
    <3>6. SumFunctionOnSet(g, T) = SumFunctionOnSet(f, T) + Raise(T)
      <4>1. Raise(T) = Raise(U) + IF c = x THEN d ELSE 0
        BY <3>1
      <4>2. Raise(U) \in Nat
        OBVIOUS
      <4> HIDE DEF c, U, Raise
      <4> QED  BY <3>2, <3>3, <3>4, <3>5, <4>1, <4>2
    <3> QED  BY <3>6
  <2> QED  BY <2>2, <2>3
<1> QED
  <2>1. \A T \in SUBSET S : T \in P
    <3> HIDE DEF P
    <3> QED  BY <1>1, FiniteInduction
  <2> QED  BY <2>1

LEMMA SumZero ==
    ASSUME NEW f, NEW S, IsFiniteSet(S), \A x \in S : f[x] = 0
    PROVE  SumFunctionOnSet(f, S) = 0
<1> DEFINE P == {T \in SUBSET S : SumFunctionOnSet(f, T) = 0}
<1>1. ASSUME NEW T \in SUBSET S, \A U \in SUBSET T : U # T => U \in P
      PROVE  T \in P
  <2>1. IsFiniteSet(T)
    BY FS_Subset
  <2>2. CASE T = {}
    BY <2>1, <2>2, SumStep
  <2>3. CASE T # {}
    <3> DEFINE U == T \ {Chosen(T)}
    <3>1. SumFunctionOnSet(f, U) = 0 /\ f[Chosen(T)] = 0
      BY <1>1, <2>3, ChosenLeaves
    <3>2. SumFunctionOnSet(f, T) = f[Chosen(T)] + SumFunctionOnSet(f, U)
      BY <2>1, <2>3, SumStep
    <3>3. SumFunctionOnSet(f, T) = 0
      BY <3>1, <3>2
    <3> QED  BY <3>3
  <2> QED  BY <2>2, <2>3
<1> QED
  <2>1. \A T \in SUBSET S : T \in P
    <3> HIDE DEF P
    <3> QED  BY <1>1, FiniteInduction
  <2> QED  BY <2>1
------------------------------------------------------------------------------
(***************************************************************************)
(* The bounds and the bucket of a latency                                  *)
(***************************************************************************)
LEMMA BoundsDouble ==
    /\ bucketBoundsNs \in [Buckets -> Nat \ {0}]
    /\ bucketBoundsNs[0] = NsPerUs
    /\ \A b \in Buckets \ {0} : bucketBoundsNs[b] = 2 * bucketBoundsNs[b - 1]
<1> DEFINE Def(v) == [b \in Buckets |-> IF b = 0 THEN NsPerUs ELSE 2 * v[b - 1]]
           twice == [m \in Nat |-> [v \in Nat |-> 2 * v]]
           last == NUM_BUCKETS - 1
<1>0. last \in Nat /\ NsPerUs \in Nat \ {0} /\ Buckets = 0 .. last
  BY NumbersAssumption DEF Buckets
<1>1. PICK f \in [0 .. last -> Nat] :
          f[0] = NsPerUs /\ \A m \in 1 .. last : f[m] = 2 * f[m - 1]
  <2>1. twice \in [Nat -> [Nat -> Nat]]
    OBVIOUS
  <2>2. PICK f : IsRecursion(f, Nat, NsPerUs, twice, last)
    <3> HIDE DEF twice, last
    <3> QED  BY <1>0, <2>1, Recursion
  <2>3. /\ f \in [0 .. last -> Nat]
        /\ f[0] = NsPerUs
        /\ \A m \in 1 .. last : f[m] = twice[m][f[m - 1]]
    <3> HIDE DEF twice, last
    <3> QED  BY <2>2 DEF IsRecursion
  <2>4. \A m \in 1 .. last : f[m] = 2 * f[m - 1]
    <3>1. \A m \in 1 .. last : f[m - 1] \in Nat /\ m \in Nat
      BY <1>0, <2>3
    <3> QED  BY <2>3, <3>1
  <2> QED  BY <2>3, <2>4
<1>2. f = Def(f)
  BY <1>0, <1>1
<1>3. bucketBoundsNs = Def(bucketBoundsNs)
  <2>1. bucketBoundsNs = CHOOSE v : v = Def(v)
    BY DEF bucketBoundsNs
  <2> HIDE DEF Def
  <2> QED  BY <1>2, <2>1
<1> DEFINE w == bucketBoundsNs
<1>4. w = Def(w)
  BY <1>3
<1> HIDE DEF w
<1>5. w[0] = NsPerUs /\ \A b \in Buckets \ {0} : w[b] = 2 * w[b - 1]
  BY <1>0, <1>4
<1>6. \A b \in Buckets : w[b] \in Nat \ {0}
  <2> DEFINE S == {b \in Buckets : w[b] \in Nat \ {0}}
  <2>1. 0 \in S
    BY <1>0, <1>5
  <2>2. ASSUME NEW b \in Buckets \ {0}, b - 1 \in S PROVE b \in S
    BY <1>5, <2>2
  <2>3. \A b \in Buckets : b \in S
    <3> HIDE DEF S
    <3> QED  BY <2>1, <2>2, BucketInduction
  <2> QED  BY <2>3
<1>7. w \in [Buckets -> Nat \ {0}]
  BY <1>4, <1>6
<1> QED  BY <1>5, <1>7 DEF w

\* Halving the latency in microseconds b times is dividing it by the bound of b.
LEMMA ShiftedIsQuotient ==
    ASSUME NEW lat \in Nat, NEW b \in Buckets
    PROVE  /\ Shifted(lat)[b] * bucketBoundsNs[b] <= lat
           /\ lat < (Shifted(lat)[b] + 1) * bucketBoundsNs[b]
<1> DEFINE v == Shifted(lat)
           w == bucketBoundsNs
           S == {d \in Buckets : v[d] * w[d] <= lat /\ lat < (v[d] + 1) * w[d]}
<1>0. /\ v \in [Buckets -> Nat] /\ w \in [Buckets -> Nat \ {0}]
      /\ v[0] = lat \div NsPerUs /\ w[0] = NsPerUs /\ NsPerUs \in Nat \ {0}
      /\ \A d \in Buckets \ {0} : v[d] = v[d - 1] \div 2 /\ w[d] = 2 * w[d - 1]
      /\ 0 \in Buckets
  <2>1. /\ v \in [Buckets -> Nat] /\ v[0] = lat \div NsPerUs
        /\ \A d \in Buckets \ {0} : v[d] = v[d - 1] \div 2
    BY ShiftedStep
  <2>2. /\ w \in [Buckets -> Nat \ {0}] /\ w[0] = NsPerUs
        /\ \A d \in Buckets \ {0} : w[d] = 2 * w[d - 1]
    BY BoundsDouble
  <2>3. NsPerUs \in Nat \ {0} /\ 0 \in Buckets
    BY NumbersAssumption DEF Buckets
  <2> HIDE DEF v, w
  <2> QED  BY <2>1, <2>2, <2>3
<1> HIDE DEF v, w
<1>1. 0 \in S
  <2> DEFINE q == lat \div NsPerUs
             r == lat % NsPerUs
  <2>1. q \in Nat /\ r \in 0 .. NsPerUs - 1 /\ lat = NsPerUs * q + r
    BY <1>0
  <2>2. q * NsPerUs = NsPerUs * q /\ (q + 1) * NsPerUs = NsPerUs * q + NsPerUs
    BY <1>0, <2>1
  <2>3. NsPerUs * q \in Nat
    BY <1>0, <2>1
  <2>4. q * NsPerUs <= lat /\ lat < (q + 1) * NsPerUs
    <3> DEFINE m == NsPerUs * q
    <3> HIDE DEF q, r, m
    <3> QED  BY <1>0, <2>1, <2>2, <2>3 DEF m
  <2> QED  BY <1>0, <2>4
<1>2. ASSUME NEW d \in Buckets \ {0}, d - 1 \in S PROVE d \in S
  <2> DEFINE x == v[d - 1]
             y == v[d]
             n == w[d - 1]
  <2>1. x \in Nat /\ y \in Nat /\ n \in Nat /\ y = x \div 2 /\ w[d] = 2 * n
    BY <1>0, <1>2
  <2>2. x * n <= lat /\ lat < (x + 1) * n
    BY <1>2
  <2>3. 2 * y <= x /\ x + 1 <= 2 * (y + 1)
    BY <2>1
  <2>4. (2 * y) * n <= x * n /\ (x + 1) * n <= (2 * (y + 1)) * n
    <3> HIDE DEF x, y, n
    <3> QED  BY <2>1, <2>3
  <2>5. (2 * y) * n = y * (2 * n) /\ (2 * (y + 1)) * n = (y + 1) * (2 * n)
    BY <2>1
  <2>6. y * (2 * n) \in Nat /\ (y + 1) * (2 * n) \in Nat /\ x * n \in Nat /\ (x + 1) * n \in Nat
    BY <2>1
  <2>7. y * (2 * n) <= lat /\ lat < (y + 1) * (2 * n)
    <3> HIDE DEF x, y, n
    <3> QED  BY <2>2, <2>4, <2>5, <2>6
  <2> QED  BY <2>1, <2>7
<1>3. \A d \in Buckets : d \in S
  <2> HIDE DEF S
  <2> QED  BY <1>1, <1>2, BucketInduction
<1>4. b \in S
  BY <1>3
<1> QED  BY <1>4 DEF v, w

\* A set of numbers with no gap below holds the numbers up to its size.
LEMMA PrefixCardinality ==
    ASSUME NEW n \in Nat, NEW D \in SUBSET (1 .. n), \A b \in D : b > 1 => b - 1 \in D
    PROVE  Cardinality(D) \in Nat /\ D = 1 .. Cardinality(D)
<1> DEFINE Gapless(E) == \A b \in E : b > 1 => b - 1 \in E
           Prefix(E) == \E m \in Nat : E = 1 .. m
           S == {k \in Nat : \A E \in SUBSET (1 .. k) : Gapless(E) => Prefix(E)}
<1>1. 0 \in S
  <2>1. ASSUME NEW E \in SUBSET (1 .. 0) PROVE E = 1 .. 0
    OBVIOUS
  <2> QED  BY <2>1
<1>2. ASSUME NEW k \in Nat, k \in S PROVE k + 1 \in S
  <2> SUFFICES ASSUME NEW E \in SUBSET (1 .. k + 1), Gapless(E) PROVE Prefix(E)
    OBVIOUS
  <2>1. CASE k + 1 \notin E
    <3>1. E \in SUBSET (1 .. k)
      BY <2>1
    <3> QED  BY <1>2, <3>1
  <2>2. CASE k + 1 \in E
    <3> DEFINE F == E \ {k + 1}
    <3>1. F \in SUBSET (1 .. k) /\ Gapless(F)
      OBVIOUS
    <3>2. PICK m \in Nat : F = 1 .. m
      <4> HIDE DEF F
      <4> QED  BY <1>2, <3>1
    <3>3. m = k
      <4>1. k # 0 => k \in F
        BY <2>2
      <4>2. k # 0 => k <= m
        BY <3>2, <4>1
      <4>3. m # 0 => m \in F
        BY <3>2
      <4>4. m # 0 => m <= k
        BY <3>1, <4>3
      <4> QED  BY <4>2, <4>4
    <3>4. E = 1 .. k + 1
      <4>1. E = (1 .. k) \cup {k + 1}
        BY <2>2, <3>2, <3>3
      <4>2. 1 .. k + 1 = (1 .. k) \cup {k + 1}
        OBVIOUS
      <4> QED  BY <4>1, <4>2
    <3> QED  BY <3>4
  <2> QED  BY <2>1, <2>2
<1>3. n \in S
  <2> HIDE DEF S
  <2> QED  BY <1>1, <1>2, Induction
<1>4. PICK m \in Nat : D = 1 .. m
  BY <1>3
<1>5. Cardinality(D) = m
  <2>1. 1 \in Int /\ m \in Int
    OBVIOUS
  <2>2. Cardinality(1 .. m) = IF 1 > m THEN 0 ELSE m - 1 + 1
    BY <2>1, FS_Interval
  <2> QED  BY <1>4, <2>2
<1> QED  BY <1>4, <1>5

\* The two sides of the bucket convention agree: the kernel's loop puts a latency
\* into a bucket that is at least b exactly when the latency reaches the bound of b.
LEMMA BucketReached ==
    ASSUME NEW lat \in Nat, NsPerUs <= lat, NEW b \in Buckets
    PROVE  b <= get_hist_bucket(lat) <=> bucketBoundsNs[b] <= lat
<1> DEFINE v == Shifted(lat)
           w == bucketBoundsNs
           D == {d \in 1 .. NUM_BUCKETS - 1 : v[d - 1] > 1}
<1>0. /\ v \in [Buckets -> Nat] /\ w \in [Buckets -> Nat \ {0}]
      /\ w[0] = NsPerUs /\ NsPerUs \in Nat \ {0}
      /\ \A d \in Buckets \ {0} : v[d] = v[d - 1] \div 2
      /\ Buckets = 0 .. NUM_BUCKETS - 1 /\ NUM_BUCKETS - 1 \in Nat
      /\ \A d \in Buckets : v[d] * w[d] <= lat /\ lat < (v[d] + 1) * w[d]
  <2>1. v \in [Buckets -> Nat] /\ \A d \in Buckets \ {0} : v[d] = v[d - 1] \div 2
    BY ShiftedStep
  <2>2. w \in [Buckets -> Nat \ {0}] /\ w[0] = NsPerUs
    BY BoundsDouble
  <2>3. \A d \in Buckets : v[d] * w[d] <= lat /\ lat < (v[d] + 1) * w[d]
    BY ShiftedIsQuotient
  <2>4. /\ NsPerUs \in Nat \ {0} /\ Buckets = 0 .. NUM_BUCKETS - 1
        /\ NUM_BUCKETS - 1 \in Nat
    BY NumbersAssumption DEF Buckets
  <2> HIDE DEF v, w
  <2> QED  BY <2>1, <2>2, <2>3, <2>4
<1>1. get_hist_bucket(lat) = Cardinality(D)
  BY DEF get_hist_bucket
<1> HIDE DEF v, w
<1>2. ASSUME NEW d \in 1 .. NUM_BUCKETS - 1
      PROVE  /\ d \in Buckets /\ d - 1 \in Buckets
             /\ v[d] \in Nat /\ v[d - 1] \in Nat /\ v[d] = v[d - 1] \div 2
  BY <1>0
<1>3. ASSUME NEW d \in D, d > 1 PROVE d - 1 \in D
  <2>1. d - 1 \in 1 .. NUM_BUCKETS - 1
    BY <1>0, <1>3
  <2>2. v[d - 1] = v[d - 1 - 1] \div 2 /\ v[d - 1] > 1 /\ v[d - 1 - 1] \in Nat
    BY <1>2, <2>1
  <2>3. v[d - 1 - 1] > 1
    BY <2>2
  <2> QED  BY <2>1, <2>3
<1>4. Cardinality(D) \in Nat /\ D = 1 .. Cardinality(D)
  <2>1. D \in SUBSET (1 .. NUM_BUCKETS - 1)
    OBVIOUS
  <2> HIDE DEF D
  <2> QED  BY <1>0, <1>3, <2>1, PrefixCardinality
<1>5. CASE b = 0
  BY <1>0, <1>1, <1>4, <1>5 DEF w
<1>6. CASE b # 0
  <2>1. b \in 1 .. NUM_BUCKETS - 1
    BY <1>0, <1>6
  <2>2. b <= Cardinality(D) <=> b \in D
    <3> HIDE DEF D
    <3> QED  BY <1>4, <2>1
  <2>3. b \in D <=> v[b] >= 1
    <3>1. v[b - 1] > 1 <=> v[b] >= 1
      BY <1>2, <2>1
    <3> QED  BY <2>1, <3>1
  <2>4. v[b] >= 1 <=> w[b] <= lat
    <3> DEFINE x == v[b]
               n == w[b]
    <3>1. x \in Nat /\ n \in Nat /\ x * n <= lat /\ lat < (x + 1) * n
      BY <1>0
    <3> HIDE DEF x, n
    <3>2. ASSUME x = 0 PROVE x >= 1 <=> n <= lat
      <4>1. (x + 1) * n = n
        BY <3>1, <3>2
      <4> QED  BY <3>1, <3>2, <4>1
    <3>3. ASSUME x >= 1 PROVE x >= 1 <=> n <= lat
      <4>1. n <= x * n
        BY <3>1, <3>3
      <4>2. x * n \in Nat
        BY <3>1
      <4> QED  BY <3>1, <3>3, <4>1, <4>2
    <3>4. x >= 1 <=> n <= lat
      BY <3>1, <3>2, <3>3
    <3> QED  BY <3>4 DEF x, n
  <2> QED  BY <1>1, <2>2, <2>3, <2>4 DEF w
<1> QED  BY <1>5, <1>6
------------------------------------------------------------------------------
(***************************************************************************)
(* What one more count does to what is exported                            *)
(***************************************************************************)
LEMMA CumulStep ==
    ASSUME NEW counts \in [Buckets -> Nat]
    PROVE  /\ CumulBuckets(counts) \in [Buckets -> Nat]
           /\ CumulBuckets(counts)[0] = 0
           /\ \A b \in Buckets \ {0} :
                 CumulBuckets(counts)[b] = CumulBuckets(counts)[b - 1] + counts[b - 1]
<1> DEFINE Def(v) == [b \in Buckets |-> IF b = 0 THEN 0 ELSE v[b - 1] + counts[b - 1]]
           count == [b \in Nat |-> IF b - 1 \in Buckets THEN counts[b - 1] ELSE 0]
           add == [m \in Nat |-> [v \in Nat |-> v + count[m]]]
           last == NUM_BUCKETS - 1
<1>0. last \in Nat /\ Buckets = 0 .. last
  BY NumbersAssumption DEF Buckets
<1>1. PICK f \in [0 .. last -> Nat] :
          f[0] = 0 /\ \A m \in 1 .. last : f[m] = f[m - 1] + counts[m - 1]
  <2>0. count \in [Nat -> Nat]
    OBVIOUS
  <2>1. add \in [Nat -> [Nat -> Nat]]
    <3> HIDE DEF count
    <3> QED  BY <2>0
  <2>2. PICK f : IsRecursion(f, Nat, 0, add, last)
    <3> HIDE DEF add, last
    <3> QED  BY <1>0, <2>1, Recursion
  <2>3. /\ f \in [0 .. last -> Nat]
        /\ f[0] = 0
        /\ \A m \in 1 .. last : f[m] = add[m][f[m - 1]]
    <3> HIDE DEF add, last
    <3> QED  BY <2>2 DEF IsRecursion
  <2>4. \A m \in 1 .. last : f[m] = f[m - 1] + counts[m - 1]
    <3>1. \A m \in 1 .. last : f[m - 1] \in Nat /\ m \in Nat
      BY <1>0, <2>3
    <3>2. \A m \in 1 .. last : count[m] = counts[m - 1]
      BY <1>0
    <3> HIDE DEF count
    <3> QED  BY <2>3, <3>1, <3>2
  <2> QED  BY <2>3, <2>4
<1>2. f = Def(f)
  BY <1>0, <1>1
<1> DEFINE w == CumulBuckets(counts)
<1>3. w = Def(w)
  <2>1. w = CHOOSE v : v = Def(v)
    BY DEF CumulBuckets
  <2> HIDE DEF Def, w
  <2> QED  BY <1>2, <2>1
<1> HIDE DEF w
<1>4. w[0] = 0 /\ \A b \in Buckets \ {0} : w[b] = w[b - 1] + counts[b - 1]
  BY <1>0, <1>3
<1>5. \A b \in Buckets : w[b] \in Nat
  <2> DEFINE S == {b \in Buckets : w[b] \in Nat}
  <2>1. 0 \in S
    BY <1>0, <1>4
  <2>2. ASSUME NEW b \in Buckets \ {0}, b - 1 \in S PROVE b \in S
    BY <1>4, <2>2
  <2>3. \A b \in Buckets : b \in S
    <3> HIDE DEF S
    <3> QED  BY <2>1, <2>2, BucketInduction
  <2> QED  BY <2>3
<1>6. w \in [Buckets -> Nat]
  BY <1>3, <1>5
<1> QED  BY <1>4, <1>6 DEF w

\* more has one count more than counts, in bucket k.
OneMore(counts, more, k) ==
    \A b \in Buckets : more[b] = counts[b] + IF b = k THEN 1 ELSE 0

LEMMA CumulRaised ==
    ASSUME NEW counts \in [Buckets -> Nat], NEW more \in [Buckets -> Nat],
           NEW k \in Buckets, OneMore(counts, more, k)
    PROVE  /\ \A b \in Buckets :
                 CumulBuckets(more)[b] = CumulBuckets(counts)[b] + IF k < b THEN 1 ELSE 0
           /\ TotalCount(more) = TotalCount(counts) + 1
<1> DEFINE v == CumulBuckets(counts)
           w == CumulBuckets(more)
           S == {b \in Buckets : w[b] = v[b] + IF k < b THEN 1 ELSE 0}
<1>0. /\ v \in [Buckets -> Nat] /\ v[0] = 0
      /\ \A b \in Buckets \ {0} : v[b] = v[b - 1] + counts[b - 1]
  BY CumulStep
<1>1. /\ w \in [Buckets -> Nat] /\ w[0] = 0
      /\ \A b \in Buckets \ {0} : w[b] = w[b - 1] + more[b - 1]
  BY CumulStep
<1>2. Buckets = 0 .. NUM_BUCKETS - 1 /\ NUM_BUCKETS - 1 \in Nat /\ Overflow = NUM_BUCKETS - 1
  BY NumbersAssumption DEF Buckets, Overflow
<1> HIDE DEF v, w
<1>3. 0 \in S
  BY <1>0, <1>1, <1>2
<1>4. ASSUME NEW b \in Buckets \ {0}, b - 1 \in S PROVE b \in S
  <2>1. b - 1 \in Buckets /\ v[b - 1] \in Nat /\ counts[b - 1] \in Nat /\ k \in Nat /\ b \in Nat
    BY <1>0, <1>2
  <2>2. w[b - 1] = v[b - 1] + IF k < b - 1 THEN 1 ELSE 0
    BY <1>4
  <2>3. more[b - 1] = counts[b - 1] + IF b - 1 = k THEN 1 ELSE 0
    BY <2>1 DEF OneMore
  <2>4. v[b] = v[b - 1] + counts[b - 1] /\ w[b] = w[b - 1] + more[b - 1]
    BY <1>0, <1>1
  <2> QED  BY <2>1, <2>2, <2>3, <2>4
<1>5. \A b \in Buckets : b \in S
  <2> HIDE DEF S
  <2> QED  BY <1>3, <1>4, BucketInduction
<1>6. w[Overflow] + more[Overflow] = v[Overflow] + counts[Overflow] + 1
  <2>1. /\ Overflow \in Buckets /\ v[Overflow] \in Nat /\ counts[Overflow] \in Nat
        /\ k \in Nat /\ k <= Overflow /\ Overflow \in Nat
    BY <1>0, <1>2
  <2>2. w[Overflow] = v[Overflow] + IF k < Overflow THEN 1 ELSE 0
    BY <1>5, <2>1
  <2>3. more[Overflow] = counts[Overflow] + IF Overflow = k THEN 1 ELSE 0
    BY <2>1 DEF OneMore
  <2> QED  BY <2>1, <2>2, <2>3
<1> QED  BY <1>5, <1>6 DEF v, w, TotalCount

\* Twice what a count in bucket k adds to the sum.
TwiceCharge(k) == IF k = Overflow THEN 2 * bucketBoundsNs[k] ELSE 3 * bucketBoundsNs[k]

LEMMA TwiceSumRaised ==
    ASSUME NEW counts \in [Buckets -> Nat], NEW more \in [Buckets -> Nat],
           NEW k \in Buckets, OneMore(counts, more, k)
    PROVE  /\ TwiceSum(counts) \in Nat
           /\ TwiceSum(more) = TwiceSum(counts) + TwiceCharge(k)
<1> DEFINE B == Buckets \ {Overflow}
           w == bucketBoundsNs
           f == [b \in B |-> counts[b] * TwiceMid(b)]
           g == [b \in B |-> more[b] * TwiceMid(b)]
           top == w[Overflow]
<1>0. Buckets = 0 .. NUM_BUCKETS - 1 /\ NUM_BUCKETS - 1 \in Nat /\ Overflow = NUM_BUCKETS - 1
  BY NumbersAssumption DEF Buckets, Overflow
<1>1. \A b \in Buckets : w[b] \in Nat
  BY BoundsDouble
<1>2. \A b \in B : TwiceMid(b) = 3 * w[b] /\ TwiceMid(b) \in Nat
  <2> SUFFICES ASSUME NEW b \in B PROVE TwiceMid(b) = 3 * w[b] /\ TwiceMid(b) \in Nat
    OBVIOUS
  <2>1. w[b + 1] = 2 * w[b] /\ w[b] \in Nat
    <3> DEFINE d == b + 1
    <3>1. d \in Buckets \ {0} /\ d - 1 = b
      BY <1>0
    <3>2. \A e \in Buckets \ {0} : w[e] = 2 * w[e - 1]
      BY BoundsDouble
    <3> HIDE DEF w, d
    <3>3. w[d] = 2 * w[b] /\ w[b] \in Nat
      BY <1>1, <3>1, <3>2
    <3> QED  BY <3>3 DEF d
  <2> QED  BY <2>1 DEF TwiceMid
<1>3. IsFiniteSet(B)
  <2>1. IsFiniteSet(Buckets)
    BY <1>0, FS_Interval
  <2> QED  BY <2>1, FS_Subset
<1>4. \A b \in B : f[b] \in Nat
  <2> SUFFICES ASSUME NEW b \in B PROVE counts[b] * TwiceMid(b) \in Nat
    OBVIOUS
  <2> QED  BY <1>2
<1>5. \A b \in B : g[b] = f[b] + IF b = k THEN 3 * w[k] ELSE 0
  <2> SUFFICES ASSUME NEW b \in B
               PROVE  more[b] * TwiceMid(b)
                        = counts[b] * TwiceMid(b) + IF b = k THEN 3 * w[k] ELSE 0
    OBVIOUS
  <2>1. counts[b] \in Nat /\ more[b] = counts[b] + IF b = k THEN 1 ELSE 0
    BY DEF OneMore
  <2>2. (counts[b] + 1) * TwiceMid(b) = counts[b] * TwiceMid(b) + TwiceMid(b)
    BY <1>2, <2>1
  <2>3. counts[b] * TwiceMid(b) \in Nat
    BY <1>2, <2>1
  <2> HIDE DEF w
  <2> QED  BY <1>2, <2>1, <2>2, <2>3
<1>6. 3 * w[k] \in Nat
  BY <1>1
<1>7. SumFunctionOnSet(g, B) = SumFunctionOnSet(f, B) + IF k \in B THEN 3 * w[k] ELSE 0
  <2> DEFINE d == 3 * w[k]
  <2>1. d \in Nat /\ IsRaised(f, g, B, k, d)
    BY <1>4, <1>5, <1>6 DEF IsRaised
  <2> HIDE DEF f, g, B, d
  <2>2. SumFunctionOnSet(g, B) = SumFunctionOnSet(f, B) + IF k \in B THEN d ELSE 0
    BY <1>3, <2>1, SumRaised
  <2> QED  BY <2>2 DEF d
<1>8. SumFunctionOnSet(f, B) \in Nat
  <2> HIDE DEF f, B
  <2> QED  BY <1>3, <1>4, SumType
<1>9. /\ Overflow \in Buckets /\ top \in Nat /\ counts[Overflow] \in Nat
      /\ more[Overflow] = counts[Overflow] + IF Overflow = k THEN 1 ELSE 0
  BY <1>0, <1>1 DEF OneMore
<1>10. more[Overflow] * 2 * top
         = counts[Overflow] * 2 * top + IF k = Overflow THEN 2 * top ELSE 0
  <2> DEFINE n == counts[Overflow]
  <2>1. n \in Nat /\ top \in Nat
    BY <1>9
  <2> HIDE DEF n, top
  <2>2. (n + 1) * 2 * top = n * 2 * top + 2 * top /\ n * 2 * top \in Nat
    BY <2>1
  <2> QED  BY <1>9, <2>1, <2>2 DEF n
<1>11. counts[Overflow] * 2 * top \in Nat
  <2> HIDE DEF top
  <2> QED  BY <1>9
<1>12. /\ TwiceSum(counts) = SumFunctionOnSet(f, B) + counts[Overflow] * 2 * top
       /\ TwiceSum(more) = SumFunctionOnSet(g, B) + more[Overflow] * 2 * top
  BY DEF TwiceSum
<1>13. k \in B <=> k # Overflow
  OBVIOUS
<1>14. k = Overflow => w[k] = top
  OBVIOUS
<1>15. TwiceCharge(k) = IF k = Overflow THEN 2 * w[k] ELSE 3 * w[k]
  BY DEF TwiceCharge
<1> DEFINE sf == SumFunctionOnSet(f, B)
           sg == SumFunctionOnSet(g, B)
           nf == counts[Overflow] * 2 * top
           ng == more[Overflow] * 2 * top
<1>16. /\ sf \in Nat /\ nf \in Nat /\ w[k] \in Nat /\ top \in Nat
       /\ sg = sf + IF k \in B THEN 3 * w[k] ELSE 0
       /\ ng = nf + IF k = Overflow THEN 2 * top ELSE 0
       /\ TwiceSum(counts) = sf + nf /\ TwiceSum(more) = sg + ng
  BY <1>1, <1>7, <1>8, <1>9, <1>10, <1>11, <1>12
<1> QED
  <2> HIDE DEF sf, sg, nf, ng, B, top, w
  <2> QED  BY <1>13, <1>14, <1>15, <1>16
------------------------------------------------------------------------------
(***************************************************************************)
(* A step counts at most one latency, in the bucket of that latency.       *)
(***************************************************************************)
SamplesOK == samples \in [Series -> [Latencies -> Nat]]

CountsOne(k, lat) ==
    /\ runq_histograms' = Bump(runq_histograms, k)
    /\ samples' = [samples EXCEPT ![SeriesOf(k)][lat] = @ + 1]

LEMMA CountsAtMostOne ==
    ASSUME TypeOK, CarriesPlausible, [ExportNext]_<<vars, samples>>
    PROVE  \/ UNCHANGED <<runq_histograms, samples>>
           \/ \E k \in Keys, lat \in Latencies :
                 NsPerUs <= lat /\ k.bucket = get_hist_bucket(lat) /\ CountsOne(k, lat)
<1>0. /\ handler \in [CPUs -> Handlers \cup {None}]
      /\ \A c \in CPUs : handler[c] # None => handler[c].key \in Keys /\ handler[c].lat \in Nat
  BY DEF TypeOK, Handlers
<1>1. CASE UNCHANGED <<vars, samples>>
  BY <1>1 DEF vars, mapVars
<1>2. CASE ExportNext /\ UNCHANGED runq_histograms
  <2>1. Counted = {}
    <3> SUFFICES ASSUME NEW c \in Counted PROVE FALSE
      OBVIOUS
    <3>1. handler[c] # None /\ handler[c].key \in Keys /\ c \in CPUs
      BY <1>0 DEF Counted
    <3>2. runq_histograms[handler[c].key] \in Nat
      BY <3>1 DEF TypeOK
    <3> QED  BY <1>2, <3>2 DEF Counted
  <2> QED  BY <1>2, <2>1 DEF ExportNext
<1>3. CASE ExportNext /\ ~UNCHANGED runq_histograms
  <2>1. PICK c \in CPUs : HistAdd(c) \/ HistInsert(c)
    BY <1>3
    DEF ExportNext, Next, Tick, Fork, Wakeup, SpuriousWakeup, Switch, MissedSwitch, ContextSwitch,
        SwitchToIdle, Exit, Handler, MaxCompare, MaxStore, HistLookup, mapVars
  <2> DEFINE k == handler[c].key
             lat == handler[c].lat
  <2>2. /\ handler[c] # None /\ k \in Keys /\ lat \in Nat
        /\ handler \in [CPUs -> Handlers \cup {None}]
        /\ handler' = [handler EXCEPT ![c] = None]
    BY <1>0, <2>1 DEF HistAdd, HistInsert, At, Return
  <2>3. /\ Plausible(lat) /\ k.bucket = get_hist_bucket(lat)
    BY <2>2 DEF CarriesPlausible
  <2>4. lat \in Latencies /\ NsPerUs <= lat
    BY <2>2, <2>3, NumbersAssumption, ThresholdAssumption DEF Plausible, Latencies
  <2>5. runq_histograms[k] \in Nat /\ runq_histograms' = [runq_histograms EXCEPT ![k] = @ + 1]
    BY <1>3, <2>1, <2>2 DEF HistAdd, HistInsert, Bump, TypeOK
  <2>6. runq_histograms'[k] = runq_histograms[k] + 1
    BY <2>2, <2>5 DEF TypeOK
  <2>7. Counted = {c}
    <3>1. handler'[c] = None /\ \A d \in CPUs : d # c => handler'[d] = handler[d]
      BY <2>2
    <3>2. c \in Counted
      BY <2>2, <2>5, <2>6, <3>1 DEF Counted
    <3>3. \A d \in Counted : d = c
      BY <3>1 DEF Counted
    <3> QED  BY <3>2, <3>3
  <2>8. samples' = [samples EXCEPT ![SeriesOf(k)][lat] = @ + 1]
    BY <1>3, <2>7 DEF ExportNext
  <2>9. CountsOne(k, lat)
    BY <2>5, <2>8 DEF CountsOne, Bump
  <2> HIDE DEF k, lat
  <2> QED  BY <2>2, <2>3, <2>4, <2>9
<1> QED  BY <1>1, <1>2, <1>3

\* What the step does to the counts and the samples of one series.
LEMMA SeriesStep ==
    ASSUME TypeOK, SamplesOK, NEW k \in Keys, NEW lat \in Latencies, CountsOne(k, lat),
           NEW s \in Series
    PROVE  /\ Counts(s) \in [Buckets -> Nat] /\ Counts(s)' \in [Buckets -> Nat]
           /\ samples[s] \in [Latencies -> Nat]
           /\ s # SeriesOf(k) => Counts(s)' = Counts(s) /\ samples'[s] = samples[s]
           /\ s = SeriesOf(k) =>
                 /\ OneMore(Counts(s), Counts(s)', k.bucket)
                 /\ samples'[s] = [samples[s] EXCEPT ![lat] = @ + 1]
<1> DEFINE key(b) == [cgroup_id |-> s[1], prev_cgroup_id |-> s[2], bucket |-> b]
<1>0. /\ runq_histograms \in [Keys -> Nat]
      /\ runq_histograms' = [runq_histograms EXCEPT ![k] = @ + 1]
      /\ samples \in [Series -> [Latencies -> Nat]]
      /\ samples' = [samples EXCEPT ![SeriesOf(k)][lat] = @ + 1]
  BY DEF TypeOK, SamplesOK, CountsOne, Bump
<1>1. s = <<s[1], s[2]>> /\ s[1] \in Cgroups /\ s[2] \in Cgroups \cup {Root}
  BY DEF Series
<1>2. \A b \in Buckets : key(b) \in Keys
  BY <1>1 DEF Keys
<1>3. /\ k = [cgroup_id |-> k.cgroup_id, prev_cgroup_id |-> k.prev_cgroup_id,
              bucket |-> k.bucket]
      /\ k.bucket \in Buckets
  BY DEF Keys
<1>4. SeriesOf(k) \in Series /\ SeriesOf(k) = <<k.cgroup_id, k.prev_cgroup_id>>
  BY DEF SeriesOf, Series, Keys
<1>5. \A b \in Buckets : key(b) = k <=> s = SeriesOf(k) /\ b = k.bucket
  BY <1>1, <1>3, <1>4
<1>6. \A b \in Buckets : Counts(s)[b] = runq_histograms[key(b)]
                       /\ Counts(s)'[b] = runq_histograms'[key(b)]
  BY DEF Counts
<1>7. \A j \in Keys : runq_histograms[j] \in Nat
                    /\ runq_histograms'[j] = runq_histograms[j] + IF j = k THEN 1 ELSE 0
  BY <1>0
<1>8. Counts(s) = [b \in Buckets |-> Counts(s)[b]] /\ Counts(s)' = [b \in Buckets |-> Counts(s)'[b]]
  BY DEF Counts
<1>9. \A b \in Buckets :
          /\ Counts(s)[b] \in Nat
          /\ Counts(s)'[b] = Counts(s)[b] + IF s = SeriesOf(k) /\ b = k.bucket THEN 1 ELSE 0
  <2> HIDE DEF key
  <2> QED  BY <1>2, <1>5, <1>6, <1>7
<1> DEFINE old == Counts(s)
           new == Counts(s)'
<1>10. /\ old \in [Buckets -> Nat] /\ new \in [Buckets -> Nat]
       /\ s # SeriesOf(k) => new = old
       /\ s = SeriesOf(k) => OneMore(old, new, k.bucket)
  <2>1. /\ old = [b \in Buckets |-> old[b]] /\ new = [b \in Buckets |-> new[b]]
        /\ \A b \in Buckets :
              /\ old[b] \in Nat
              /\ new[b] = old[b] + IF s = SeriesOf(k) /\ b = k.bucket THEN 1 ELSE 0
    BY <1>8, <1>9
  <2> HIDE DEF old, new
  <2> QED  BY <2>1 DEF OneMore
<1>11. /\ samples[s] \in [Latencies -> Nat]
       /\ s # SeriesOf(k) => samples'[s] = samples[s]
       /\ s = SeriesOf(k) => samples'[s] = [samples[s] EXCEPT ![lat] = @ + 1]
  BY <1>0, <1>4
<1> QED  BY <1>10, <1>11
------------------------------------------------------------------------------
(***************************************************************************)
(* The invariant: both sides of ExportExact and of SumWithinHalf grow by   *)
(* what the one latency is worth.                                          *)
(***************************************************************************)
BucketsMatch(s, c) ==
    /\ \A b \in Buckets :
          CumulBuckets(c)[b] = SumFunctionOnSet(s, {l \in Latencies : l < bucketBoundsNs[b]})
    /\ TotalCount(c) =
          SumFunctionOnSet(s, {l \in Latencies : l < MAX_PLAUSIBLE_RUNQ_LAT_NS + 1})

RealSum(s) == SumFunctionOnSet([l \in Latencies |-> l * s[l]], Latencies)

SumNear(s, c) ==
    /\ TwiceSum(c) <= 3 * RealSum(s)
    /\ c[Overflow] = 0 => 2 * TwiceSum(c) >= 3 * RealSum(s)

ExportInv ==
    /\ PlausibleInv
    /\ SamplesOK
    /\ \A s \in Series : BucketsMatch(samples[s], Counts(s)) /\ SumNear(samples[s], Counts(s))

LEMMA LatenciesFinite == \A S : S \in SUBSET Latencies => IsFiniteSet(S)
<1>1. IsFiniteSet(Latencies)
  <2>1. 0 \in Int /\ MAX_PLAUSIBLE_RUNQ_LAT_NS \in Int
    BY NumbersAssumption
  <2> QED  BY <2>1, FS_Interval DEF Latencies
<1> QED  BY <1>1, FS_Subset

OneSample(s, t, lat) == t = [s EXCEPT ![lat] = @ + 1]

\* How one more sample shows below a bound and in the real sum.
LEMMA SamplesRaised ==
    ASSUME NEW s \in [Latencies -> Nat], NEW t, NEW lat \in Latencies,
           OneSample(s, t, lat)
    PROVE  /\ \A S \in SUBSET Latencies :
                 SumFunctionOnSet(t, S) = SumFunctionOnSet(s, S) + IF lat \in S THEN 1 ELSE 0
           /\ RealSum(s) \in Nat
           /\ RealSum(t) = RealSum(s) + lat
<1>1. ASSUME NEW S \in SUBSET Latencies
      PROVE  SumFunctionOnSet(t, S) = SumFunctionOnSet(s, S) + IF lat \in S THEN 1 ELSE 0
  <2>1. IsRaised(s, t, S, lat, 1)
    BY DEF IsRaised, OneSample
  <2>2. 1 \in Nat /\ IsFiniteSet(S)
    BY LatenciesFinite
  <2> QED  BY <2>1, <2>2, SumRaised
<1> DEFINE f == [l \in Latencies |-> l * s[l]]
           g == [l \in Latencies |-> l * t[l]]
<1>2. lat \in Nat /\ \A l \in Latencies : l \in Nat
  BY NumbersAssumption DEF Latencies
<1>3. \A l \in Latencies : f[l] \in Nat
  <2>1. \A l \in Latencies : l * s[l] \in Nat
    BY <1>2
  <2> QED  BY <2>1
<1>4. IsRaised(f, g, Latencies, lat, lat)
  <2> SUFFICES ASSUME NEW l \in Latencies
               PROVE  g[l] = f[l] + IF l = lat THEN lat ELSE 0
    BY <1>3 DEF IsRaised
  <2>1. s[l] \in Nat /\ l \in Nat /\ t[l] = s[l] + IF l = lat THEN 1 ELSE 0
    BY <1>2 DEF OneSample
  <2>2. l * (s[l] + 1) = l * s[l] + l /\ l * s[l] \in Nat
    BY <2>1
  <2>3. l * t[l] = l * s[l] + IF l = lat THEN lat ELSE 0
    BY <2>1, <2>2
  <2> QED  BY <2>3
<1>5. IsFiniteSet(Latencies)
  BY LatenciesFinite
<1>6. SumFunctionOnSet(f, Latencies) \in Nat
  <2> HIDE DEF f
  <2> QED  BY <1>3, <1>5, SumType
<1>7. SumFunctionOnSet(g, Latencies) = SumFunctionOnSet(f, Latencies) + lat
  <2> HIDE DEF f, g
  <2> QED  BY <1>2, <1>4, <1>5, SumRaised
<1> QED  BY <1>1, <1>6, <1>7 DEF RealSum

LEMMA BucketsKept ==
    ASSUME NEW s \in [Latencies -> Nat], NEW t, NEW lat \in Latencies, NsPerUs <= lat,
           OneSample(s, t, lat),
           NEW c \in [Buckets -> Nat], NEW d \in [Buckets -> Nat],
           OneMore(c, d, get_hist_bucket(lat)), BucketsMatch(s, c)
    PROVE  BucketsMatch(t, d)
<1> DEFINE k == get_hist_bucket(lat)
           below(n) == {l \in Latencies : l < n}
           top == MAX_PLAUSIBLE_RUNQ_LAT_NS + 1
<1>0. k \in Buckets /\ lat \in Nat
  BY BucketType, NumbersAssumption DEF Latencies
<1>1. /\ \A b \in Buckets : CumulBuckets(d)[b] = CumulBuckets(c)[b] + IF k < b THEN 1 ELSE 0
      /\ TotalCount(d) = TotalCount(c) + 1
  <2> HIDE DEF k
  <2>1. OneMore(c, d, k)
    BY DEF k
  <2> QED  BY <1>0, <2>1, CumulRaised
<1>2. ASSUME NEW n
      PROVE  SumFunctionOnSet(t, below(n))
               = SumFunctionOnSet(s, below(n)) + IF lat \in below(n) THEN 1 ELSE 0
  <2>1. below(n) \in SUBSET Latencies
    OBVIOUS
  <2> HIDE DEF below
  <2> QED  BY <2>1, SamplesRaised
<1>3. ASSUME NEW b \in Buckets
      PROVE  CumulBuckets(d)[b] = SumFunctionOnSet(t, below(bucketBoundsNs[b]))
  <2>1. k < b <=> lat < bucketBoundsNs[b]
    <3>1. b <= k <=> bucketBoundsNs[b] <= lat
      BY <1>0, BucketReached
    <3>2. k \in Nat /\ b \in Nat /\ bucketBoundsNs[b] \in Nat
      BY <1>0, BoundsDouble, NumbersAssumption DEF Buckets
    <3> HIDE DEF k
    <3> QED  BY <1>0, <3>1, <3>2
  <2>2. lat \in below(bucketBoundsNs[b]) <=> k < b
    BY <2>1
  <2>3. CumulBuckets(c)[b] = SumFunctionOnSet(s, below(bucketBoundsNs[b]))
    BY DEF BucketsMatch
  <2> HIDE DEF k, below
  <2> QED  BY <1>1, <1>2, <2>2, <2>3
<1>4. TotalCount(d) = SumFunctionOnSet(t, below(top))
  <2>1. lat \in below(top)
    BY <1>0, NumbersAssumption DEF Latencies
  <2>2. TotalCount(c) = SumFunctionOnSet(s, below(top))
    BY DEF BucketsMatch
  <2> HIDE DEF below, top
  <2> QED  BY <1>1, <1>2, <2>1, <2>2
<1> QED  BY <1>3, <1>4 DEF BucketsMatch

LEMMA SumKept ==
    ASSUME NEW s \in [Latencies -> Nat], NEW t, NEW lat \in Latencies, NsPerUs <= lat,
           OneSample(s, t, lat),
           NEW c \in [Buckets -> Nat], NEW d \in [Buckets -> Nat],
           OneMore(c, d, get_hist_bucket(lat)), SumNear(s, c)
    PROVE  SumNear(t, d)
<1> DEFINE k == get_hist_bucket(lat)
           w == bucketBoundsNs[k]
           charge == TwiceCharge(k)
<1>0. k \in Buckets /\ lat \in Nat
  BY BucketType, NumbersAssumption DEF Latencies
<1>1. OneMore(c, d, k)
  OBVIOUS
<1>2. /\ TwiceSum(c) \in Nat
      /\ TwiceSum(d) = TwiceSum(c) + charge
  <2> HIDE DEF k
  <2> QED  BY <1>0, <1>1, TwiceSumRaised
<1>3. RealSum(s) \in Nat /\ RealSum(t) = RealSum(s) + lat
  BY SamplesRaised
<1>4. w \in Nat /\ w <= lat
  <2>1. k \in Nat
    BY <1>0, NumbersAssumption DEF Buckets
  <2>2. k <= k <=> w <= lat
    BY <1>0, BucketReached
  <2>3. w \in Nat
    BY <1>0, BoundsDouble
  <2> HIDE DEF k, w
  <2> QED  BY <2>1, <2>2, <2>3
<1>5. charge = IF k = Overflow THEN 2 * w ELSE 3 * w
  BY DEF TwiceCharge
<1>6. /\ Overflow \in Buckets /\ c[Overflow] \in Nat
      /\ d[Overflow] = c[Overflow] + IF Overflow = k THEN 1 ELSE 0
  BY NumbersAssumption DEF Overflow, Buckets, OneMore
<1>7. k # Overflow => lat < 2 * w
  <2> SUFFICES ASSUME k # Overflow PROVE lat < 2 * w
    OBVIOUS
  <2> DEFINE n == k + 1
  <2>1. n \in Buckets \ {0} /\ n - 1 = k /\ k \in Nat /\ n > k
    <3> HIDE DEF k
    <3> QED  BY <1>0, NumbersAssumption DEF Buckets, Overflow
  <2>2. n <= k <=> bucketBoundsNs[n] <= lat
    <3> HIDE DEF n
    <3> QED  BY <1>0, <2>1, BucketReached
  <2>3. bucketBoundsNs[n] = 2 * w
    <3>1. \A e \in Buckets \ {0} : bucketBoundsNs[e] = 2 * bucketBoundsNs[e - 1]
      BY BoundsDouble
    <3> HIDE DEF k, n
    <3>2. bucketBoundsNs[n] = 2 * bucketBoundsNs[k]
      BY <2>1, <3>1
    <3> QED  BY <3>2
  <2> HIDE DEF k, n, w
  <2> QED  BY <1>0, <1>4, <2>1, <2>2, <2>3
<1> DEFINE x == TwiceSum(c)
           y == RealSum(s)
<1>8. x <= 3 * y /\ (c[Overflow] = 0 => 2 * x >= 3 * y)
  BY DEF SumNear
<1>9. TwiceSum(d) = x + charge /\ RealSum(t) = y + lat /\ x \in Nat /\ y \in Nat
  BY <1>2, <1>3
<1> HIDE DEF k, w, charge, x, y
<1>10. TwiceSum(d) <= 3 * RealSum(t)
  BY <1>0, <1>4, <1>5, <1>8, <1>9
<1>11. d[Overflow] = 0 => 2 * TwiceSum(d) >= 3 * RealSum(t)
  BY <1>0, <1>4, <1>5, <1>6, <1>7, <1>8, <1>9
<1> QED  BY <1>10, <1>11 DEF SumNear

LEMMA ExportNextKeeps ==
    ExportInv /\ [ExportNext]_<<vars, samples>> => ExportInv'
<1> SUFFICES ASSUME ExportInv, [ExportNext]_<<vars, samples>> PROVE ExportInv'
  OBVIOUS
<1>0. TypeOK /\ CarriesPlausible /\ SamplesOK /\ PlausibleInv
  BY DEF ExportInv, PlausibleInv
<1>1. PlausibleInv'
  <2>1. [Next]_vars
    BY DEF ExportNext
  <2> QED  BY <1>0, <2>1, PlausibleNext
<1>2. CASE UNCHANGED <<runq_histograms, samples>>
  <2>1. \A s \in Series : Counts(s)' = Counts(s) /\ samples'[s] = samples[s]
    BY <1>2 DEF Counts
  <2> QED  BY <1>0, <1>1, <1>2, <2>1 DEF ExportInv, SamplesOK
<1>3. ASSUME NEW k \in Keys, NEW lat \in Latencies,
             NsPerUs <= lat, k.bucket = get_hist_bucket(lat), CountsOne(k, lat)
      PROVE  ExportInv'
  <2>1. SamplesOK'
    <3>1. SeriesOf(k) \in Series
      BY DEF SeriesOf, Series, Keys
    <3>2. [samples[SeriesOf(k)] EXCEPT ![lat] = @ + 1] \in [Latencies -> Nat]
      BY <1>0, <3>1 DEF SamplesOK
    <3> QED  BY <1>0, <1>3, <3>1, <3>2 DEF SamplesOK, CountsOne
  <2>2. ASSUME NEW s \in Series
        PROVE  BucketsMatch(samples'[s], Counts(s)') /\ SumNear(samples'[s], Counts(s)')
    <3> DEFINE c == Counts(s)
               d == Counts(s)'
               x == samples[s]
               y == samples'[s]
    <3>1. /\ c \in [Buckets -> Nat] /\ d \in [Buckets -> Nat] /\ x \in [Latencies -> Nat]
          /\ s # SeriesOf(k) => d = c /\ y = x
          /\ s = SeriesOf(k) =>
                OneMore(c, d, get_hist_bucket(lat)) /\ OneSample(x, y, lat)
      BY <1>0, <1>3, SeriesStep DEF OneSample
    <3>2. BucketsMatch(x, c) /\ SumNear(x, c)
      BY DEF ExportInv
    <3> HIDE DEF c, d, x, y
    <3>3. BucketsMatch(y, d) /\ SumNear(y, d)
      BY <1>3, <3>1, <3>2, BucketsKept, SumKept
    <3> QED  BY <3>3 DEF d, y
  <2> QED  BY <1>1, <2>1, <2>2 DEF ExportInv
<1> QED  BY <1>0, <1>2, <1>3, CountsAtMostOne

LEMMA ExportInvInit == ExportInit => ExportInv
<1> SUFFICES ASSUME ExportInit PROVE ExportInv
  OBVIOUS
<1>1. PlausibleInv
  BY PlausibleInit DEF ExportInit
<1>2. SamplesOK /\ \A s \in Series, l \in Latencies : samples[s][l] = 0
  BY DEF SamplesOK, ExportInit
<1>3. ASSUME NEW s \in Series
      PROVE  BucketsMatch(samples[s], Counts(s)) /\ SumNear(samples[s], Counts(s))
  <2> DEFINE c == Counts(s)
             x == samples[s]
             B == Buckets \ {Overflow}
             zero == [b \in B |-> c[b] * TwiceMid(b)]
             real == [l \in Latencies |-> l * x[l]]
  <2>0. Overflow \in Buckets /\ Buckets = 0 .. NUM_BUCKETS - 1 /\ NUM_BUCKETS - 1 \in Nat
    BY NumbersAssumption DEF Overflow, Buckets
  <2>1. c = [b \in Buckets |-> 0]
    <3>1. \A b \in Buckets :
              [cgroup_id |-> s[1], prev_cgroup_id |-> s[2], bucket |-> b] \in Keys
      BY DEF Series, Keys
    <3>2. runq_histograms = [k \in Keys |-> 0]
      BY DEF ExportInit, Init
    <3> QED  BY <3>1, <3>2 DEF Counts
  <2>2. \A l \in Latencies : x[l] = 0 /\ l \in Nat
    BY <1>2, NumbersAssumption DEF Latencies
  <2>3. \A S \in SUBSET Latencies : SumFunctionOnSet(x, S) = 0
    <3> HIDE DEF x
    <3> QED  BY <2>2, LatenciesFinite, SumZero
  <2>4. \A b \in Buckets : CumulBuckets(c)[b] = 0
    <3> DEFINE v == CumulBuckets(c)
               S == {b \in Buckets : v[b] = 0}
    <3>1. v[0] = 0 /\ \A b \in Buckets \ {0} : v[b] = v[b - 1] + c[b - 1]
      <4>1. c \in [Buckets -> Nat]
        BY <2>1
      <4> HIDE DEF c
      <4> QED  BY <4>1, CumulStep
    <3>2. \A b \in Buckets \ {0} : c[b - 1] = 0
      BY <2>0, <2>1
    <3> HIDE DEF v
    <3>3. 0 \in S
      BY <2>0, <3>1
    <3>4. ASSUME NEW b \in Buckets \ {0}, b - 1 \in S PROVE b \in S
      BY <3>1, <3>2, <3>4
    <3>5. \A b \in Buckets : b \in S
      <4> HIDE DEF S
      <4> QED  BY <3>3, <3>4, BucketInduction
    <3> QED  BY <3>5 DEF v
  <2>5. TotalCount(c) = 0 /\ c[Overflow] = 0
    BY <2>0, <2>1, <2>4 DEF TotalCount
  <2>6. TwiceSum(c) = 0
    <3>1. IsFiniteSet(B)
      <4>1. IsFiniteSet(Buckets)
        BY <2>0, FS_Interval
      <4> QED  BY <4>1, FS_Subset
    <3>2. \A b \in B : zero[b] = 0
      <4> SUFFICES ASSUME NEW b \in B PROVE c[b] * TwiceMid(b) = 0
        OBVIOUS
      <4>1. b + 1 \in Buckets /\ b \in Buckets
        BY <2>0 DEF Overflow
      <4>2. TwiceMid(b) \in Nat
        BY <4>1, BoundsDouble DEF TwiceMid
      <4> QED  BY <2>1, <4>1, <4>2
    <3>3. SumFunctionOnSet(zero, B) = 0
      <4> HIDE DEF zero, B
      <4> QED  BY <3>1, <3>2, SumZero
    <3>4. bucketBoundsNs[Overflow] \in Nat
      BY <2>0, BoundsDouble
    <3>5. c[Overflow] * 2 * bucketBoundsNs[Overflow] = 0
      BY <2>5, <3>4
    <3>6. TwiceSum(c) = SumFunctionOnSet(zero, B) + c[Overflow] * 2 * bucketBoundsNs[Overflow]
      BY DEF TwiceSum
    <3> QED  BY <3>3, <3>5, <3>6
  <2>7. RealSum(x) = 0
    <3>1. \A l \in Latencies : real[l] = 0
      <4>1. \A l \in Latencies : l * x[l] = 0
        BY <2>2
      <4> QED  BY <4>1
    <3>2. IsFiniteSet(Latencies)
      BY LatenciesFinite
    <3>3. SumFunctionOnSet(real, Latencies) = 0
      <4> HIDE DEF real
      <4> QED  BY <3>1, <3>2, SumZero
    <3> QED  BY <3>3 DEF RealSum
  <2>8. BucketsMatch(x, c)
    <3>1. \A n : {l \in Latencies : l < n} \in SUBSET Latencies
      OBVIOUS
    <3> HIDE DEF x, c
    <3> QED  BY <2>3, <2>4, <2>5, <3>1 DEF BucketsMatch
  <2>9. SumNear(x, c)
    <3> HIDE DEF x, c
    <3> QED  BY <2>6, <2>7 DEF SumNear
  <2> QED  BY <2>8, <2>9
<1> QED  BY <1>1, <1>2, <1>3 DEF ExportInv

\* Each exported bucket holds exactly the recorded latencies below its bound, and
\* the count holds all of them, whatever the number of buckets.
THEOREM BucketsExact == ExportSpec => []ExportExact
<1>1. ExportInv => ExportExact
  BY DEF ExportInv, BucketsMatch, ExportExact, Below
<1> QED  BY <1>1, ExportInvInit, ExportNextKeeps, PTL DEF ExportSpec

\* The exported sum is at most half too large, and at most a quarter too small
\* when nothing overflowed.
THEOREM SumBounded == ExportSpec => []SumWithinHalf
<1>1. ExportInv => SumWithinHalf
  BY DEF ExportInv, SumNear, RealSum, SumWithinHalf
<1> QED  BY <1>1, ExportInvInit, ExportNextKeeps, PTL DEF ExportSpec
==============================================================================
