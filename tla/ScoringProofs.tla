--------------------------- MODULE ScoringProofs ---------------------------
(***************************************************************************)
(* What the z-score filters keep and who wins, for any number of          *)
(* providers, any scores and any tau: the invariants of Scoring.           *)
(***************************************************************************)
EXTENDS Scoring, FiniteSetTheorems, TLAPS

-----------------------------------------------------------------------------
(* Finite sets *)

\* Induction over the subsets of a finite set.
LEMMA SubsetInduction ==
    ASSUME NEW S, IsFiniteSet(S), NEW Good,
           \A T \in SUBSET S : (\A U \in SUBSET T : U # T => U \in Good) => T \in Good
    PROVE  S \in Good
  <1> DEFINE Bad == {T \in SUBSET S : T \notin Good}
  <1>1. Bad = {}
    <2> SUFFICES ASSUME Bad # {} PROVE FALSE
      OBVIOUS
    <2>1. Bad \subseteq SUBSET S /\ IsWellFoundedOn(StrictSubsetOrdering(S), SUBSET S)
      <3>1. FiniteSubsetsOf(S) = SUBSET S
        BY FS_FiniteSubsetsOfFinite
      <3>2. IsWellFoundedOn(StrictSubsetOrdering(S), FiniteSubsetsOf(S))
        BY FS_StrictSubsetOrderingWellFounded
      <3> QED
        BY <3>1, <3>2, Zenon
    <2>2. PICK T \in Bad : \A U \in Bad : ~(<<U, T>> \in StrictSubsetOrdering(S))
      <3> HIDE DEF Bad
      <3> QED
        BY <2>1, WFMin
    <2>3. \A U \in SUBSET T : U # T => U \in Good
      BY <2>2 DEF StrictSubsetOrdering
    <2> QED
      BY <2>3
  <1> QED
    BY <1>1

\* The same, one element at a time.
LEMMA ElementInduction ==
    ASSUME NEW S, IsFiniteSet(S), NEW Good, {} \in Good,
           \A T \in SUBSET S : \A x \in T : T \ {x} \in Good => T \in Good
    PROVE  S \in Good
  <1>1. ASSUME NEW T \in SUBSET S, \A U \in SUBSET T : U # T => U \in Good
        PROVE  T \in Good
    <2>1. CASE T = {}
      BY <2>1
    <2>2. ASSUME NEW x \in T PROVE T \in Good
      <3>1. T \ {x} \in Good
        BY <1>1, <2>2
      <3> QED
        BY <3>1
    <2> QED
      BY <2>1, <2>2
  <1> QED
    BY <1>1, SubsetInduction

-----------------------------------------------------------------------------
(* Sums over finite sets *)

Pick(s) == CHOOSE x \in s : TRUE

\* The function SumFunctionOnSet(f, S) chooses.
IsSum(it, f, S) ==
    it = [s \in SUBSET S |-> IF s = {} THEN 0 ELSE f[Pick(s)] + it[s \ {Pick(s)}]]

LEMMA SumUnfolds ==
    ASSUME NEW f, NEW S
    PROVE  SumFunctionOnSet(f, S) = (CHOOSE it : IsSum(it, f, S))[S]
  BY DEF SumFunctionOnSet, FoldFunctionOnSet, MapThenFoldSet, IsSum, Pick

Sum(f, S) == SumFunctionOnSet(f, S)
Sums(f, S) == [s \in SUBSET S |-> Sum(f, s)]

\* There is one such function: the one of the sums.
LEMMA OneSum ==
    ASSUME NEW f, NEW S, IsFiniteSet(S)
    PROVE  \A it : IsSum(it, f, S) <=> it = Sums(f, S)
  <1> DEFINE Good == {T \in SUBSET S : \A it : IsSum(it, f, T) <=> it = Sums(f, T)}
  <1>1. ASSUME NEW T \in SUBSET S, \A U \in SUBSET T : U # T => U \in Good
        PROVE  T \in Good
    <2>1. \A U \in SUBSET T : U # T => IsSum(Sums(f, U), f, U)
      BY <1>1
    <2>2. ASSUME NEW U \in SUBSET T, U # T
          PROVE  Sum(f, U) = IF U = {} THEN 0 ELSE f[Pick(U)] + Sum(f, U \ {Pick(U)})
      <3>1. Sums(f, U) = [s \in SUBSET U |-> IF s = {} THEN 0
                           ELSE f[Pick(s)] + Sums(f, U)[s \ {Pick(s)}]]
        BY <2>1, <2>2 DEF IsSum
      <3>2. Sums(f, U)[U] = IF U = {} THEN 0 ELSE f[Pick(U)] + Sums(f, U)[U \ {Pick(U)}]
        BY <3>1
      <3>3. \A s \in SUBSET U : Sums(f, U)[s] = Sum(f, s)
        BY DEF Sums
      <3> QED
        BY <3>2, <3>3
    <2> DEFINE k == [s \in SUBSET T |-> IF s = T /\ T # {}
                       THEN f[Pick(T)] + Sum(f, T \ {Pick(T)})
                       ELSE IF s = {} THEN 0 ELSE Sum(f, s)]
    <2>3. \A s \in SUBSET T : s # {} => Pick(s) \in s /\ s \ {Pick(s)} # T
      BY DEF Pick
    <2>4. \A s \in SUBSET T : k[s] = IF s = {} THEN 0 ELSE f[Pick(s)] + k[s \ {Pick(s)}]
      <3> SUFFICES ASSUME NEW s \in SUBSET T, s # {}
                   PROVE  k[s] = f[Pick(s)] + k[s \ {Pick(s)}]
        OBVIOUS
      <3>1. s \ {Pick(s)} # T /\ s \ {Pick(s)} \in SUBSET T
        BY <2>3
      <3>2. k[s \ {Pick(s)}] = Sum(f, s \ {Pick(s)})
        BY <2>2, <3>1
      <3> QED
        BY <2>2, <3>2
    <2>5. IsSum(k, f, T)
      <3> HIDE DEF k
      <3>1. k = [s \in SUBSET T |-> k[s]]
        BY DEF k
      <3> QED
        BY <2>4, <3>1 DEF IsSum
    <2>6. ASSUME NEW it, IsSum(it, f, T) PROVE it = k
      <3>1. it = [s \in SUBSET T |-> it[s]]
        BY <2>6 DEF IsSum
      <3>2. \A s \in SUBSET T : it[s] = IF s = {} THEN 0 ELSE f[Pick(s)] + it[s \ {Pick(s)}]
        BY <2>6 DEF IsSum
      <3>3. ASSUME NEW U \in SUBSET T, U # T PROVE it[U] = Sum(f, U)
        <4> DEFINE r == [s \in SUBSET U |-> it[s]]
        <4>1. IsSum(r, f, U)
          <5>1. \A s \in SUBSET U : r[s] = IF s = {} THEN 0 ELSE f[Pick(s)] + r[s \ {Pick(s)}]
            BY <3>2
          <5>2. r = [s \in SUBSET U |-> r[s]]
            OBVIOUS
          <5> HIDE DEF r
          <5> QED
            BY <5>1, <5>2 DEF IsSum
        <4>2. r = Sums(f, U)
          BY <1>1, <3>3, <4>1
        <4>3. r[U] = it[U] /\ Sums(f, U)[U] = Sum(f, U)
          BY DEF Sums
        <4> QED
          BY <4>2, <4>3
      <3>4. \A s \in SUBSET T : it[s] = k[s]
        <4>1. CASE T = {}
          BY <3>2, <4>1
        <4>2. CASE T # {}
          <5>1. it[T] = f[Pick(T)] + Sum(f, T \ {Pick(T)})
            BY <2>3, <3>2, <3>3, <4>2
          <5> QED
            BY <2>2, <3>3, <4>2, <5>1
        <4> QED
          BY <4>1, <4>2
      <3> QED
        BY <3>1, <3>4
    <2>7. k = Sums(f, T)
      <3>1. (CHOOSE it : IsSum(it, f, T)) = k
        <4> HIDE DEF k
        <4> QED
          BY <2>5, <2>6
      <3>2. Sum(f, T) = k[T]
        BY <3>1, SumUnfolds DEF Sum
      <3>3. \A s \in SUBSET T : k[s] = Sum(f, s)
        BY <2>2, <3>2
      <3> QED
        BY <3>3 DEF Sums
    <2> HIDE DEF k
    <2> QED
      BY <2>5, <2>6, <2>7
  <1> QED
    <2> HIDE DEF Good
    <2>1. S \in Good
      BY <1>1, SubsetInduction
    <2> QED
      BY <2>1 DEF Good

LEMMA SumSteps ==
    ASSUME NEW f, NEW S, IsFiniteSet(S)
    PROVE  Sum(f, S) = IF S = {} THEN 0 ELSE f[Pick(S)] + Sum(f, S \ {Pick(S)})
  <1>1. Sums(f, S) = [s \in SUBSET S |-> IF s = {} THEN 0
                       ELSE f[Pick(s)] + Sums(f, S)[s \ {Pick(s)}]]
    BY OneSum DEF IsSum
  <1>2. Sums(f, S)[S] = IF S = {} THEN 0 ELSE f[Pick(S)] + Sums(f, S)[S \ {Pick(S)}]
    BY <1>1
  <1>3. \A s \in SUBSET S : Sums(f, S)[s] = Sum(f, s)
    BY DEF Sums
  <1> QED
    BY <1>2, <1>3

LEMMA SumEmpty == ASSUME NEW f PROVE Sum(f, {}) = 0
  BY SumSteps, FS_EmptySet

LEMMA SumType ==
    ASSUME NEW S, IsFiniteSet(S), NEW f, \A x \in S : f[x] \in Int
    PROVE  Sum(f, S) \in Int
  <1> DEFINE Good == {T \in SUBSET S : Sum(f, T) \in Int}
  <1>1. {} \in Good
    BY SumEmpty
  <1>2. ASSUME NEW T \in SUBSET S, \A U \in SUBSET T : U # T => U \in Good
        PROVE  T \in Good
    <2>1. CASE T = {}
      BY <1>1, <2>1
    <2>2. CASE T # {}
      <3>1. Pick(T) \in T
        BY <2>2 DEF Pick
      <3>2. Sum(f, T \ {Pick(T)}) \in Int
        BY <1>2, <3>1
      <3>3. Sum(f, T) = f[Pick(T)] + Sum(f, T \ {Pick(T)})
        BY <2>2, SumSteps, FS_Subset
      <3> QED
        BY <3>1, <3>2, <3>3
    <2> QED
      BY <2>1, <2>2
  <1> HIDE DEF Good
  <1>3. S \in Good
    BY <1>2, SubsetInduction
  <1> QED
    BY <1>3 DEF Good

\* Any element may be taken out of a sum.
LEMMA SumTake ==
    ASSUME NEW S, IsFiniteSet(S), NEW f, \A x \in S : f[x] \in Int
    PROVE  \A x \in S : Sum(f, S) = f[x] + Sum(f, S \ {x})
  <1> DEFINE Good == {T \in SUBSET S : \A x \in T : Sum(f, T) = f[x] + Sum(f, T \ {x})}
  <1>1. ASSUME NEW T \in SUBSET S, \A U \in SUBSET T : U # T => U \in Good, NEW x \in T
        PROVE  Sum(f, T) = f[x] + Sum(f, T \ {x})
    <2> DEFINE c == Pick(T)
    <2>1. c \in T /\ IsFiniteSet(T)
      BY FS_Subset DEF Pick
    <2>2. Sum(f, T) = f[c] + Sum(f, T \ {c})
      BY <2>1, SumSteps
    <2> HIDE DEF c
    <2>3. CASE x = c
      BY <2>2, <2>3
    <2>4. CASE x # c
      <3> DEFINE rest == Sum(f, (T \ {c}) \ {x})
      <3>1. (T \ {c}) \ {x} = (T \ {x}) \ {c}
        OBVIOUS
      <3>2. Sum(f, T \ {c}) = f[x] + rest
        BY <1>1, <2>1, <2>4
      <3>3. Sum(f, T \ {x}) = f[c] + rest
        <4>1. Sum(f, T \ {x}) = f[c] + Sum(f, (T \ {x}) \ {c})
          BY <1>1, <2>1, <2>4
        <4> QED
          BY <3>1, <4>1
      <3>4. rest \in Int
        <4>1. IsFiniteSet((T \ {c}) \ {x})
          BY <2>1, FS_Subset
        <4> QED
          BY <4>1, SumType
      <3>5. f[x] \in Int /\ f[c] \in Int
        BY <2>1
      <3> HIDE DEF rest
      <3>6. f[c] + (f[x] + rest) = f[x] + (f[c] + rest)
        BY <3>4, <3>5
      <3> QED
        BY <2>2, <3>2, <3>3, <3>6
    <2> QED
      BY <2>3, <2>4
  <1>2. ASSUME NEW T \in SUBSET S, \A U \in SUBSET T : U # T => U \in Good PROVE T \in Good
    BY <1>1, <1>2
  <1> HIDE DEF Good
  <1>3. S \in Good
    BY <1>2, SubsetInduction
  <1> QED
    BY <1>3 DEF Good

LEMMA SumAdd ==
    ASSUME NEW S, IsFiniteSet(S), NEW f, NEW g, NEW h,
           \A x \in S : f[x] \in Int /\ g[x] \in Int /\ h[x] = f[x] + g[x]
    PROVE  Sum(h, S) = Sum(f, S) + Sum(g, S)
  <1> DEFINE Good == {T \in SUBSET S : Sum(h, T) = Sum(f, T) + Sum(g, T)}
  <1>1. {} \in Good
    BY SumEmpty
  <1>2. ASSUME NEW T \in SUBSET S, NEW x \in T, T \ {x} \in Good PROVE T \in Good
    <2>1. IsFiniteSet(T) /\ IsFiniteSet(T \ {x}) /\ \A y \in S : h[y] \in Int
      BY FS_Subset
    <2>2. /\ Sum(f, T) = f[x] + Sum(f, T \ {x})
          /\ Sum(g, T) = g[x] + Sum(g, T \ {x})
          /\ Sum(h, T) = h[x] + Sum(h, T \ {x})
      BY <2>1, SumTake
    <2>3. Sum(f, T \ {x}) \in Int /\ Sum(g, T \ {x}) \in Int
      BY <2>1, SumType
    <2> QED
      BY <1>2, <2>2, <2>3
  <1> HIDE DEF Good
  <1>3. S \in Good
    BY <1>1, <1>2, ElementInduction
  <1> QED
    BY <1>3 DEF Good

LEMMA SumScale ==
    ASSUME NEW S, IsFiniteSet(S), NEW a \in Int, NEW f, NEW h,
           \A x \in S : f[x] \in Int /\ h[x] = a * f[x]
    PROVE  Sum(h, S) = a * Sum(f, S)
  <1> DEFINE Good == {T \in SUBSET S : Sum(h, T) = a * Sum(f, T)}
  <1>1. {} \in Good
    BY SumEmpty
  <1>2. ASSUME NEW T \in SUBSET S, NEW x \in T, T \ {x} \in Good PROVE T \in Good
    <2>1. IsFiniteSet(T) /\ IsFiniteSet(T \ {x}) /\ \A y \in S : h[y] \in Int
      BY FS_Subset
    <2>2. /\ Sum(f, T) = f[x] + Sum(f, T \ {x})
          /\ Sum(h, T) = h[x] + Sum(h, T \ {x})
      BY <2>1, SumTake
    <2>3. Sum(f, T \ {x}) \in Int /\ f[x] \in Int
      BY <2>1, SumType
    <2>4. \A b, c \in Int : a * (b + c) = a * b + a * c
      OBVIOUS
    <2> QED
      BY <1>2, <2>2, <2>3, <2>4
  <1> HIDE DEF Good
  <1>3. S \in Good
    BY <1>1, <1>2, ElementInduction
  <1> QED
    BY <1>3 DEF Good

\* Only the summands matter.
LEMMA SumSame ==
    ASSUME NEW S, IsFiniteSet(S), NEW f, NEW h,
           \A x \in S : f[x] \in Int /\ h[x] = f[x]
    PROVE  Sum(h, S) = Sum(f, S)
  <1>1. \A x \in S : f[x] \in Int /\ h[x] = 1 * f[x]
    OBVIOUS
  <1>2. Sum(h, S) = 1 * Sum(f, S)
    BY <1>1, SumScale
  <1> QED
    BY <1>2, SumType

\* A sum of what is not negative is not, and is positive if a summand is.
LEMMA SumPositive ==
    ASSUME NEW S, IsFiniteSet(S), NEW f, \A x \in S : f[x] \in Int /\ f[x] >= 0
    PROVE  Sum(f, S) >= 0 /\ \A x \in S : Sum(f, S) >= f[x]
  <1> DEFINE Good == {T \in SUBSET S : Sum(f, T) >= 0}
  <1>1. {} \in Good
    BY SumEmpty
  <1>2. ASSUME NEW T \in SUBSET S, NEW x \in T, T \ {x} \in Good PROVE T \in Good
    <2>1. IsFiniteSet(T) /\ IsFiniteSet(T \ {x})
      BY FS_Subset
    <2>2. Sum(f, T) = f[x] + Sum(f, T \ {x})
      BY <2>1, SumTake
    <2>3. Sum(f, T \ {x}) \in Int /\ f[x] \in Int
      BY <2>1, SumType
    <2> QED
      BY <1>2, <2>2, <2>3
  <1>3. \A T \in SUBSET S : T \in Good
    <2> SUFFICES ASSUME NEW T \in SUBSET S PROVE T \in Good
      OBVIOUS
    <2> HIDE DEF Good
    <2>1. IsFiniteSet(T)
      BY FS_Subset
    <2> QED
      BY <1>1, <1>2, <2>1, ElementInduction
  <1>4. ASSUME NEW x \in S PROVE Sum(f, S) >= f[x]
    <2>1. Sum(f, S) = f[x] + Sum(f, S \ {x})
      BY SumTake
    <2>2. Sum(f, S \ {x}) \in Int
      <3>1. IsFiniteSet(S \ {x})
        BY FS_Subset
      <3> QED
        BY <3>1, SumType
    <2>3. Sum(f, S \ {x}) >= 0
      BY <1>3
    <2> QED
      BY <2>1, <2>2, <2>3
  <1> QED
    BY <1>3, <1>4

LEMMA SumOrder ==
    ASSUME NEW S, IsFiniteSet(S), NEW f, NEW g,
           \A x \in S : f[x] \in Int /\ g[x] \in Int /\ f[x] <= g[x]
    PROVE  /\ Sum(f, S) <= Sum(g, S)
           /\ (\E x \in S : f[x] < g[x]) => Sum(f, S) < Sum(g, S)
  <1> DEFINE d == [x \in S |-> g[x] - f[x]]
  <1>1. \A x \in S : d[x] \in Int /\ d[x] >= 0 /\ g[x] = f[x] + d[x]
    OBVIOUS
  <1>2. \A x \in S : f[x] < g[x] => d[x] > 0
    OBVIOUS
  <1> HIDE DEF d
  <1>3. Sum(g, S) = Sum(f, S) + Sum(d, S)
    BY <1>1, SumAdd
  <1>4. Sum(f, S) \in Int /\ Sum(d, S) \in Int
    BY <1>1, SumType
  <1>5. Sum(d, S) >= 0 /\ \A x \in S : Sum(d, S) >= d[x]
    BY <1>1, SumPositive
  <1> QED
    BY <1>1, <1>2, <1>3, <1>4, <1>5

\* Summands of 1 count.
LEMMA SumOnes ==
    ASSUME NEW S, IsFiniteSet(S), NEW f, \A x \in S : f[x] = 1
    PROVE  Sum(f, S) = Cardinality(S)
  <1> DEFINE Good == {T \in SUBSET S : Sum(f, T) = Cardinality(T)}
  <1>1. {} \in Good
    BY SumEmpty, FS_EmptySet
  <1>2. ASSUME NEW T \in SUBSET S, NEW x \in T, T \ {x} \in Good PROVE T \in Good
    <2>1. IsFiniteSet(T) /\ IsFiniteSet(T \ {x})
      BY FS_Subset
    <2>2. Sum(f, T) = 1 + Sum(f, T \ {x})
      BY <2>1, SumTake
    <2>3. Cardinality(T \ {x}) = Cardinality(T) - 1 /\ Cardinality(T) \in Nat
      BY <2>1, FS_RemoveElement, FS_CardinalityType
    <2> QED
      BY <1>2, <2>2, <2>3
  <1> HIDE DEF Good
  <1>3. S \in Good
    BY <1>1, <1>2, ElementInduction
  <1> QED
    BY <1>3 DEF Good

-----------------------------------------------------------------------------
(* Moments *)

\* Scores x counted w times each, at least one of them.
Counted(w, x) ==
    /\ IsFiniteSet(DOMAIN w) /\ DOMAIN w # {}
    /\ \A q \in DOMAIN w : w[q] \in Nat \ {0} /\ x[q] \in Int

LEMMA ProductSigns ==
    /\ \A a, b \in Int : a * b \in Int
    /\ \A a \in Int : a * a >= 0
    /\ \A a, b \in Int : a >= 0 /\ b >= 0 => a * b >= 0
    /\ \A a, b \in Int : a > 0 /\ b > 0 => a * b > 0
  OBVIOUS

\* The terms of two of the sums.
Linear(w, x)  == [q \in DOMAIN w |-> w[q] * x[q]]
Squares(w, x) == [q \in DOMAIN w |-> w[q] * x[q] * x[q]]

LEMMA MomentsAre ==
    ASSUME NEW w, NEW x
    PROVE  /\ Moments(w, x).n = Sum(w, DOMAIN w)
           /\ Moments(w, x).sum = Sum(Linear(w, x), DOMAIN w)
           /\ Moments(w, x).spread =
                Moments(w, x).n * Sum(Squares(w, x), DOMAIN w)
                  - Moments(w, x).sum * Moments(w, x).sum
  BY DEF Moments, SumFunction, Sum, Linear, Squares

LEMMA MomentsType ==
    ASSUME NEW w, NEW x, Counted(w, x)
    PROVE  /\ Moments(w, x).n \in Nat \ {0}
           /\ \A q \in DOMAIN w : Moments(w, x).n >= w[q]
           /\ Moments(w, x).sum \in Int
           /\ Sum(Squares(w, x), DOMAIN w) \in Int
           /\ Moments(w, x).spread \in Int
  <1> DEFINE S == DOMAIN w
  <1>1. IsFiniteSet(S) /\ \A q \in S : w[q] \in Int /\ w[q] >= 0 /\ w[q] > 0 /\ x[q] \in Int
    BY DEF Counted
  <1>2. /\ \A q \in S : Linear(w, x)[q] \in Int
        /\ \A q \in S : Squares(w, x)[q] \in Int
    BY <1>1, ProductSigns DEF Linear, Squares
  <1> HIDE DEF S
  <1>3. Sum(w, S) \in Int /\ \A q \in S : Sum(w, S) >= w[q]
    BY <1>1, SumType, SumPositive
  <1>4. Sum(Linear(w, x), S) \in Int /\ Sum(Squares(w, x), S) \in Int
    BY <1>1, <1>2, SumType
  <1>5. PICK q \in S : TRUE
    BY DEF Counted, S
  <1>6. Sum(w, S) > 0
    BY <1>1, <1>3, <1>5
  <1> QED
    BY <1>3, <1>4, <1>6, MomentsAre, ProductSigns DEF S

\* The squared distances from the mean, each counted.
Deviations(w, x) ==
    [q \in DOMAIN w |-> w[q] * (Offset(Moments(w, x), x[q]) * Offset(Moments(w, x), x[q]))]

LEMMA SquareExpands ==
    \A n, s, c, v \in Int :
        c * ((n * v - s) * (n * v - s)) =
            ((n * n) * (c * v * v) + (-(2 * n * s)) * (c * v)) + (s * s) * c
  OBVIOUS

LEMMA DeviationsSum ==
    ASSUME NEW w, NEW x, Counted(w, x)
    PROVE  Sum(Deviations(w, x), DOMAIN w) = Moments(w, x).n * Moments(w, x).spread
  <1> DEFINE S == DOMAIN w
             n == Moments(w, x).n
             s == Moments(w, x).sum
             sq == Sum(Squares(w, x), S)
             a == n * n
             b == -(2 * n * s)
             c == s * s
             f == [q \in S |-> a * Squares(w, x)[q]]
             g == [q \in S |-> b * Linear(w, x)[q]]
             h == [q \in S |-> c * w[q]]
             fg == [q \in S |-> f[q] + g[q]]
  <1>1. n \in Int /\ s \in Int /\ sq \in Int /\ IsFiniteSet(S)
    BY MomentsType DEF Counted
  <1>2. \A q \in S : w[q] \in Int /\ x[q] \in Int
    BY DEF Counted
  <1>3. a \in Int /\ b \in Int /\ c \in Int
    BY <1>1, ProductSigns
  <1>4. \A q \in S : Squares(w, x)[q] \in Int /\ Linear(w, x)[q] \in Int
    BY <1>2, ProductSigns DEF Squares, Linear
  <1>5. \A q \in S : Deviations(w, x)[q] = fg[q] + h[q]
    <2> SUFFICES ASSUME NEW q \in S PROVE Deviations(w, x)[q] = fg[q] + h[q]
      OBVIOUS
    <2>1. Deviations(w, x)[q] = w[q] * ((n * x[q] - s) * (n * x[q] - s))
      BY DEF Deviations, Offset
    <2>2. fg[q] + h[q] = ((n * n) * (w[q] * x[q] * x[q]) + (-(2 * n * s)) * (w[q] * x[q]))
                           + (s * s) * w[q]
      BY DEF Squares, Linear
    <2> HIDE DEF n, s
    <2> QED
      BY <1>1, <1>2, <2>1, <2>2, SquareExpands
  <1>6. /\ \A q \in S : f[q] = a * Squares(w, x)[q] /\ g[q] = b * Linear(w, x)[q]
        /\ \A q \in S : h[q] = c * w[q] /\ fg[q] = f[q] + g[q]
    OBVIOUS
  <1>7. n = Sum(w, S) /\ s = Sum(Linear(w, x), S)
    BY MomentsAre
  <1>8. Moments(w, x).spread = n * sq - s * s
    BY MomentsAre
  <1> HIDE DEF S, f, g, h, fg, n, s, sq, a, b, c
  <1>9. \A q \in S : f[q] \in Int /\ g[q] \in Int /\ h[q] \in Int /\ fg[q] \in Int
    <2>1. \A i, j \in Int : i * j \in Int
      OBVIOUS
    <2> SUFFICES ASSUME NEW q \in S
                 PROVE  f[q] \in Int /\ g[q] \in Int /\ h[q] \in Int /\ fg[q] \in Int
      OBVIOUS
    <2>2. a * Squares(w, x)[q] \in Int /\ b * Linear(w, x)[q] \in Int /\ c * w[q] \in Int
      BY <1>2, <1>3, <1>4, <2>1
    <2> QED
      BY <1>6, <2>2
  <1>10. Sum(f, S) = a * sq
    <2>1. \A q \in S : Squares(w, x)[q] \in Int /\ f[q] = a * Squares(w, x)[q]
      BY <1>4, <1>6
    <2> QED
      BY <1>1, <1>3, <2>1, SumScale DEF sq
  <1>11. Sum(g, S) = b * s
    <2>1. \A q \in S : Linear(w, x)[q] \in Int /\ g[q] = b * Linear(w, x)[q]
      BY <1>4, <1>6
    <2>2. Sum(g, S) = b * Sum(Linear(w, x), S)
      BY <1>1, <1>3, <2>1, SumScale
    <2> QED
      BY <1>7, <2>2
  <1>12. Sum(h, S) = c * n
    <2>1. \A q \in S : w[q] \in Int /\ h[q] = c * w[q]
      BY <1>2, <1>6
    <2>2. Sum(h, S) = c * Sum(w, S)
      BY <1>1, <1>3, <2>1, SumScale
    <2> QED
      BY <1>7, <2>2
  <1>13. Sum(fg, S) = Sum(f, S) + Sum(g, S)
    BY <1>1, <1>6, <1>9, SumAdd
  <1>14. Sum(Deviations(w, x), S) = Sum(fg, S) + Sum(h, S)
    BY <1>1, <1>5, <1>9, SumAdd
  <1>15. Sum(Deviations(w, x), S) = a * sq + b * s + c * n
    BY <1>10, <1>11, <1>12, <1>13, <1>14
  <1>16. \A i, j, k \in Int : (i * i) * k + (-(2 * i * j)) * j + (j * j) * i = i * (i * k - j * j)
    OBVIOUS
  <1>17. Sum(Deviations(w, x), S) = n * (n * sq - s * s)
    BY <1>1, <1>15, <1>16 DEF a, b, c
  <1> QED
    BY <1>8, <1>17 DEF n, S

\* A variance is not negative.
LEMMA SpreadNonneg ==
    ASSUME NEW w, NEW x, Counted(w, x)
    PROVE  Moments(w, x).spread >= 0
  <1> DEFINE S == DOMAIN w
             n == Moments(w, x).n
             r == Moments(w, x).spread
             d == Deviations(w, x)
  <1>1. n \in Int /\ n > 0 /\ r \in Int /\ Moments(w, x).sum \in Int /\ IsFiniteSet(S)
    BY MomentsType DEF Counted
  <1>2. \A q \in S : d[q] \in Int /\ d[q] >= 0
    <2> SUFFICES ASSUME NEW q \in S PROVE d[q] \in Int /\ d[q] >= 0
      OBVIOUS
    <2> DEFINE o == Offset(Moments(w, x), x[q])
    <2>1. w[q] \in Int /\ w[q] >= 0 /\ x[q] \in Int
      BY DEF Counted
    <2>2. o \in Int
      BY <1>1, <2>1, ProductSigns DEF Offset
    <2>3. d[q] = w[q] * (o * o)
      BY DEF Deviations
    <2> HIDE DEF o, d
    <2>4. o * o \in Int /\ o * o >= 0
      BY <2>2, ProductSigns
    <2> QED
      BY <2>1, <2>3, <2>4, ProductSigns
  <1>3. Sum(d, S) = n * r
    BY DeviationsSum
  <1> HIDE DEF S, n, r, d
  <1>4. Sum(d, S) >= 0
    BY <1>1, <1>2, SumPositive
  <1>5. \A i, j \in Int : i > 0 /\ i * j >= 0 => j >= 0
    OBVIOUS
  <1>6. r >= 0
    BY <1>1, <1>3, <1>4, <1>5
  <1> QED
    BY <1>6 DEF r

\* Some score is at most a standard deviation off.
LEMMA SomeoneIsNear ==
    ASSUME NEW w, NEW x, Counted(w, x)
    PROVE  \E q \in DOMAIN w :
              Offset(Moments(w, x), x[q]) * Offset(Moments(w, x), x[q]) <= Moments(w, x).spread
  <1> DEFINE S == DOMAIN w
             n == Moments(w, x).n
             r == Moments(w, x).spread
             d == Deviations(w, x)
             e == [q \in S |-> r * w[q]]
             o(q) == Offset(Moments(w, x), x[q])
  <1> SUFFICES ASSUME \A q \in S : ~(o(q) * o(q) <= r) PROVE FALSE
    OBVIOUS
  <1>1. n \in Int /\ r \in Int /\ IsFiniteSet(S) /\ n = Sum(w, S)
    BY MomentsType, MomentsAre DEF Counted
  <1>2. \A q \in S : w[q] \in Int /\ w[q] > 0
    BY DEF Counted
  <1>3. \A q \in S : o(q) \in Int
    BY MomentsType, ProductSigns DEF Offset, Counted
  <1>4. \A q \in S : d[q] = w[q] * (o(q) * o(q)) /\ e[q] = r * w[q]
    BY DEF Deviations
  <1>5. Sum(d, S) = n * r
    BY DeviationsSum
  <1>6. PICK q \in S : TRUE
    BY DEF Counted
  <1> HIDE DEF S, n, r, d, e, o
  <1>7. \A i, j, k \in Int : i > 0 /\ j > k => i * j > k * i /\ i * j \in Int /\ k * i \in Int
    OBVIOUS
  <1>8. \A p \in S : o(p) * o(p) \in Int /\ o(p) * o(p) > r
    BY <1>1, <1>3, ProductSigns
  <1>9. \A p \in S : d[p] \in Int /\ e[p] \in Int /\ e[p] < d[p]
    BY <1>1, <1>2, <1>4, <1>7, <1>8
  <1>10. Sum(e, S) < Sum(d, S)
    BY <1>1, <1>6, <1>9, SumOrder
  <1>11. Sum(e, S) = r * n
    BY <1>1, <1>2, <1>4, SumScale
  <1> QED
    BY <1>1, <1>5, <1>10, <1>11

-----------------------------------------------------------------------------
(* The filter *)

LEMMA Division ==
    \A a \in Int, b \in Nat \ {0} :
        a \div b \in Int /\ b * (a \div b) <= a /\ a < b * (a \div b) + b
  OBVIOUS

LEMMA RestrictCounted ==
    ASSUME NEW w, NEW x, Counted(w, x), NEW K \in SUBSET DOMAIN w, K # {}
    PROVE  Counted(Restrict(w, K), x)
  BY FS_Subset DEF Counted, Restrict

\* The mean of counted scores is between them; that of none is 0/0.
LEMMA MeanIsBetween ==
    ASSUME NEW w, NEW x, Counted(w, x)
    PROVE  LET mean == Mean(Moments(w, x))
           IN  /\ mean \in Int /\ mean # NaN
               /\ \E q \in DOMAIN w : mean >= Scale * x[q]
               /\ \E q \in DOMAIN w : mean <= Scale * x[q]
  <1> DEFINE S == DOMAIN w
             n == Moments(w, x).n
             s == Moments(w, x).sum
             mean == Mean(Moments(w, x))
             l == Linear(w, x)
             scaled == [q \in S |-> Scale * l[q]]
             up == [q \in S |-> (mean + 1) * w[q]]
             down == [q \in S |-> (mean - 1) * w[q]]
  <1>1. n \in Nat \ {0} /\ s \in Int /\ IsFiniteSet(S) /\ n = Sum(w, S) /\ s = Sum(l, S)
    BY MomentsType, MomentsAre DEF Counted
  <1>2. \A q \in S : w[q] \in Int /\ w[q] > 0 /\ x[q] \in Int /\ l[q] = w[q] * x[q]
    BY DEF Counted, Linear
  <1>3. mean = (Scale * s) \div n
    BY <1>1 DEF Mean
  <1>4. \A q \in S : scaled[q] = Scale * l[q] /\ up[q] = (mean + 1) * w[q]
                     /\ down[q] = (mean - 1) * w[q]
    OBVIOUS
  <1>5. Scale \in Int
    BY ScaleAssumption
  <1>6. PICK q \in S : TRUE
    BY DEF Counted
  <1> HIDE DEF S, n, s, mean, l, scaled, up, down
  <1>7. mean \in Int /\ n * mean <= Scale * s /\ Scale * s < n * mean + n
    <2>1. Scale * s \in Int
      BY <1>1, <1>5, ProductSigns
    <2> QED
      BY <1>1, <1>3, <2>1, Division
  <1>8. \A p \in S : l[p] \in Int /\ scaled[p] \in Int /\ up[p] \in Int /\ down[p] \in Int
    <2>1. \A i, j \in Int : i * j \in Int
      OBVIOUS
    <2> SUFFICES ASSUME NEW p \in S
                 PROVE  l[p] \in Int /\ scaled[p] \in Int /\ up[p] \in Int /\ down[p] \in Int
      OBVIOUS
    <2>2. l[p] \in Int
      BY <1>2, <2>1
    <2>3. Scale * l[p] \in Int
      BY <1>5, <2>1, <2>2
    <2>4. (mean + 1) * w[p] \in Int /\ (mean - 1) * w[p] \in Int
      <3>1. mean + 1 \in Int /\ mean - 1 \in Int
        BY <1>7
      <3> QED
        BY <1>2, <2>1, <3>1
    <2> QED
      BY <1>4, <2>2, <2>3, <2>4
  <1>9. Sum(scaled, S) = Scale * s
    BY <1>1, <1>4, <1>5, <1>8, SumScale
  <1>10. Sum(up, S) = (mean + 1) * n
    <2>1. mean + 1 \in Int
      BY <1>7
    <2> QED
      BY <1>1, <1>2, <1>4, <2>1, SumScale
  <1>11. Sum(down, S) = (mean - 1) * n
    <2>1. mean - 1 \in Int
      BY <1>7
    <2> QED
      BY <1>1, <1>2, <1>4, <2>1, SumScale
  <1>12. \A i, j, k, v \in Int :
            /\ i > 0 /\ k * j >= v => k * (i * j) >= v * i
            /\ i > 0 /\ k * j <= v => k * (i * j) <= v * i
    <2> SUFFICES ASSUME NEW i \in Int, NEW j \in Int, NEW k \in Int, NEW v \in Int, i > 0
                 PROVE  /\ k * j >= v => k * (i * j) >= v * i
                        /\ k * j <= v => k * (i * j) <= v * i
      OBVIOUS
    <2>1. k * (i * j) = (k * j) * i
      OBVIOUS
    <2>2. \A a \in Int : /\ a >= v => a * i >= v * i
                         /\ a <= v => a * i <= v * i
      OBVIOUS
    <2>3. k * j \in Int
      OBVIOUS
    <2> QED
      BY <2>1, <2>2, <2>3
  <1>13. \E p \in S : mean >= Scale * x[p]
    <2> SUFFICES ASSUME \A p \in S : ~(mean >= Scale * x[p]) PROVE FALSE
      OBVIOUS
    <2>1. \A p \in S : up[p] <= scaled[p]
      <3> SUFFICES ASSUME NEW p \in S PROVE up[p] <= scaled[p]
        OBVIOUS
      <3>1. Scale * x[p] \in Int /\ mean + 1 \in Int
        BY <1>2, <1>5, <1>7, ProductSigns
      <3>2. Scale * x[p] >= mean + 1
        BY <1>7, <3>1
      <3> QED
        BY <1>2, <1>4, <1>5, <1>12, <3>1, <3>2
    <2>2. (mean + 1) * n <= Scale * s
      BY <1>1, <1>8, <1>9, <1>10, <2>1, SumOrder
    <2>3. (mean + 1) * n = n * mean + n
      BY <1>1, <1>7
    <2> QED
      BY <1>1, <1>5, <1>7, <2>2, <2>3, ProductSigns
  <1>14. \E p \in S : mean <= Scale * x[p]
    <2> SUFFICES ASSUME \A p \in S : ~(mean <= Scale * x[p]) PROVE FALSE
      OBVIOUS
    <2>1. \A p \in S : scaled[p] <= down[p]
      <3> SUFFICES ASSUME NEW p \in S PROVE scaled[p] <= down[p]
        OBVIOUS
      <3>1. Scale * x[p] \in Int /\ mean - 1 \in Int
        BY <1>2, <1>5, <1>7, ProductSigns
      <3>2. Scale * x[p] <= mean - 1
        BY <1>7, <3>1
      <3> QED
        BY <1>2, <1>4, <1>5, <1>12, <3>1, <3>2
    <2>2. Scale * s <= (mean - 1) * n
      BY <1>1, <1>8, <1>9, <1>11, <2>1, SumOrder
    <2>3. (mean - 1) * n = n * mean - n
      BY <1>1, <1>7
    <2> QED
      BY <1>1, <1>5, <1>7, <2>2, <2>3, ProductSigns
  <1> QED
    BY <1>7, <1>13, <1>14, ScoreAssumption DEF mean, S

\* Of no scores.
LEMMA MeanOfNone ==
    ASSUME NEW w, NEW x, DOMAIN w = {}
    PROVE  Mean(Moments(w, x)) = NaN
  BY MomentsAre, SumEmpty DEF Mean

\* The scores a filter keeps under a rounding, and what it makes of them.
KeptIn(population, sample, x, tau, sides) ==
    {q \in DOMAIN sample : Stays(Moments(population, x), tau, sides, x[q])}
RoundingsOf(population, sample, x, tau) ==
    Roundings(Moments(population, x), tau, {x[q] : q \in DOMAIN sample})

LEMMA FilterIs ==
    ASSUME NEW population, NEW sample, NEW x, NEW tau
    PROVE  Filtered(population, sample, x, tau) =
              {Mean(Moments(Restrict(sample, KeptIn(population, sample, x, tau, sides)), x)) :
                  sides \in RoundingsOf(population, sample, x, tau)}
  BY DEF Filtered, KeptIn, RoundingsOf

\* With a tau above 1 a score near the mean stays, however z rounds.
LEMMA SomeoneStays ==
    ASSUME NEW population, NEW sample, NEW x, NEW tau \in Nat, tau > 4,
           Counted(population, x), Counted(sample, x), DOMAIN population \subseteq DOMAIN sample,
           NEW sides
    PROVE  KeptIn(population, sample, x, tau, sides) # {}
  <1> DEFINE m == Moments(population, x)
             o(q) == Offset(m, x[q])
  <1>1. PICK q \in DOMAIN population : o(q) * o(q) <= m.spread
    BY SomeoneIsNear
  <1>2. q \in DOMAIN sample /\ o(q) \in Int /\ m.spread \in Int /\ m.spread >= 0
    BY MomentsType, SpreadNonneg, ProductSigns DEF Offset, Counted
  <1>3. 4 * o(q) * o(q) < tau * m.spread \/ (m.spread = 0 /\ o(q) = 0)
    <2> HIDE DEF m, o
    <2>1. ASSUME NEW i \in Int, NEW r \in Int, NEW t \in Int, r >= 0, t > 4, i * i <= r
          PROVE  4 * i * i < t * r \/ (r = 0 /\ i = 0)
      <3>1. 4 * i * i = 4 * (i * i) /\ i * i \in Int /\ (i # 0 => i * i > 0)
        BY ProductSigns
      <3>2. CASE r = 0
        BY <2>1, <3>1, <3>2
      <3>3. CASE r > 0
        <4>1. 4 * r < t * r /\ t * r \in Int
          BY <2>1, <3>3
        <4> QED
          BY <2>1, <3>1, <4>1
      <3> QED
        BY <2>1, <3>2, <3>3
    <2> QED
      BY <1>1, <1>2, <2>1
  <1>4. Within(m, tau, x[q])
    BY <1>3 DEF Within, Flat
  <1> QED
    BY <1>2, <1>4 DEF KeptIn, Stays

LEMMA FilterHears ==
    ASSUME NEW population, NEW sample, NEW x, NEW tau \in Nat, tau > 4,
           Counted(population, x), Counted(sample, x), DOMAIN population \subseteq DOMAIN sample
    PROVE  NaN \notin Filtered(population, sample, x, tau)
  <1> SUFFICES ASSUME NEW sides \in RoundingsOf(population, sample, x, tau)
               PROVE  Mean(Moments(Restrict(sample,
                              KeptIn(population, sample, x, tau, sides)), x)) # NaN
    BY FilterIs
  <1> DEFINE K == KeptIn(population, sample, x, tau, sides)
  <1>1. K \in SUBSET DOMAIN sample /\ K # {}
    BY SomeoneStays DEF KeptIn
  <1> HIDE DEF K
  <1>2. Counted(Restrict(sample, K), x)
    BY <1>1, RestrictCounted
  <1> QED
    BY <1>2, MeanIsBetween DEF K

\* What the filter makes of the scores is between those of the sample.
LEMMA FilterIsBetween ==
    ASSUME NEW population, NEW sample, NEW x, NEW tau, Counted(sample, x),
           NEW v \in Filtered(population, sample, x, tau), v # NaN
    PROVE  /\ v \in Int
           /\ \E q \in DOMAIN sample : v >= Scale * x[q]
           /\ \E q \in DOMAIN sample : v <= Scale * x[q]
  <1>1. PICK sides \in RoundingsOf(population, sample, x, tau) :
            v = Mean(Moments(Restrict(sample, KeptIn(population, sample, x, tau, sides)), x))
    BY FilterIs
  <1> DEFINE K == KeptIn(population, sample, x, tau, sides)
  <1>2. K \in SUBSET DOMAIN sample /\ DOMAIN Restrict(sample, K) = K
    BY DEF KeptIn, Restrict
  <1> HIDE DEF K
  <1>3. K # {}
    BY <1>1, <1>2, MeanOfNone DEF K
  <1>4. Counted(Restrict(sample, K), x)
    BY <1>2, <1>3, RestrictCounted
  <1> QED
    BY <1>1, <1>2, <1>4, MeanIsBetween DEF K

\* When all the population give the same score, only that score stays.
LEMMA FilterFlat ==
    ASSUME NEW population, NEW sample, NEW x, NEW tau \in Nat, tau > 4,
           Counted(population, x), Counted(sample, x), DOMAIN population \subseteq DOMAIN sample,
           NEW v \in Int, \A q \in DOMAIN population : x[q] = v
    PROVE  Filtered(population, sample, x, tau) \subseteq {Scale * v}
  <1> DEFINE S == DOMAIN population
             m == Moments(population, x)
             n == m.n
  <1>1. n \in Int /\ n > 0 /\ n = Sum(population, S) /\ IsFiniteSet(S)
    BY MomentsType, MomentsAre DEF Counted
  <1>2. \A q \in S : /\ population[q] \in Int
                     /\ Linear(population, x)[q] = v * population[q]
                     /\ Squares(population, x)[q] = (v * v) * population[q]
    BY DEF Counted, Linear, Squares
  <1>3. m.sum = v * n
    <2> HIDE DEF S, n
    <2>1. Sum(Linear(population, x), S) = v * n
      BY <1>1, <1>2, SumScale
    <2> QED
      BY <2>1, MomentsAre DEF S
  <1>4. Sum(Squares(population, x), S) = (v * v) * n
    <2> HIDE DEF S, n
    <2>1. v * v \in Int
      BY ProductSigns
    <2> QED
      BY <1>1, <1>2, <2>1, SumScale
  <1>5. m.spread = 0
    <2>1. m.spread = n * ((v * v) * n) - (v * n) * (v * n)
      BY <1>3, <1>4, MomentsAre
    <2> HIDE DEF n, m
    <2> QED
      BY <1>1, <2>1
  <1>6. \A u \in Int : \A sides : Stays(m, tau, sides, u) => u = v
    <2> SUFFICES ASSUME NEW u \in Int, u # v
                 PROVE  ~Within(m, tau, u) /\ ~AtTau(m, tau, u)
      BY DEF Stays
    <2> DEFINE o == Offset(m, u)
    <2>1. o \in Int /\ o # 0
      <3>1. o = n * u - v * n
        BY <1>3 DEF Offset
      <3> HIDE DEF n, o, m
      <3>2. \A i, j, k \in Int : i > 0 /\ j # k => i * j - k * i \in Int /\ i * j - k * i # 0
        <4> SUFFICES ASSUME NEW i \in Int, NEW j \in Int, NEW k \in Int, i > 0, j # k
                     PROVE  i * j - k * i \in Int /\ i * j - k * i # 0
          OBVIOUS
        <4>1. i * j - k * i = i * (j - k)
          OBVIOUS
        <4>2. \A d \in Int : d # 0 => i * d # 0
          OBVIOUS
        <4> QED
          BY <4>1, <4>2
      <3> QED
        BY <1>1, <3>1, <3>2
    <2>2. 4 * o * o > 0 /\ 4 * o * o \in Int /\ tau * m.spread = 0
      <3>1. tau * m.spread = 0
        BY <1>5
      <3> HIDE DEF o, m
      <3>2. \A i \in Int : i # 0 => 4 * i * i > 0 /\ 4 * i * i \in Int
        OBVIOUS
      <3> QED
        BY <2>1, <3>1, <3>2
    <2> HIDE DEF m
    <2>3. ~(4 * o * o < tau * m.spread) /\ 4 * o * o # tau * m.spread
      <3> HIDE DEF o
      <3> QED
        BY <2>2
    <2> QED
      BY <2>1, <2>3 DEF Within, AtTau, Flat
  <1> SUFFICES ASSUME NEW sides \in RoundingsOf(population, sample, x, tau)
               PROVE  Mean(Moments(Restrict(sample,
                              KeptIn(population, sample, x, tau, sides)), x)) = Scale * v
    BY FilterIs
  <1> DEFINE K == KeptIn(population, sample, x, tau, sides)
  <1>7. /\ K \in SUBSET DOMAIN sample /\ K # {} /\ DOMAIN Restrict(sample, K) = K
        /\ \A q \in K : x[q] = v
    BY <1>6, SomeoneStays DEF KeptIn, Restrict, Counted
  <1> HIDE DEF K
  <1>8. Counted(Restrict(sample, K), x)
    BY <1>7, RestrictCounted
  <1> DEFINE mean == Mean(Moments(Restrict(sample, K), x))
  <1>9. /\ mean \in Int
        /\ \E q \in K : mean >= Scale * x[q]
        /\ \E q \in K : mean <= Scale * x[q]
    BY <1>7, <1>8, MeanIsBetween
  <1>10. Scale * v \in Int
    BY ScaleAssumption, ProductSigns
  <1>11. mean >= Scale * v /\ mean <= Scale * v
    BY <1>7, <1>9
  <1> HIDE DEF mean
  <1>12. mean = Scale * v
    BY <1>9, <1>10, <1>11
  <1> QED
    BY <1>12 DEF K, mean

\* Nobody is more than sqrt(n - 1) standard deviations off.
LEMMA NobodyIsFar ==
    ASSUME NEW w, NEW x, Counted(w, x)
    PROVE  \A q \in DOMAIN w :
              Offset(Moments(w, x), x[q]) * Offset(Moments(w, x), x[q])
                <= (Moments(w, x).n - 1) * Moments(w, x).spread
  <1> DEFINE S == DOMAIN w
             n == Moments(w, x).n
             s == Moments(w, x).sum
             r == Moments(w, x).spread
             o == [q \in S |-> Offset(Moments(w, x), x[q])]
             d == Deviations(w, x)
             l == Linear(w, o)
  <1>1. /\ n \in Int /\ n > 0 /\ s \in Int /\ r \in Int /\ IsFiniteSet(S)
        /\ r >= 0 /\ n = Sum(w, S) /\ s = Sum(Linear(w, x), S)
    BY MomentsType, MomentsAre, SpreadNonneg DEF Counted
  <1>2. \A q \in S : w[q] \in Int /\ w[q] > 0 /\ w[q] \in Nat \ {0} /\ x[q] \in Int
    BY DEF Counted
  <1>3. \A q \in S : o[q] \in Int /\ o[q] = n * x[q] - s
    BY <1>1, <1>2, ProductSigns DEF Offset
  <1>4. \A q \in S : d[q] = Squares(w, o)[q]
    <2> SUFFICES ASSUME NEW q \in S PROVE d[q] = Squares(w, o)[q]
      OBVIOUS
    <2>1. d[q] = w[q] * (o[q] * o[q]) /\ Squares(w, o)[q] = w[q] * o[q] * o[q]
      BY DEF Deviations, Squares
    <2> HIDE DEF o, d
    <2> QED
      BY <1>2, <1>3, <2>1
  <1>5. Sum(d, S) = n * r
    BY DeviationsSum
  <1>6. \A q \in S : l[q] = w[q] * o[q] /\ Squares(w, o)[q] = w[q] * o[q] * o[q]
    BY DEF Linear, Squares
  <1>7. \A q \in S : Linear(w, x)[q] = w[q] * x[q]
    BY DEF Linear
  <1> HIDE DEF n, s, r, o, d, l
  <1>8. \A q \in S : l[q] \in Int /\ d[q] \in Int /\ Linear(w, x)[q] \in Int
    <2>1. \A i, j \in Int : i * j \in Int
      OBVIOUS
    <2> SUFFICES ASSUME NEW q \in S PROVE l[q] \in Int /\ d[q] \in Int /\ Linear(w, x)[q] \in Int
      OBVIOUS
    <2>2. w[q] * o[q] \in Int /\ w[q] * x[q] \in Int
      BY <1>2, <1>3, <2>1
    <2>3. (w[q] * o[q]) * o[q] \in Int
      BY <1>3, <2>1, <2>2
    <2> QED
      BY <1>4, <1>6, <1>7, <2>2, <2>3
  \* The distances from the mean cancel.
  <1>9. Sum(l, S) = 0
    <2> DEFINE f == [q \in S |-> n * Linear(w, x)[q]]
               g == [q \in S |-> (-s) * w[q]]
    <2>1. \A q \in S : f[q] = n * Linear(w, x)[q] /\ g[q] = (-s) * w[q]
      OBVIOUS
    <2> HIDE DEF S, f, g
    <2>2. \A q \in S : l[q] = f[q] + g[q]
      <3> SUFFICES ASSUME NEW q \in S PROVE l[q] = f[q] + g[q]
        OBVIOUS
      <3>1. \A i, j, a, b \in Int : i * (a * j - b) = a * (i * j) + (-b) * i
        OBVIOUS
      <3>2. n \in Int /\ s \in Int /\ w[q] \in Int /\ x[q] \in Int
        BY <1>1, <1>2
      <3>3. w[q] * (n * x[q] - s) = n * (w[q] * x[q]) + (-s) * w[q]
        BY <3>1, <3>2
      <3> QED
        BY <1>3, <1>6, <1>7, <2>1, <3>3
    <2>3. \A q \in S : f[q] \in Int /\ g[q] \in Int
      <3>1. -s \in Int /\ \A i, j \in Int : i * j \in Int
        BY <1>1
      <3> SUFFICES ASSUME NEW q \in S PROVE f[q] \in Int /\ g[q] \in Int
        OBVIOUS
      <3>2. n * Linear(w, x)[q] \in Int /\ (-s) * w[q] \in Int
        BY <1>1, <1>2, <1>8, <3>1
      <3> QED
        BY <2>1, <3>2
    <2>4. Sum(f, S) = n * s
      BY <1>1, <1>8, <2>1, SumScale
    <2>5. Sum(g, S) = (-s) * n
      <3>1. -s \in Int
        BY <1>1
      <3> QED
        BY <1>1, <1>2, <2>1, <3>1, SumScale
    <2>6. Sum(l, S) = Sum(f, S) + Sum(g, S)
      BY <1>1, <2>2, <2>3, SumAdd
    <2> QED
      BY <1>1, <2>4, <2>5, <2>6
  <1> SUFFICES ASSUME NEW q \in S PROVE o[q] * o[q] <= (n - 1) * r
    BY DEF o, n, r
  <1> DEFINE R == S \ {q}
             wR == Restrict(w, R)
             nR == Sum(w, R)
             lR == Sum(l, R)
             dR == Sum(d, R)
  <1>10. IsFiniteSet(R)
    BY <1>1, FS_Subset
  <1>11. nR \in Int /\ lR \in Int /\ dR \in Int
    <2>1. \A p \in R : w[p] \in Int /\ l[p] \in Int /\ d[p] \in Int
      BY <1>2, <1>8
    <2> HIDE DEF R
    <2> QED
      BY <1>10, <2>1, SumType
  <1>12. n = w[q] + nR /\ 0 = w[q] * o[q] + lR /\ n * r = w[q] * o[q] * o[q] + dR
    <2>1. n = w[q] + nR
      BY <1>1, <1>2, SumTake
    <2>2. Sum(l, S) = l[q] + lR
      BY <1>1, <1>8, SumTake
    <2>3. Sum(d, S) = d[q] + dR
      BY <1>1, <1>8, SumTake
    <2> QED
      BY <1>4, <1>5, <1>6, <1>9, <2>1, <2>2, <2>3
  \* The others' mean is off by as much as their spread allows.
  <1>13. nR >= 0 /\ nR * dR - lR * lR >= 0
    <2>1. CASE R = {}
      <3>1. nR = 0 /\ lR = 0 /\ dR = 0
        BY <2>1, SumEmpty
      <3> HIDE DEF nR, lR, dR
      <3> QED
        BY <3>1
    <2>2. CASE R # {}
      <3> DEFINE mR == Moments(wR, o)
      <3>1. /\ DOMAIN wR = R
            /\ \A p \in R : /\ wR[p] = w[p] /\ Linear(wR, o)[p] = l[p]
                            /\ Squares(wR, o)[p] = d[p]
        <4>1. DOMAIN wR = R /\ \A p \in R : wR[p] = w[p]
          BY DEF Restrict
        <4>2. \A p \in R : /\ Linear(wR, o)[p] = w[p] * o[p]
                           /\ Squares(wR, o)[p] = w[p] * o[p] * o[p]
          <5> HIDE DEF wR, R
          <5> QED
            BY <4>1 DEF Linear, Squares
        <4> QED
          BY <1>4, <1>6, <4>1, <4>2
      <3>2. \A p \in R : /\ w[p] \in Int /\ l[p] \in Int /\ d[p] \in Int
                         /\ w[p] \in Nat \ {0} /\ o[p] \in Int
        BY <1>2, <1>3, <1>8
      <3> HIDE DEF wR, R
      <3>3. Counted(wR, o)
        BY <1>10, <2>2, <3>1, <3>2 DEF Counted
      <3>4. Sum(wR, R) = nR /\ Sum(Linear(wR, o), R) = lR /\ Sum(Squares(wR, o), R) = dR
        BY <1>10, <3>1, <3>2, SumSame
      <3>5. mR.n = nR /\ mR.sum = lR /\ mR.spread = nR * dR - lR * lR
        BY <3>1, <3>4, MomentsAre
      <3>6. mR.n >= 0 /\ mR.spread >= 0
        BY <3>3, MomentsType, SpreadNonneg
      <3> QED
        BY <3>5, <3>6
    <2> QED
      BY <2>1, <2>2
  <1>14. w[q] \in Int /\ w[q] > 0 /\ o[q] \in Int
    BY <1>2, <1>3
  <1>15. ASSUME NEW c \in Int, NEW e \in Int, NEW N \in Int, NEW a \in Int, NEW b \in Int,
                NEW t \in Int, NEW u \in Int,
                c > 0, a >= 0, u >= 0, N = c + a, 0 = c * e + b, N * u = c * e * e + t,
                a * t - b * b >= 0
         PROVE  e * e <= (N - 1) * u
    <2>1. b = -(c * e) /\ t = N * u - c * e * e
      <3>1. c * e \in Int /\ c * e * e \in Int /\ N * u \in Int
        <4>1. \A i, j \in Int : i * j \in Int
          OBVIOUS
        <4> QED
          BY <4>1
      <3> QED
        BY <1>15, <3>1
    <2>2. a * (N * u - c * e * e) - (c * e) * (c * e) >= 0
      <3>1. (-(c * e)) * (-(c * e)) = (c * e) * (c * e)
        OBVIOUS
      <3> QED
        BY <1>15, <2>1, <3>1
    <2>3. a * (N * u - c * e * e) - (c * e) * (c * e) = N * (a * u - c * (e * e))
      <3>1. (c + a) * (a * u - c * (e * e)) = a * ((c + a) * u - c * e * e) - (c * e) * (c * e)
        OBVIOUS
      <3> QED
        BY <1>15, <3>1
    <2>4. N > 0
      BY <1>15
    <2>5. a * u - c * (e * e) >= 0
      <3>1. a * u - c * (e * e) \in Int
        OBVIOUS
      <3>2. \A i \in Int : N * i >= 0 => i >= 0
        BY <2>4
      <3> QED
        BY <2>2, <2>3, <3>1, <3>2
    <2>6. c * (e * e) >= e * e
      <3>1. e * e \in Int /\ e * e >= 0
        BY ProductSigns
      <3>2. \A i \in Int : i >= 0 => c * i >= i
        BY <1>15
      <3> QED
        BY <3>1, <3>2
    <2>7. a * u <= (N - 1) * u
      <3>1. a <= N - 1
        BY <1>15
      <3>2. \A i, j \in Int : i <= j => i * u <= j * u
        BY <1>15
      <3> QED
        BY <3>1, <3>2
    <2> QED
      <3>1. e * e \in Int /\ c * (e * e) \in Int /\ a * u \in Int /\ (N - 1) * u \in Int
        <4>1. \A i, j \in Int : i * j \in Int
          OBVIOUS
        <4>2. e * e \in Int /\ N - 1 \in Int
          BY <4>1
        <4> QED
          BY <4>1, <4>2
      <3> QED
        BY <2>5, <2>6, <2>7, <3>1
  <1> HIDE DEF R, nR, lR, dR, S
  <1> QED
    BY <1>1, <1>11, <1>12, <1>13, <1>14, <1>15

-----------------------------------------------------------------------------
(* The invariant *)

\* Every row sent is one its sender can have, and the taus are configured ones.
Rows ==
    /\ \A p, q \in Provider : FFS[p][q] \in RowsOf(q)
    /\ tauP \in ProviderTau /\ tauC \in ConsumerTau

\* Every evaluation is one the filter makes of the scores as they still are.
Evaluated ==
    /\ DOMAIN FFSnew \subseteq Provider
    /\ \A p \in DOMAIN FFSnew :
        /\ DOMAIN FFSnew[p] = Others(p)
        /\ \A t \in Others(p) : FFSnew[p][t] \in FFnewOf(p, t)

\* The winner is one the consumer's filter makes of the evaluations.
Chosen ==
    winner # Undecided =>
        /\ Voted = Provider
        /\ \E final \in [Provider -> UNION {FFfinalOf(t) : t \in Provider}] :
              /\ \A t \in Provider : final[t] \in FFfinalOf(t)
              /\ winner = WinnerOf(final)

Inv == Rows /\ Evaluated /\ Chosen

LEMMA Providers ==
    /\ IsFiniteSet(Provider) /\ Cardinality(Provider) = ProviderCount
    /\ ProviderCount \in Nat \ {0} /\ Provider \subseteq Int
    /\ \A t \in Provider : /\ IsFiniteSet(Others(t)) /\ Cardinality(Others(t)) = ProviderCount - 1
                           /\ ProviderCount >= 2 => Others(t) # {}
  <1>1. IsFiniteSet(Provider) /\ Cardinality(Provider) = ProviderCount
    BY FS_Interval, CountAssumption DEF Provider
  <1>2. ASSUME NEW t \in Provider
        PROVE  IsFiniteSet(Others(t)) /\ Cardinality(Others(t)) = ProviderCount - 1
    BY <1>1, <1>2, FS_RemoveElement DEF Others
  <1> QED
    BY <1>1, <1>2, FS_EmptySet, CountAssumption DEF Provider

\* The scores are integers.
LEMMA ScoresAreInt ==
    ASSUME Rows, NEW p \in Provider, NEW q \in Provider, NEW t \in Provider
    PROVE  FFS[p][q][t] \in Int
  <1>1. FFS[p][q] \in [Provider -> (UNION {Score[u] : u \in Provider}) \cup {DefaultPeerFF, 0}]
    BY DEF Rows, RowsOf
  <1>2. (UNION {Score[u] : u \in Provider}) \cup {DefaultPeerFF, 0} \subseteq Int
    BY ScoreAssumption DEF Provider
  <1> QED
    BY <1>1, <1>2

LEMMA InitInv == Init => Inv
  <1> SUFFICES ASSUME Init PROVE Inv
    OBVIOUS
  <1>1. PICK once \in Tables(Provider \ Rescored), each \in [Provider -> Tables(Rescored)] :
            FFS = [p \in Provider |->
                     [q \in Provider |-> IF q \in Rescored THEN each[p][q] ELSE once[q]]]
    BY DEF Init
  <1>2. ASSUME NEW p \in Provider, NEW q \in Provider
        PROVE  FFS[p][q] \in RowsOf(q)
    <2>1. CASE q \in Rescored
      <3>1. FFS[p][q] = each[p][q]
        BY <1>1, <2>1
      <3>2. each[p] \in Tables(Rescored)
        OBVIOUS
      <3> QED
        BY <2>1, <3>1, <3>2 DEF Tables
    <2>2. CASE q \notin Rescored
      <3>1. FFS[p][q] = once[q]
        BY <1>1, <2>2
      <3> QED
        BY <2>2, <3>1 DEF Tables
    <2> QED
      BY <2>1, <2>2
  <1>3. Rows
    BY <1>2 DEF Rows, Init
  <1>4. Evaluated /\ Chosen
    BY DEF Init, Evaluated, Chosen
  <1> QED
    BY <1>3, <1>4 DEF Inv

LEMMA EvaluateInv ==
    ASSUME Inv, NEW p \in Provider, Evaluate(p)
    PROVE  Inv'
  <1>1. PICK new : /\ DOMAIN new = Others(p)
                   /\ \A t \in Others(p) : new[t] \in FFnewOf(p, t)
                   /\ FFSnew' = Extended(p, new)
    BY DEF Evaluate
  <1>2. FFS' = FFS /\ tauP' = tauP /\ tauC' = tauC /\ winner' = winner /\ p \notin DOMAIN FFSnew
    BY DEF Evaluate
  <1>3. Rows'
    BY <1>2 DEF Inv, Rows
  <1>4. Evaluated'
    <2>1. \A q, t : FFnewOf(q, t)' = FFnewOf(q, t)
      BY <1>2 DEF FFnewOf
    <2> QED
      BY <1>1, <2>1 DEF Inv, Evaluated, Extended
  <1>5. winner = Undecided
    BY <1>2 DEF Inv, Chosen, Voted
  <1>6. Chosen'
    BY <1>2, <1>5 DEF Chosen
  <1> QED
    BY <1>3, <1>4, <1>6 DEF Inv

LEMMA DecideInv ==
    ASSUME Inv, Decide
    PROVE  Inv'
  <1>1. FFS' = FFS /\ tauP' = tauP /\ tauC' = tauC /\ FFSnew' = FFSnew /\ Voted = Provider
    BY DEF Decide
  <1>2. \E final \in [Provider -> UNION {FFfinalOf(t) : t \in Provider}] :
           /\ \A t \in Provider : final[t] \in FFfinalOf(t)
           /\ winner' = WinnerOf(final)
    <2> DEFINE outcomes == [t \in Provider |-> FFfinalOf(t)]
    <2>1. UNION {outcomes[t] : t \in Provider} = UNION {FFfinalOf(t) : t \in Provider}
      OBVIOUS
    <2> QED
      BY <2>1 DEF Decide
  <1>3. \A q, t : FFnewOf(q, t)' = FFnewOf(q, t)
    BY <1>1 DEF FFnewOf
  <1>4. \A t : FFfinalOf(t)' = FFfinalOf(t)
    BY <1>1 DEF FFfinalOf
  <1>5. Rows' /\ Evaluated'
    BY <1>1, <1>3 DEF Inv, Rows, Evaluated
  <1>6. Chosen'
    BY <1>1, <1>2, <1>4 DEF Chosen, Voted
  <1> QED
    BY <1>5, <1>6 DEF Inv

\* The invariant: scores never change, and evaluations and the winner are what the
\* filters make of them.
THEOREM ScoringInvariant == Spec => []Inv
  <1>1. Inv /\ [Next]_vars => Inv'
    <2> SUFFICES ASSUME Inv, [Next]_vars PROVE Inv'
      OBVIOUS
    <2>1. CASE Decide
      BY <2>1, DecideInv
    <2>2. CASE \E p \in Provider : Evaluate(p)
      BY <2>2, EvaluateInv
    <2>3. CASE UNCHANGED vars
      <3>1. \A q, t : FFnewOf(q, t)' = FFnewOf(q, t)
        BY <2>3 DEF FFnewOf, vars
      <3>2. \A t : FFfinalOf(t)' = FFfinalOf(t)
        BY <2>3 DEF FFfinalOf, vars
      <3>3. Rows' /\ Evaluated'
        BY <2>3, <3>1 DEF Inv, Rows, Evaluated, vars
      <3>4. Chosen'
        BY <2>3, <3>2 DEF Inv, Chosen, Voted, vars
      <3> QED
        BY <3>3, <3>4 DEF Inv
    <2> QED
      BY <2>1, <2>2, <2>3 DEF Next
  <1> QED
    BY InitInv, <1>1, PTL DEF Spec

-----------------------------------------------------------------------------
(* The providers' evaluations *)

Column(p, t) == [q \in Provider |-> FFS[p][q][t]]

LEMMA ColumnCounted ==
    ASSUME Rows, NEW p \in Provider, NEW t \in Others(p)
    PROVE  /\ Counted(PopulationOf(p, t), Column(p, t)) /\ DOMAIN PopulationOf(p, t) = Others(t)
           /\ Counted(SampleOf(p, t), Column(p, t)) /\ DOMAIN SampleOf(p, t) = Provider
           /\ \A q \in Provider : Column(p, t)[q] = FFS[p][q][t] /\ FFS[p][q][t] \in Int
           /\ FFnewOf(p, t) = Filtered(PopulationOf(p, t), SampleOf(p, t), Column(p, t), tauP)
           /\ p \in Others(t) /\ t \in Provider /\ tauP \in Nat
  <1>1. p \in Others(t) /\ t \in Provider
    BY DEF Others
  <1>2. \A q \in Provider : Column(p, t)[q] = FFS[p][q][t] /\ FFS[p][q][t] \in Int
    BY <1>1, ScoresAreInt DEF Column
  <1>3. DOMAIN PopulationOf(p, t) = Others(t) /\ DOMAIN SampleOf(p, t) = Provider
    BY DEF PopulationOf, SampleOf
  <1>4. /\ \A q \in Others(t) : PopulationOf(p, t)[q] \in {1, 2} /\ q \in Provider
        /\ \A q \in Provider : SampleOf(p, t)[q] \in {1, 2}
    BY DEF PopulationOf, SampleOf, Others
  <1>5. Counted(PopulationOf(p, t), Column(p, t)) /\ Counted(SampleOf(p, t), Column(p, t))
    <2>1. IsFiniteSet(Others(t)) /\ IsFiniteSet(Provider) /\ Others(t) # {} /\ Provider # {}
      BY <1>1, Providers
    <2>2. Counted(PopulationOf(p, t), Column(p, t))
      BY <1>2, <1>3, <1>4, <2>1 DEF Counted
    <2>3. Counted(SampleOf(p, t), Column(p, t))
      BY <1>2, <1>3, <1>4, <2>1 DEF Counted
    <2> QED
      BY <2>2, <2>3
  <1> QED
    BY <1>1, <1>2, <1>3, <1>5, TauAssumption DEF FFnewOf, Column, Rows

\* With a tau above 1 nobody's evaluation is 0/0.
LEMMA EvaluationHeard ==
    ASSUME Rows, NEW p \in Provider, NEW t \in Others(p), tauP > 4
    PROVE  NaN \notin FFnewOf(p, t)
  <1>1. Others(t) \subseteq Provider
    BY DEF Others
  <1> QED
    BY <1>1, ColumnCounted, FilterHears

LEMMA EvaluationBetween ==
    ASSUME Rows, NEW p \in Provider, NEW t \in Others(p), NEW v \in FFnewOf(p, t), v # NaN
    PROVE  /\ v \in Int
           /\ \E q \in Provider : v >= Scale * FFS[p][q][t]
           /\ \E q \in Provider : v <= Scale * FFS[p][q][t]
  <1>1. /\ v \in Int
        /\ \E q \in Provider : v >= Scale * Column(p, t)[q]
        /\ \E q \in Provider : v <= Scale * Column(p, t)[q]
    BY ColumnCounted, FilterIsBetween
  <1> QED
    BY <1>1, ColumnCounted

\* With a tau above 1 whoever evaluates can send its INFORM_VOTE, so
\* the auction never waits for a vote that could not be marshalled.
THEOREM EveryoneHeard == Spec => []EveryoneIsHeard
  <1>1. Inv => EveryoneIsHeard
    <2> SUFFICES ASSUME Inv, tauP > 4, NEW p \in DOMAIN FFSnew PROVE NaN \notin Range(FFSnew[p])
      BY DEF EveryoneIsHeard, Voted
    <2>1. /\ p \in Provider /\ DOMAIN FFSnew[p] = Others(p)
          /\ \A t \in Others(p) : FFSnew[p][t] \in FFnewOf(p, t)
      BY DEF Inv, Evaluated
    <2>2. \A t \in Others(p) : NaN \notin FFnewOf(p, t)
      BY <2>1, EvaluationHeard DEF Inv
    <2> QED
      BY <2>1, <2>2 DEF Range
  <1> QED
    BY ScoringInvariant, <1>1, PTL

\* What those who voted sent.
LEMMA VotesBetween ==
    ASSUME Rows, Evaluated, NEW p \in Voted, NEW t \in Others(p)
    PROVE  /\ p \in Provider /\ FFSnew[p][t] \in Int /\ FFSnew[p][t] # NaN
           /\ FFSnew[p][t] \in FFnewOf(p, t)
           /\ \E q \in Provider : FFSnew[p][t] >= Scale * FFS[p][q][t]
           /\ \E q \in Provider : FFSnew[p][t] <= Scale * FFS[p][q][t]
  <1>1. /\ p \in DOMAIN FFSnew /\ p \in Provider /\ DOMAIN FFSnew[p] = Others(p)
        /\ FFSnew[p][t] \in FFnewOf(p, t)
    BY DEF Evaluated, Voted
  <1>2. FFSnew[p][t] # NaN
    BY <1>1 DEF Voted, Range
  <1> QED
    BY <1>1, <1>2, EvaluationBetween

\* An evaluation lies between the scores it comes from, whatever the filter
\* drops and however the division rounds.
THEOREM EvaluationsBetween == Spec => []EvaluationsInHull
  <1>1. Inv => EvaluationsInHull
    <2> SUFFICES ASSUME Inv, NEW p \in Voted, NEW t \in Others(p)
                 PROVE  /\ \E q \in Provider : FFSnew[p][t] >= Scale * FFS[p][q][t]
                        /\ \E q \in Provider : FFSnew[p][t] <= Scale * FFS[p][q][t]
      BY DEF EvaluationsInHull
    <2> QED
      BY VotesBetween DEF Inv
  <1> QED
    BY ScoringInvariant, <1>1, PTL

-----------------------------------------------------------------------------
(* The consumer's choice *)

Scorers(t) == [q \in Others(t) |-> 1]
NewColumn(t) == [q \in Others(t) |-> FFSnew[q][t]]

LEMMA NewColumnCounted ==
    ASSUME Rows, Evaluated, Voted = Provider, NEW t \in Provider, Others(t) # {}
    PROVE  /\ Counted(Scorers(t), NewColumn(t)) /\ DOMAIN Scorers(t) = Others(t)
           /\ \A q \in Others(t) : NewColumn(t)[q] = FFSnew[q][t] /\ FFSnew[q][t] \in Int
           /\ FFfinalOf(t) = Filtered(Scorers(t), Scorers(t), NewColumn(t), tauC)
           /\ tauC \in Nat
  <1>1. \A q \in Others(t) : q \in Voted /\ t \in Others(q)
    BY DEF Others
  <1>2. \A q \in Others(t) : NewColumn(t)[q] = FFSnew[q][t] /\ FFSnew[q][t] \in Int
    BY <1>1, VotesBetween DEF NewColumn
  <1>3. /\ DOMAIN Scorers(t) = Others(t) /\ IsFiniteSet(Others(t))
        /\ \A q \in Others(t) : Scorers(t)[q] \in Nat \ {0}
    BY Providers DEF Scorers
  <1>4. Counted(Scorers(t), NewColumn(t))
    BY <1>2, <1>3 DEF Counted
  <1> QED
    BY <1>2, <1>3, <1>4, TauAssumption DEF FFfinalOf, Scorers, NewColumn, Rows

\* A final score is 0/0 or between the evaluations; of nobody's it is 0/0.
LEMMA FinalBetween ==
    ASSUME Rows, Evaluated, Voted = Provider, NEW t \in Provider,
           NEW v \in FFfinalOf(t), v # NaN
    PROVE  /\ v \in Int
           /\ \E q \in Others(t) : v >= Scale * FFSnew[q][t]
           /\ \E q \in Others(t) : v <= Scale * FFSnew[q][t]
  <1>1. CASE Others(t) = {}
    <2>1. DOMAIN Scorers(t) = {}
      BY <1>1 DEF Scorers
    <2>2. \A K : K \subseteq {} => Mean(Moments(Restrict(Scorers(t), K), NewColumn(t))) = NaN
      <3> SUFFICES ASSUME NEW K, K \subseteq {}
                   PROVE  Mean(Moments(Restrict(Scorers(t), K), NewColumn(t))) = NaN
        OBVIOUS
      <3>1. DOMAIN Restrict(Scorers(t), K) = {}
        BY DEF Restrict
      <3> QED
        BY <3>1, MeanOfNone
    <2>3. v \in Filtered(Scorers(t), Scorers(t), NewColumn(t), tauC)
      BY DEF FFfinalOf, Scorers, NewColumn
    <2>4. v = NaN
      <3>1. PICK sides : v = Mean(Moments(Restrict(Scorers(t),
                KeptIn(Scorers(t), Scorers(t), NewColumn(t), tauC, sides)), NewColumn(t)))
        BY <2>3, FilterIs
      <3> QED
        BY <2>1, <2>2, <3>1 DEF KeptIn
    <2> QED
      BY <2>4
  <1>2. CASE Others(t) # {}
    <2>1. /\ v \in Int
          /\ \E q \in Others(t) : v >= Scale * NewColumn(t)[q]
          /\ \E q \in Others(t) : v <= Scale * NewColumn(t)[q]
      BY <1>2, NewColumnCounted, FilterIsBetween
    <2> QED
      BY <1>2, <2>1, NewColumnCounted
  <1> QED
    BY <1>1, <1>2

LEMMA FinalHeard ==
    ASSUME Rows, Evaluated, Voted = Provider, NEW t \in Provider, Others(t) # {}, tauC > 4
    PROVE  NaN \notin FFfinalOf(t)
  BY NewColumnCounted, FilterHears

\* Among finitely many one beats all; the consumer's loop finds it.
LEMMA BestExists ==
    ASSUME NEW T, IsFiniteSet(T), T # {}, T \subseteq Int,
           NEW f, \A t \in T : f[t] \in Int
    PROVE  \E t \in T : \A u \in T : f[t] > f[u] \/ (f[t] = f[u] /\ t <= u)
  <1> DEFINE Best(U) == \E t \in U : \A u \in U : f[t] > f[u] \/ (f[t] = f[u] /\ t <= u)
             Good == {U \in SUBSET T : U = {} \/ Best(U)}
  <1>1. {} \in Good
    OBVIOUS
  <1>2. ASSUME NEW U \in SUBSET T, NEW x \in U, U \ {x} \in Good PROVE U \in Good
    <2>1. CASE U \ {x} = {}
      <3>1. U = {x} /\ x \in Int
        BY <2>1
      <3> QED
        BY <3>1
    <2>2. CASE U \ {x} # {}
      <3>1. PICK t \in U \ {x} : \A u \in U \ {x} : f[t] > f[u] \/ (f[t] = f[u] /\ t <= u)
        BY <1>2, <2>2
      <3>2. \A u \in U : f[u] \in Int /\ u \in Int
        OBVIOUS
      <3>3. CASE f[t] > f[x] \/ (f[t] = f[x] /\ t <= x)
        <4>1. \A u \in U : f[t] > f[u] \/ (f[t] = f[u] /\ t <= u)
          BY <3>1, <3>3
        <4> QED
          BY <4>1
      <3>4. CASE ~(f[t] > f[x] \/ (f[t] = f[x] /\ t <= x))
        <4>1. f[x] > f[t] \/ (f[x] = f[t] /\ x <= t)
          BY <3>2, <3>4
        <4>2. \A u \in U : f[x] > f[u] \/ (f[x] = f[u] /\ x <= u)
          BY <3>1, <3>2, <4>1
        <4> QED
          BY <4>2
      <3> QED
        BY <3>3, <3>4
    <2> QED
      BY <2>1, <2>2
  <1> HIDE DEF Good
  <1>3. T \in Good
    BY <1>1, <1>2, ElementInduction
  <1> QED
    BY <1>3 DEF Good

\* Who wins is above -10 and beats all; nobody wins if nobody is above.
LEMMA WinnerBeats ==
    ASSUME NEW final, \A t \in Provider : final[t] = NaN \/ final[t] \in Int
    PROVE  LET above == {t \in Provider : final[t] # NaN /\ final[t] > LowestFF}
           IN  /\ above = {} => WinnerOf(final) = NoWinner
               /\ above # {} => /\ WinnerOf(final) \in above
                                /\ \A u \in Provider : Beats(final, WinnerOf(final), u)
  <1> DEFINE above == {t \in Provider : final[t] # NaN /\ final[t] > LowestFF}
  <1> SUFFICES ASSUME above # {}
               PROVE  \E t \in above : \A u \in Provider : Beats(final, t, u)
    BY DEF WinnerOf
  <1>1. LowestFF \in Int
    BY ScaleAssumption DEF LowestFF
  <1>2. /\ IsFiniteSet(above) /\ above \subseteq Int
        /\ \A t \in above : final[t] \in Int /\ final[t] > LowestFF
    <2>1. IsFiniteSet(above)
      BY Providers, FS_Subset
    <2>2. \A t \in above : t \in Provider /\ final[t] # NaN /\ final[t] > LowestFF
      OBVIOUS
    <2> HIDE DEF above
    <2>3. \A t \in above : t \in Int
      BY <2>2, Providers
    <2> QED
      BY <2>1, <2>2, <2>3
  <1>3. \A u \in Provider : u \in above \/ final[u] = NaN
                              \/ (final[u] \in Int /\ ~(final[u] > LowestFF))
    OBVIOUS
  <1> HIDE DEF above
  <1>4. PICK t \in above : \A u \in above : final[t] > final[u] \/ (final[t] = final[u] /\ t <= u)
    BY <1>2, BestExists
  <1>5. ASSUME NEW u \in Provider PROVE Beats(final, t, u)
    <2>1. CASE u \in above
      BY <1>4, <2>1 DEF Beats
    <2>2. CASE final[u] = NaN
      BY <2>2 DEF Beats
    <2>3. CASE final[u] \in Int /\ ~(final[u] > LowestFF)
      <3>1. final[t] > final[u]
        BY <1>1, <1>2, <2>3
      <3> QED
        BY <3>1 DEF Beats
    <2> QED
      BY <1>3, <2>1, <2>2, <2>3
  <1> QED
    BY <1>5

\* What Chosen says of a decision.
LEMMA FinalOfWinner ==
    ASSUME Inv, winner # Undecided
    PROVE  /\ Voted = Provider /\ Rows /\ Evaluated
           /\ \E final : /\ \A t \in Provider : final[t] \in FFfinalOf(t)
                         /\ \A t \in Provider : final[t] = NaN \/ final[t] \in Int
                         /\ winner = WinnerOf(final)
  <1>1. Voted = Provider /\ Rows /\ Evaluated
    BY DEF Inv, Chosen
  <1>2. PICK final : /\ \A t \in Provider : final[t] \in FFfinalOf(t)
                     /\ winner = WinnerOf(final)
    BY DEF Inv, Chosen
  <1>3. \A t \in Provider : final[t] = NaN \/ final[t] \in Int
    BY <1>1, <1>2, FinalBetween
  <1> QED
    BY <1>1, <1>2, <1>3

\* The type invariant; a winner is one of the providers or nobody.
THEOREM ScoringTypes == Spec => []TypeOK
  <1>1. Inv => TypeOK
    <2> SUFFICES ASSUME Inv PROVE TypeOK
      OBVIOUS
    <2>1. winner \in Provider \cup {NoWinner, Undecided}
      <3>1. CASE winner = Undecided
        BY <3>1
      <3>2. CASE winner # Undecided
        <4>1. PICK final : /\ \A t \in Provider : final[t] = NaN \/ final[t] \in Int
                           /\ winner = WinnerOf(final)
          BY <3>2, FinalOfWinner
        <4> QED
          BY <4>1, WinnerBeats
      <3> QED
        BY <3>1, <3>2
    <2> QED
      BY <2>1 DEF TypeOK, Inv, Rows, Evaluated
  <1> QED
    BY ScoringInvariant, <1>1, PTL

\* A product with what is positive keeps the order.
LEMMA ScaleOrder ==
    \A a, b \in Int : /\ Scale * a \in Int
                      /\ Scale * a <= Scale * b => a <= b
                      /\ a < b => Scale * a < Scale * b
  <1>1. Scale \in Int /\ Scale > 0
    BY ScaleAssumption
  <1>2. ASSUME NEW a \in Int, NEW b \in Int, a < b PROVE Scale * a < Scale * b
    <2>1. \A c \in Int : c > 0 => Scale * c > 0 /\ Scale * c \in Int
      BY <1>1
    <2>2. Scale * b = Scale * a + Scale * (b - a) /\ Scale * a \in Int
      BY <1>1
    <2>3. b - a \in Int /\ b - a > 0
      BY <1>2
    <2> QED
      BY <2>1, <2>2, <2>3
  <1>3. ASSUME NEW a \in Int, NEW b \in Int, Scale * a <= Scale * b PROVE a <= b
    <2>1. Scale * a \in Int /\ Scale * b \in Int
      BY <1>1
    <2>2. CASE b < a
      BY <1>2, <1>3, <2>1, <2>2
    <2> QED
      BY <2>2
  <1> QED
    BY <1>1, <1>2, <1>3

\* highestFF begins below every score above -10, and -10 is below it.
LEMMA LowestIs == LowestFF = Scale * (-10 * Scale) /\ -10 * Scale \in Int
  <1>1. Scale \in Int
    BY ScaleAssumption
  <1> QED
    BY <1>1 DEF LowestFF

\* With at least two providers and a consumer's tau above 1, an
\* auction without a winner is one whose every provider somebody evaluated at -10 or
\* less: the loop over the final scores misses nobody, and none of them is 0/0.
THEOREM SomebodyWins == ProviderCount >= 2 /\ Spec => []SomeoneWins
  <1> SUFFICES ASSUME ProviderCount >= 2 PROVE Spec => []SomeoneWins
    OBVIOUS
  <1>1. Inv => SomeoneWins
    <2> SUFFICES ASSUME Inv, winner = NoWinner, tauC > 4, NEW t \in Provider
                 PROVE  \E q \in Others(t) : FFSnew[q][t] <= -10 * Scale
      BY DEF SomeoneWins
    <2>1. winner # Undecided
      BY DEF NoWinner, Undecided
    <2>2. /\ Voted = Provider /\ Rows /\ Evaluated
          /\ \E final : /\ \A u \in Provider : final[u] \in FFfinalOf(u)
                        /\ \A u \in Provider : final[u] = NaN \/ final[u] \in Int
                        /\ winner = WinnerOf(final)
      BY <2>1, FinalOfWinner
    <2>3. PICK final : /\ \A u \in Provider : final[u] \in FFfinalOf(u)
                       /\ \A u \in Provider : final[u] = NaN \/ final[u] \in Int
                       /\ winner = WinnerOf(final)
      BY <2>2
    <2>4. Others(t) # {}
      BY Providers
    <2>5. final[t] \in FFfinalOf(t) /\ final[t] # NaN /\ final[t] \in Int
      BY <2>2, <2>3, <2>4, FinalHeard
    <2>6. ~(final[t] > LowestFF)
      <3>1. NoWinner \notin Provider
        BY DEF NoWinner, Provider
      <3> QED
        BY <2>3, <2>5, <3>1, WinnerBeats
    <2>7. PICK q \in Others(t) : final[t] >= Scale * FFSnew[q][t]
      BY <2>2, <2>5, FinalBetween
    <2>8. FFSnew[q][t] \in Int
      BY <2>2, <2>4, NewColumnCounted
    <2>9. Scale * FFSnew[q][t] <= Scale * (-10 * Scale)
      BY <2>5, <2>6, <2>7, <2>8, ScaleOrder, LowestIs
    <2> QED
      BY <2>8, <2>9, ScaleOrder, LowestIs
  <1> QED
    BY ScoringInvariant, <1>1, PTL

-----------------------------------------------------------------------------
(* The provider all others agree on *)

\* Agreed scores come out of the filter as they went in.
LEMMA AgreedEvaluation ==
    ASSUME Rows, NEW p \in Provider, NEW t \in Others(p), tauP > 4, NEW v \in Int,
           \A q \in Others(t) : FFS[p][q][t] = v
    PROVE  FFnewOf(p, t) \subseteq {Scale * v}
  <1>1. Others(t) \subseteq Provider
    BY DEF Others
  <1>2. \A q \in Others(t) : Column(p, t)[q] = v
    BY <1>1, ColumnCounted
  <1> QED
    BY <1>1, <1>2, ColumnCounted, FilterFlat

LEMMA AgreedFinal ==
    ASSUME Rows, Evaluated, Voted = Provider, NEW t \in Provider, Others(t) # {},
           tauC > 4, NEW v \in Int, \A q \in Others(t) : FFSnew[q][t] = v
    PROVE  FFfinalOf(t) \subseteq {Scale * v}
  <1>1. \A q \in Others(t) : NewColumn(t)[q] = v
    BY NewColumnCounted
  <1> QED
    BY <1>1, NewColumnCounted, FilterFlat

\* Lower scores come out lower.
LEMMA LowerFinal ==
    ASSUME Rows, Evaluated, Voted = Provider, NEW u \in Provider, NEW v \in Int,
           \A p, q \in Provider : FFS[p][q][u] < v,
           NEW f \in FFfinalOf(u), f # NaN
    PROVE  f \in Int /\ f < Scale * (Scale * v)
  <1>1. f \in Int /\ \E q \in Others(u) : f <= Scale * FFSnew[q][u]
    BY FinalBetween
  <1>2. PICK q \in Others(u) : f <= Scale * FFSnew[q][u]
    BY <1>1
  <1>3. q \in Voted /\ u \in Others(q)
    BY DEF Others
  <1>4. FFSnew[q][u] \in Int /\ \E r \in Provider : FFSnew[q][u] <= Scale * FFS[q][r][u]
    BY <1>3, VotesBetween
  <1>5. PICK r \in Provider : FFSnew[q][u] <= Scale * FFS[q][r][u]
    BY <1>4
  <1>6. FFS[q][r][u] \in Int /\ FFS[q][r][u] < v
    BY <1>3, VotesBetween, ScoresAreInt
  <1>7. Scale * FFS[q][r][u] \in Int /\ Scale * FFS[q][r][u] < Scale * v /\ Scale * v \in Int
    BY <1>6, ScaleOrder
  <1>8. FFSnew[q][u] < Scale * v
    BY <1>4, <1>5, <1>7
  <1>9. /\ Scale * FFSnew[q][u] < Scale * (Scale * v)
        /\ Scale * FFSnew[q][u] \in Int /\ Scale * (Scale * v) \in Int
    BY <1>4, <1>7, <1>8, ScaleOrder
  <1> QED
    BY <1>1, <1>2, <1>9

\* With a provider's tau above 1 the score t has about itself cannot sway an
\* evaluation: what all others agree on comes out, with or without that score and
\* whatever z's division rounds to.
THEOREM AgreementStands == Spec => []AgreedScoreStands
  <1>1. Inv => AgreedScoreStands
    <2> SUFFICES ASSUME Inv, tauP > 4, NEW p \in DOMAIN FFSnew, NEW t \in Others(p),
                        NEW v \in Score[t], \A q \in Others(t) : FFS[p][q][t] = v
                 PROVE  FFSnew[p][t] = Scale * v
      BY DEF AgreedScoreStands
    <2>1. Rows /\ p \in Provider /\ FFSnew[p][t] \in FFnewOf(p, t)
      BY DEF Inv, Evaluated
    <2>2. v \in Int
      BY ScoreAssumption DEF Others, Provider
    <2> QED
      BY <2>1, <2>2, AgreedEvaluation
  <1> QED
    BY ScoringInvariant, <1>1, PTL

\* With at least two providers and a consumer's tau above 1 nobody is better than the
\* winner in everybody's eyes: the means the loop compares keep the order of
\* evaluations that do not overlap, however many of them the filter drops.
THEOREM WinnerUnbeaten == ProviderCount >= 2 /\ Spec => []WinnerIsUnbeaten
  <1> SUFFICES ASSUME ProviderCount >= 2 PROVE Spec => []WinnerIsUnbeaten
    OBVIOUS
  <1>1. Inv => WinnerIsUnbeaten
    <2> SUFFICES ASSUME Inv, tauC > 4, NEW t \in Provider, NEW u \in Provider, winner = t,
                        \A q \in Others(t), r \in Others(u) : FFSnew[q][t] < FFSnew[r][u]
                 PROVE  FALSE
      BY DEF WinnerIsUnbeaten
    <2>1. winner # Undecided /\ t # NoWinner
      BY DEF Undecided, NoWinner, Provider
    <2>2. /\ Voted = Provider /\ Rows /\ Evaluated
          /\ \E final : /\ \A s \in Provider : final[s] \in FFfinalOf(s)
                        /\ \A s \in Provider : final[s] = NaN \/ final[s] \in Int
                        /\ winner = WinnerOf(final)
      BY <2>1, FinalOfWinner
    <2>3. PICK final : /\ \A s \in Provider : final[s] \in FFfinalOf(s)
                       /\ \A s \in Provider : final[s] = NaN \/ final[s] \in Int
                       /\ winner = WinnerOf(final)
      BY <2>2
    <2>4. Others(t) # {} /\ Others(u) # {}
      BY Providers
    <2>5. /\ final[t] # NaN /\ final[t] \in Int /\ final[t] \in FFfinalOf(t)
          /\ final[u] # NaN /\ final[u] \in Int /\ final[u] \in FFfinalOf(u)
      BY <2>2, <2>3, <2>4, FinalHeard
    <2>6. final[t] >= final[u]
      <3>1. Beats(final, t, u)
        BY <2>1, <2>3, WinnerBeats
      <3> QED
        BY <2>5, <3>1 DEF Beats
    <2>7. PICK q \in Others(t) : final[t] <= Scale * FFSnew[q][t]
      BY <2>2, <2>5, FinalBetween
    <2>8. PICK r \in Others(u) : final[u] >= Scale * FFSnew[r][u]
      BY <2>2, <2>5, FinalBetween
    <2>9. FFSnew[q][t] \in Int /\ FFSnew[r][u] \in Int /\ FFSnew[q][t] < FFSnew[r][u]
      BY <2>2, <2>4, NewColumnCounted
    <2>10. /\ Scale * FFSnew[q][t] < Scale * FFSnew[r][u]
           /\ Scale * FFSnew[q][t] \in Int /\ Scale * FFSnew[r][u] \in Int
      BY <2>9, ScaleOrder
    <2> QED
      BY <2>5, <2>6, <2>7, <2>8, <2>10
  <1> QED
    BY ScoringInvariant, <1>1, PTL

\* With at least two providers and both taus above 1 the provider all others give the
\* same score wins, if that is above every score of anybody else, those the others
\* have about themselves included, and above -10, where the loop begins.
THEOREM TheUnanimousWins == ProviderCount >= 2 /\ Spec => []UnanimousWins
  <1> SUFFICES ASSUME ProviderCount >= 2 PROVE Spec => []UnanimousWins
    OBVIOUS
  <1>1. Inv => UnanimousWins
    <2> SUFFICES ASSUME Inv, NEW t \in Provider, winner # Undecided, tauP > 4, tauC > 4,
                        Unanimous(t)
                 PROVE  winner = t
      BY DEF UnanimousWins
    <2>1. /\ Voted = Provider /\ Rows /\ Evaluated
          /\ \E final : /\ \A u \in Provider : final[u] \in FFfinalOf(u)
                        /\ \A u \in Provider : final[u] = NaN \/ final[u] \in Int
                        /\ winner = WinnerOf(final)
      BY FinalOfWinner
    <2>2. PICK final : /\ \A u \in Provider : final[u] \in FFfinalOf(u)
                       /\ \A u \in Provider : final[u] = NaN \/ final[u] \in Int
                       /\ winner = WinnerOf(final)
      BY <2>1
    <2>3. PICK v \in Score[t] : /\ v > -10
                                /\ \A p \in Provider : \A q \in Others(t) : FFS[p][q][t] = v
                                /\ \A p, q \in Provider : \A u \in Others(t) : FFS[p][q][u] < v
      BY DEF Unanimous
    <2>4. v \in Int
      BY ScoreAssumption DEF Provider
    <2>5. Others(t) # {}
      BY Providers
    <2>6. \A q \in Others(t) : FFSnew[q][t] = Scale * v
      <3> SUFFICES ASSUME NEW q \in Others(t) PROVE FFSnew[q][t] = Scale * v
        OBVIOUS
      <3>1. q \in Voted /\ t \in Others(q) /\ q \in Provider
        BY <2>1 DEF Others
      <3>2. FFSnew[q][t] \in FFnewOf(q, t)
        BY <2>1, <3>1, VotesBetween
      <3>3. FFnewOf(q, t) \subseteq {Scale * v}
        BY <2>1, <2>3, <2>4, <3>1, AgreedEvaluation
      <3> QED
        BY <3>2, <3>3
    <2>7. final[t] = Scale * (Scale * v) /\ final[t] \in Int
      <3>1. Scale * v \in Int /\ Scale * (Scale * v) \in Int
        BY <2>4, ScaleOrder
      <3>2. FFfinalOf(t) \subseteq {Scale * (Scale * v)}
        BY <2>1, <2>5, <2>6, <3>1, AgreedFinal
      <3> QED
        BY <2>2, <3>1, <3>2
    <2>8. final[t] # NaN /\ final[t] > LowestFF
      <3>1. -10 * Scale < Scale * v
        <4>1. Scale * (-10) = -10 * Scale
          BY ScaleAssumption
        <4>2. Scale * (-10) < Scale * v
          BY <2>3, <2>4, ScaleOrder
        <4> QED
          BY <4>1, <4>2
      <3>2. Scale * v \in Int
        BY <2>4, ScaleOrder
      <3>3. Scale * (-10 * Scale) < Scale * (Scale * v)
        BY <3>1, <3>2, ScaleOrder, LowestIs
      <3>4. Scale * (-10 * Scale) \in Int
        BY ScaleOrder, LowestIs
      <3> QED
        BY <2>7, <3>3, <3>4, LowestIs, ScoreAssumption
    <2>9. winner \in Provider /\ Beats(final, winner, t)
      BY <2>2, <2>8, WinnerBeats
    <2>10. final[winner] # NaN
      BY <2>2, <2>8, WinnerBeats
    <2>11. CASE winner \in Others(t)
      <3>1. \A p, q \in Provider : FFS[p][q][winner] < v
        BY <2>3, <2>11
      <3>2. final[winner] \in Int /\ final[winner] < Scale * (Scale * v)
        BY <2>1, <2>2, <2>4, <2>9, <2>10, <3>1, LowerFinal
      <3> QED
        BY <2>7, <2>8, <2>9, <3>2 DEF Beats
    <2> QED
      BY <2>9, <2>11 DEF Others
  <1> QED
    BY ScoringInvariant, <1>1, PTL

-----------------------------------------------------------------------------
(* When tau keeps everybody *)

LEMMA ExactDivision ==
    \A s \in Int, n \in 1 .. (ProviderCount + 1) : ((Scale * s) \div n) * n = Scale * s
  <1> SUFFICES ASSUME NEW s \in Int, NEW n \in 1 .. (ProviderCount + 1)
               PROVE  ((Scale * s) \div n) * n = Scale * s
    OBVIOUS
  <1> DEFINE k == Scale \div n
             d == (Scale * s) \div n
  <1>1. n \in Int /\ n > 0 /\ n \in Nat \ {0} /\ Scale \in Int /\ Scale % n = 0
    BY ScaleAssumption, CountAssumption
  <1>2. k \in Int /\ Scale = n * k
    BY <1>1
  <1>3. Scale * s \in Int
    BY <1>1, ProductSigns
  <1>4. d \in Int /\ n * d <= Scale * s /\ Scale * s < n * d + n
    BY <1>1, <1>3, Division
  <1>5. Scale * s = n * (k * s) /\ k * s \in Int
    <2> HIDE DEF k
    <2>1. \A i, j, l \in Int : (i * j) * l = i * (j * l) /\ j * l \in Int
      OBVIOUS
    <2> QED
      BY <1>1, <1>2, <2>1
  <1> HIDE DEF k, d
  <1>6. \A e \in Int : n * d <= n * e /\ n * e < n * d + n => e = d
    <2> SUFFICES ASSUME NEW e \in Int, n * d <= n * e, n * e < n * d + n PROVE e = d
      OBVIOUS
    <2>1. n * (e - d) = n * e - n * d /\ n * e \in Int /\ n * d \in Int
      BY <1>1, <1>4
    <2>2. \A i \in Int : n * i >= 0 /\ n * i < n => i = 0
      <3> SUFFICES ASSUME NEW i \in Int, n * i >= 0, n * i < n, i # 0 PROVE FALSE
        OBVIOUS
      <3>1. CASE i >= 1
        <4>1. n * i >= n
          BY <1>1, <3>1
        <4> QED
          BY <1>1, <4>1
      <3>2. CASE i <= -1
        <4>1. n * i <= -n
          BY <1>1, <3>2
        <4> QED
          BY <1>1, <4>1
      <3> QED
        BY <3>1, <3>2
    <2>3. n * (e - d) >= 0 /\ n * (e - d) < n
      BY <1>1, <1>4, <2>1
    <2>4. e - d = 0
      BY <1>4, <2>2, <2>3
    <2> QED
      BY <1>4, <2>4
  <1>7. k * s = d
    BY <1>4, <1>5, <1>6
  <1>8. d * n = n * d
    BY <1>1, <1>4
  <1> QED
    BY <1>5, <1>7, <1>8 DEF d

\* With tau^2 > n - 1, n of them, nobody is dropped from the population.
LEMMA NobodyIsDropped ==
    ASSUME NEW w, NEW x, Counted(w, x), NEW tau \in Nat,
           Moments(w, x).n >= 2, tau > 4 * (Moments(w, x).n - 1)
    PROVE  \A q \in DOMAIN w : Within(Moments(w, x), tau, x[q])
  <1> DEFINE m == Moments(w, x)
  <1> SUFFICES ASSUME NEW q \in DOMAIN w PROVE Within(m, tau, x[q])
    OBVIOUS
  <1> DEFINE o == Offset(m, x[q])
             r == m.spread
             n == m.n
  <1>1. n \in Int /\ r \in Int /\ r >= 0 /\ o \in Int
    BY MomentsType, SpreadNonneg, ProductSigns DEF Offset, Counted
  <1>2. o * o <= (n - 1) * r
    BY NobodyIsFar
  <1>3. n >= 2 /\ tau > 4 * (n - 1)
    OBVIOUS
  <1>4. 4 * o * o < tau * r \/ (r = 0 /\ o = 0)
    <2> HIDE DEF m, o, r, n
    <2>1. 4 * o * o = 4 * (o * o) /\ o * o \in Int /\ o * o >= 0 /\ (o # 0 => o * o > 0)
      BY <1>1
    <2>2. CASE r = 0
      BY <1>1, <1>2, <2>1, <2>2
    <2>3. CASE r # 0
      <3>1. 4 * (o * o) <= (4 * (n - 1)) * r /\ (4 * (n - 1)) * r \in Int
        <4>1. (n - 1) * r \in Int /\ (4 * (n - 1)) * r = 4 * ((n - 1) * r)
          BY <1>1
        <4>2. \A i, j \in Int : i <= j => 4 * i <= 4 * j /\ 4 * j \in Int
          OBVIOUS
        <4> QED
          BY <1>2, <2>1, <4>1, <4>2
      <3>2. (4 * (n - 1)) * r < tau * r /\ tau * r \in Int
        <4>1. \A i, j \in Int : i < j => i * r < j * r /\ j * r \in Int
          BY <1>1, <2>3
        <4>2. 4 * (n - 1) \in Int
          BY <1>1
        <4> QED
          BY <1>3, <4>1, <4>2
      <3> QED
        BY <2>1, <3>1, <3>2
    <2> QED
      BY <2>2, <2>3
  <1>5. tau > 4
    <2> HIDE DEF n
    <2> QED
      BY <1>1, <1>3
  <1> QED
    BY <1>4, <1>5 DEF Within, Flat

LEMMA TotalsOf ==
    ASSUME Rows, NEW p \in Provider, NEW t \in Others(p)
    PROVE  LET all == FFS[p][p][t] + SumFunction([q \in Others(t) |-> FFS[p][q][t]])
               m == Moments(PopulationOf(p, t), Column(p, t))
               whole == Moments(SampleOf(p, t), Column(p, t))
           IN  /\ m.n = ProviderCount /\ m.sum = all /\ all \in Int
               /\ whole.n = ProviderCount + 1 /\ whole.sum = all + FFS[p][t][t]
  <1> DEFINE S == Others(t)
             R == S \ {p}
             x == Column(p, t)
             g == [q \in S |-> FFS[p][q][t]]
             w == PopulationOf(p, t)
             l == Linear(w, x)
             ww == SampleOf(p, t)
             ll == Linear(ww, x)
  <1>1. /\ DOMAIN w = S /\ DOMAIN ww = Provider /\ p \in S /\ p \in Provider /\ t \in Provider
        /\ \A q \in Provider : x[q] = FFS[p][q][t] /\ FFS[p][q][t] \in Int
        /\ S = Provider \ {t} /\ IsFiniteSet(S) /\ IsFiniteSet(Provider)
        /\ Cardinality(S) = ProviderCount - 1 /\ ProviderCount \in Int
    <2>1. /\ DOMAIN w = S /\ DOMAIN ww = Provider /\ p \in S /\ t \in Provider
          /\ \A q \in Provider : x[q] = FFS[p][q][t] /\ FFS[p][q][t] \in Int
      BY ColumnCounted
    <2>2. /\ IsFiniteSet(S) /\ IsFiniteSet(Provider)
          /\ Cardinality(S) = ProviderCount - 1 /\ ProviderCount \in Int
      BY <2>1, Providers
    <2> QED
      BY <2>1, <2>2 DEF Others
  <1>2. IsFiniteSet(R) /\ Cardinality(R) = ProviderCount - 2
    BY <1>1, FS_RemoveElement
  <1>3. /\ w[p] = 2 /\ ww[t] = 1 /\ \A q \in R : w[q] = 1
        /\ \A q \in S : w[q] \in Int /\ ww[q] = w[q] /\ g[q] = FFS[p][q][t]
        /\ \A q \in Provider : ww[q] \in Int
    BY <1>1 DEF PopulationOf, SampleOf
  <1>4. /\ \A q \in S : l[q] = w[q] * x[q]
        /\ \A q \in Provider : ll[q] = ww[q] * x[q]
    <2> HIDE DEF S, x, w, ww
    <2> QED
      BY <1>1 DEF Linear
  <1>5. SumFunction(g) = Sum(g, S)
    BY DEF SumFunction, Sum
  <1> HIDE DEF S, R, x, g, w, l, ww, ll
  <1>6. /\ l[p] = 2 * FFS[p][p][t] /\ l[p] \in Int /\ \A q \in R : l[q] = g[q] /\ g[q] \in Int
        /\ g[p] = FFS[p][p][t] /\ g[p] \in Int
        /\ \A q \in S : g[q] \in Int /\ l[q] \in Int /\ ll[q] = l[q]
        /\ ll[t] = FFS[p][t][t] /\ \A q \in Provider : ll[q] \in Int
    <2>1. \A q \in Provider : /\ ww[q] * x[q] \in Int
                              /\ 1 * x[q] = FFS[p][q][t] /\ 2 * x[q] = 2 * FFS[p][q][t]
      BY <1>1, <1>3, ProductSigns
    <2>2. \A q \in S : q \in Provider
      BY <1>1
    <2>3. \A q \in R : q \in S
      BY DEF R
    <2> QED
      BY <1>1, <1>3, <1>4, <2>1, <2>2, <2>3
  <1>7. Sum(w, S) = ProviderCount
    <2>1. Sum(w, S) = w[p] + Sum(w, R)
      BY <1>1, <1>3, SumTake DEF R
    <2>2. Sum(w, R) = ProviderCount - 2
      BY <1>2, <1>3, SumOnes
    <2> QED
      BY <1>1, <1>3, <2>1, <2>2
  <1>8. Sum(l, S) = FFS[p][p][t] + Sum(g, S) /\ Sum(g, S) \in Int
    <2>1. Sum(l, S) = l[p] + Sum(l, R)
      BY <1>1, <1>6, SumTake DEF R
    <2>2. Sum(g, S) = g[p] + Sum(g, R)
      BY <1>1, <1>6, SumTake DEF R
    <2>3. Sum(l, R) = Sum(g, R) /\ Sum(g, R) \in Int
      BY <1>2, <1>6, SumSame, SumType
    <2> QED
      BY <1>1, <1>6, <2>1, <2>2, <2>3
  <1>9. Sum(ww, Provider) = ProviderCount + 1
    <2>1. Sum(ww, Provider) = ww[t] + Sum(ww, S)
      BY <1>1, <1>3, SumTake
    <2>2. Sum(ww, S) = Sum(w, S)
      BY <1>1, <1>3, SumSame
    <2> QED
      BY <1>1, <1>3, <1>7, <2>1, <2>2
  <1>10. Sum(ll, Provider) = FFS[p][p][t] + Sum(g, S) + FFS[p][t][t]
    <2>1. Sum(ll, Provider) = ll[t] + Sum(ll, S)
      BY <1>1, <1>6, SumTake
    <2>2. Sum(ll, S) = Sum(l, S)
      BY <1>1, <1>6, SumSame
    <2> QED
      BY <1>1, <1>6, <1>8, <2>1, <2>2
  <1>11. /\ Moments(w, x).n = Sum(w, S) /\ Moments(w, x).sum = Sum(l, S)
         /\ Moments(ww, x).n = Sum(ww, Provider) /\ Moments(ww, x).sum = Sum(ll, Provider)
    BY <1>1, MomentsAre DEF l, ll
  <1>12. FFS[p][p][t] + Sum(g, S) \in Int
    BY <1>6, <1>8
  <1> QED
    BY <1>5, <1>7, <1>8, <1>9, <1>10, <1>11, <1>12 DEF w, ww, x, g, S

\* With tau^2 > n - 1 an evaluation is the mean of all the scores, with or
\* without the one its subject gave itself: nobody else's score is ever dropped.
THEOREM OutliersStay == Spec => []OutlierStays
  <1>1. Inv => OutlierStays
    <2> SUFFICES ASSUME Inv, tauP > 4 * (ProviderCount - 1),
                        NEW p \in DOMAIN FFSnew, NEW t \in Others(p)
                 PROVE  LET all == FFS[p][p][t] + SumFunction([q \in Others(t) |-> FFS[p][q][t]])
                        IN  \/ FFSnew[p][t] * ProviderCount = Scale * all
                            \/ FFSnew[p][t] * (ProviderCount + 1) = Scale * (all + FFS[p][t][t])
      BY DEF OutlierStays
    <2> DEFINE all == FFS[p][p][t] + SumFunction([q \in Others(t) |-> FFS[p][q][t]])
               population == PopulationOf(p, t)
               sample == SampleOf(p, t)
               x == Column(p, t)
               m == Moments(population, x)
    <2>1. Rows /\ p \in Provider /\ FFSnew[p][t] \in FFnewOf(p, t)
      BY DEF Inv, Evaluated
    <2>2. /\ Counted(population, x) /\ DOMAIN population = Others(t)
          /\ DOMAIN sample = Provider /\ tauP \in Nat /\ p \in Others(t) /\ t \in Provider
          /\ FFnewOf(p, t) = Filtered(population, sample, x, tauP)
      BY <2>1, ColumnCounted
    <2>3. m.n = ProviderCount /\ ProviderCount >= 2 /\ ProviderCount \in Int
      <3>1. \A c \in Int : p # t /\ p \in 1 .. c /\ t \in 1 .. c => c >= 2
        OBVIOUS
      <3>2. p # t
        BY <2>2 DEF Others
      <3>3. p \in 1 .. ProviderCount /\ t \in 1 .. ProviderCount /\ ProviderCount \in Int
        BY <2>1, <2>2, CountAssumption DEF Provider
      <3>4. m.n = ProviderCount
        BY <2>1, TotalsOf
      <3> QED
        BY <3>1, <3>2, <3>3, <3>4
    <2>4. \A q \in Others(t) : Within(m, tauP, x[q])
      BY <2>2, <2>3, NobodyIsDropped
    <2>5. PICK sides : FFSnew[p][t] = Mean(Moments(Restrict(sample,
                          KeptIn(population, sample, x, tauP, sides)), x))
      BY <2>1, <2>2, FilterIs
    <2> DEFINE K == KeptIn(population, sample, x, tauP, sides)
    <2>6. Others(t) \subseteq K /\ K \subseteq Provider
      BY <2>2, <2>4 DEF KeptIn, Stays, Others
    <2>7. CASE K = Others(t)
      <3>1. Restrict(sample, K) = population
        BY <2>2, <2>7 DEF Restrict, SampleOf, PopulationOf, Others
      <3>2. m.n = ProviderCount /\ m.sum = all /\ all \in Int
        BY <2>1, TotalsOf
      <3>3. Mean(m) = (Scale * all) \div ProviderCount
        BY <2>3, <3>2 DEF Mean
      <3>4. FFSnew[p][t] = (Scale * all) \div ProviderCount
        BY <2>5, <3>1, <3>3
      <3>5. ProviderCount \in 1 .. (ProviderCount + 1)
        BY <2>3
      <3> HIDE DEF all
      <3>6. FFSnew[p][t] * ProviderCount = Scale * all
        BY <3>2, <3>4, <3>5, ExactDivision
      <3> QED
        BY <3>6 DEF all
    <2>8. CASE K = Provider
      <3> DEFINE whole == Moments(sample, x)
      <3>1. Restrict(sample, K) = sample
        BY <2>2, <2>8 DEF Restrict, SampleOf
      <3>2. whole.n = ProviderCount + 1 /\ whole.sum = all + FFS[p][t][t] /\ all \in Int
        BY <2>1, TotalsOf
      <3>3. FFS[p][t][t] \in Int
        BY <2>1, <2>2, ColumnCounted
      <3>4. Mean(whole) = (Scale * (all + FFS[p][t][t])) \div (ProviderCount + 1)
        BY <2>3, <3>2 DEF Mean
      <3>5. FFSnew[p][t] = (Scale * (all + FFS[p][t][t])) \div (ProviderCount + 1)
        BY <2>5, <3>1, <3>4
      <3>6. ProviderCount + 1 \in 1 .. (ProviderCount + 1)
        BY <2>3
      <3> HIDE DEF all
      <3>7. all + FFS[p][t][t] \in Int
        BY <3>2, <3>3
      <3>8. FFSnew[p][t] * (ProviderCount + 1) = Scale * (all + FFS[p][t][t])
        BY <3>5, <3>6, <3>7, ExactDivision
      <3> QED
        BY <3>8 DEF all
    <2> QED
      BY <2>6, <2>7, <2>8 DEF Others
  <1> QED
    BY ScoringInvariant, <1>1, PTL
=============================================================================
