----------------------------- MODULE Arithmetic -----------------------------
(***************************************************************************)
(* Facts about numbers, finite sums and remainders that the proofs share.  *)
(*                                                                         *)
(* Induction is taken from the well-foundedness of the natural numbers: a  *)
(* set of numbers that contains 0 and every successor contains them all.   *)
(* SumFunction of the community modules is a fold over the domain of a     *)
(* function; SumOver gives it the laws of sums.                            *)
(***************************************************************************)
EXTENDS Integers, FiniteSets, Functions, FiniteSetTheorems,
        WellFoundedInduction, TLAPS

\* A nonempty set of natural numbers has a least element.
LEMMA LeastNumber ==
  ASSUME NEW T, T \subseteq Nat, T # {}
  PROVE  \E x \in T : \A y \in T : x <= y
<1> DEFINE R == {ss \in Nat \X Nat : ss[1] < ss[2]}
<1>1. IsWellFoundedOn(R, Nat)
  BY NatLessThanWellFounded DEF OpToRel
<1> HIDE DEF R
<1>2. PICK x \in T : \A y \in T : <<y, x>> \notin R
  BY <1>1, WFMin
<1>3. ASSUME NEW y \in T, y < x PROVE FALSE
  <2>1. <<y, x>> \in Nat \X Nat /\ <<y, x>>[1] < <<y, x>>[2]
    BY <1>3
  <2>2. <<y, x>> \in R
    BY <2>1 DEF R
  <2> QED BY <1>2, <2>2
<1> QED BY <1>3

\* A nonempty set of natural numbers with an upper bound has a greatest one.
LEMMA GreatestNumber ==
  ASSUME NEW n \in Nat, NEW T, T \subseteq 0..n, T # {}
  PROVE  \E x \in T : \A y \in T : y <= x
<1> DEFINE U == {k \in Nat : \A y \in T : y <= k}
<1>1. n \in U
  OBVIOUS
<1>2. PICK m \in U : \A k \in U : m <= k
  BY <1>1, LeastNumber
<1>3. m \in T
  <2>1. CASE m \notin T
    <3>1. PICK t \in T : TRUE
      OBVIOUS
    <3>2. \A y \in T : y \in Nat /\ y <= m /\ y # m
      BY <1>2, <2>1
    <3>3. m - 1 \in Nat /\ \A y \in T : y <= m - 1
      BY <1>2, <3>1, <3>2
    <3>4. m - 1 \in U
      BY <3>3
    <3> QED BY <1>2, <3>3, <3>4
  <2> QED BY <2>1
<1> QED BY <1>2, <1>3

\* A set of positive numbers that has every smaller one is an interval.
LEMMA DownwardInterval ==
  ASSUME NEW n \in Nat, NEW S, S \subseteq 1..n, \A p \in S : 1..p \subseteq S
  PROVE  IsFiniteSet(S) /\ Cardinality(S) \in 0..n /\ S = 1..Cardinality(S)
<1>1. CASE S = {}
  BY <1>1, FS_EmptySet
<1>2. CASE S # {}
  <2>0. S \subseteq 0..n
    OBVIOUS
  <2>1. PICK m \in S : \A y \in S : y <= m
    BY <1>2, <2>0, GreatestNumber
  <2>2. S = 1..m /\ m \in 1..n
    <3>1. m \in 1..n /\ S \subseteq 1..m
      BY <2>1
    <3>2. 1..m \subseteq S
      BY <2>1
    <3> QED BY <3>1, <3>2
  <2>3. IsFiniteSet(1..m) /\ Cardinality(1..m) = m
    BY <2>2, FS_Interval
  <2> QED BY <2>2, <2>3
<1> QED BY <1>1, <1>2

\* The elements of S with fewer than n smaller ones: the first n of S, and all
\* of them if they are not n.
LEMMA SmallestElements ==
  ASSUME NEW m \in Nat, NEW S, S \subseteq 1..m, NEW n \in Nat \ {0}
  PROVE  \A F : F = {p \in S : Cardinality({q \in S : q < p}) < n} =>
           /\ F \subseteq S
           /\ \A p \in F, q \in S : q < p => q \in F
           /\ Cardinality(F) # n => F = S
           /\ F = {} => S = {}
           /\ IsFiniteSet(F) /\ Cardinality(F) <= n
<1> DEFINE Below(p) == {q \in S : q < p}
<1>1. SUFFICES ASSUME NEW F, F = {p \in S : Cardinality(Below(p)) < n}
               PROVE  /\ F \subseteq S
                      /\ \A p \in F, q \in S : q < p => q \in F
                      /\ Cardinality(F) # n => F = S
                      /\ F = {} => S = {}
                      /\ IsFiniteSet(F) /\ Cardinality(F) <= n
  BY Zenon
<1>2. IsFiniteSet(S) /\ F \subseteq S
  <2>1. IsFiniteSet(1..m)
    BY FS_Interval
  <2> QED BY <1>1, <2>1, FS_Subset
<1>3. ASSUME NEW T \in SUBSET S
      PROVE  IsFiniteSet(T) /\ Cardinality(T) \in Nat
  BY <1>2, FS_Subset, FS_CardinalityType
<1>4. ASSUME NEW p \in F, NEW q \in S, q < p PROVE q \in F
  <2>0. p \in Nat /\ q \in Nat /\ \A x \in S : x \in Nat
    BY <1>2
  <2>1. Below(q) \in SUBSET Below(p) /\ IsFiniteSet(Below(p))
    <3>1. ASSUME NEW x \in S, x < q PROVE x < p
      BY <1>4, <2>0, <3>1
    <3>2. Below(q) \subseteq Below(p)
      BY <3>1
    <3>3. Below(p) \in SUBSET S
      OBVIOUS
    <3> HIDE DEF Below
    <3> QED BY <1>3, <3>2, <3>3
  <2>2. Cardinality(Below(q)) <= Cardinality(Below(p))
    BY <2>1, FS_Subset
  <2>3. Cardinality(Below(q)) \in Nat /\ Cardinality(Below(p)) \in Nat
    BY <1>3
  <2> HIDE DEF Below
  <2> QED BY <1>1, <2>2, <2>3
<1>5. Cardinality(F) <= n
  <2>1. CASE F = {}
    BY <2>1, FS_EmptySet
  <2>2. CASE F # {}
    <3>1. F \subseteq 0..m
      BY <1>2
    <3>2. PICK p \in F : \A y \in F : y <= p
      BY <2>2, <3>1, GreatestNumber
    <3>3. F \ {p} \in SUBSET Below(p)
      BY <1>2, <3>2
    <3>4. Cardinality(F \ {p}) <= Cardinality(Below(p))
      BY <1>3, <3>3, FS_Subset
    <3>5. Cardinality(F \ {p}) = Cardinality(F) - 1
      BY <1>2, <1>3, <3>2, FS_RemoveElement
    <3>6. Cardinality(Below(p)) < n
      BY <1>1, <3>2
    <3>7. Cardinality(F) \in Nat /\ Cardinality(Below(p)) \in Nat
      BY <1>2, <1>3
    <3> HIDE DEF Below
    <3> QED BY <3>4, <3>5, <3>6, <3>7
  <2> QED BY <2>1, <2>2
<1>6. ASSUME F # S PROVE Cardinality(F) = n
  <2>0. \A x \in S : x \in Nat
    OBVIOUS
  <2>1. S \ F \subseteq Nat /\ S \ F # {}
    BY <1>2, <1>6, <2>0
  <2>2. PICK p \in S \ F : \A y \in S \ F : p <= y
    BY <2>1, LeastNumber
  <2>3. ASSUME NEW x \in S, x < p PROVE x \in F
    BY <2>0, <2>2, <2>3
  <2>4. F \subseteq Below(p)
    BY <1>2, <1>4, <2>2
  <2>5. ~(Cardinality(Below(p)) < n)
    BY <1>1, <2>2
  <2>6. Cardinality(F) \in Nat /\ Below(p) = F
    BY <1>2, <1>3, <2>3, <2>4
  <2> HIDE DEF Below
  <2> QED BY <1>5, <2>5, <2>6
<1>7. F = {} => S = {}
  BY <1>6, FS_EmptySet
<1>8. IsFiniteSet(F)
  BY <1>2, <1>3
<1> QED BY <1>2, <1>4, <1>5, <1>6, <1>7, <1>8

\* Distinct numbers between two bounds are at most as many as the bounds allow.
LEMMA DistinctBetween ==
  ASSUME NEW S, NEW a \in Nat, NEW b \in Nat, a <= b,
         NEW h, \A x \in S : h[x] \in (a + 1)..b,
         \A x, y \in S : h[x] = h[y] => x = y
  PROVE  IsFiniteSet(S) /\ Cardinality(S) \in 0..(b - a)
<1> DEFINE g == [x \in S |-> h[x]]
           T == (a + 1)..b
<1>1. g \in Injection(S, T)
  BY DEF Injection, IsInjective
<1>2. IsFiniteSet(T) /\ Cardinality(T) = b - a
  <2>1. IsFiniteSet(T) /\ Cardinality(T) = IF a + 1 > b THEN 0 ELSE b - (a + 1) + 1
    BY FS_Interval
  <2> QED BY <2>1
<1> HIDE DEF g, T
<1>3. IsFiniteSet(S) /\ Cardinality(S) <= Cardinality(T)
  BY <1>1, <1>2, FS_Injection
<1> QED BY <1>2, <1>3, FS_CardinalityType

\* Induction over the natural numbers, for a set instead of a predicate.
LEMMA Induct ==
  ASSUME NEW G, 0 \in G, \A n \in Nat : n \in G => n + 1 \in G
  PROVE  Nat \subseteq G
<1> SUFFICES ASSUME Nat \ G # {} PROVE FALSE
  OBVIOUS
<1>1. PICK x \in Nat \ G : \A y \in Nat \ G : x <= y
  BY LeastNumber
<1>2. x # 0 /\ x - 1 \in Nat /\ x - 1 \notin Nat \ G
  BY <1>1
<1>3. (x - 1) + 1 = x
  BY <1>1
<1> QED BY <1>1, <1>2, <1>3

\* F[1], ... F[N] stay in S.
StaysIn(S, N, F) == \A n \in 1..N : \A x \in S : F[n][x] \in S

\* g has the value a at 0, and F[n] takes its value at n - 1 to the one at n.
Iterates(S, N, F, a, g) ==
  g \in [0..N -> S] /\ g[0] = a /\ \A n \in 1..N : g[n] = F[n][g[n - 1]]

\* A recursion over 0, 1, ... N has a solution.
LEMMA RecursionExists ==
  ASSUME NEW S, NEW a \in S, NEW N \in Nat, NEW F, StaysIn(S, N, F)
  PROVE  \E g : Iterates(S, N, F, a, g)
<1> DEFINE Solves(m, g) == /\ g \in [0..m -> S]
                           /\ g[0] = a
                           /\ \A n \in 1..m : g[n] = F[n][g[n - 1]]
           G == {m \in Nat : m <= N => \E g : Solves(m, g)}
<1>1. 0 \in G
  <2>1. Solves(0, [n \in 0..0 |-> a])
    OBVIOUS
  <2> QED BY <2>1
<1>2. ASSUME NEW m \in Nat, m \in G PROVE m + 1 \in G
  <2> SUFFICES ASSUME m + 1 <= N PROVE \E g : Solves(m + 1, g)
    OBVIOUS
  <2>1. PICK g : Solves(m, g)
    BY <1>2
  <2> DEFINE h == [n \in 0..(m + 1) |-> IF n = m + 1 THEN F[m + 1][g[m]] ELSE g[n]]
  <2>2. g[m] \in S /\ m + 1 \in 1..N
    BY <2>1
  <2>3. F[m + 1][g[m]] \in S
    BY <2>2 DEF StaysIn
  <2>4. h \in [0..(m + 1) -> S] /\ h[0] = a
    BY <2>1, <2>3
  <2>5. \A n \in 0..m : h[n] = g[n]
    OBVIOUS
  <2>6. h[m + 1] = F[m + 1][h[m]]
    BY <2>5
  <2>7. \A n \in 1..m : h[n] = F[n][h[n - 1]]
    BY <2>1, <2>5
  <2> HIDE DEF h
  <2>8. \A n \in 1..(m + 1) : h[n] = F[n][h[n - 1]]
    BY <2>6, <2>7
  <2> QED BY <2>4, <2>8
<1> HIDE DEF G, Solves
<1>3. N \in G
  BY <1>1, <1>2, Induct
<1>4. PICK g : Solves(N, g)
  BY <1>3 DEF G
<1> QED BY <1>4 DEF Solves, Iterates

\* Induction over the subsets of a finite set, one element at a time.
LEMMA InductSubsets ==
  ASSUME NEW S, IsFiniteSet(S), NEW G, {} \in G,
         \A T \in SUBSET S : T # {} /\ (\A x \in T : T \ {x} \in G) => T \in G
  PROVE  \A T \in SUBSET S : T \in G
<1> DEFINE N == {n \in Nat : \A T \in SUBSET S : Cardinality(T) <= n => T \in G}
<1>1. \A T \in SUBSET S : IsFiniteSet(T) /\ Cardinality(T) \in Nat
  BY FS_Subset, FS_CardinalityType
<1>2. 0 \in N
  <2>1. \A T \in SUBSET S : Cardinality(T) <= 0 => T = {}
    BY <1>1, FS_EmptySet
  <2> QED BY <2>1
<1>3. ASSUME NEW n \in Nat, n \in N PROVE n + 1 \in N
  <2>1. ASSUME NEW T \in SUBSET S, Cardinality(T) <= n + 1 PROVE T \in G
    <3>1. CASE T = {}
      BY <3>1
    <3>2. CASE T # {}
      <4>1. ASSUME NEW x \in T PROVE T \ {x} \in G
        <5>1. Cardinality(T \ {x}) = Cardinality(T) - 1
          BY <1>1, FS_RemoveElement
        <5>2. Cardinality(T \ {x}) <= n
          BY <1>1, <2>1, <5>1
        <5> QED BY <1>3, <5>2
      <4> QED BY <3>2, <4>1
    <3> QED BY <3>1, <3>2
  <2> QED BY <2>1
<1> HIDE DEF N
<1>4. Nat \subseteq N
  BY <1>2, <1>3, Induct
<1> QED BY <1>1, <1>4 DEF N

-----------------------------------------------------------------------------
(* The recursion behind SumFunction.                                       *)

Pick(s) == CHOOSE x \in s : TRUE

Adds(f, s, g) == IF s = {} THEN 0 ELSE f[Pick(s)] + g[s \ {Pick(s)}]

\* g sums f over every subset of S.
Sums(f, S, g) == g = [s \in SUBSET S |-> Adds(f, s, g)]

\* The sum of f over S, a subset of its domain.
SumOver(f, S) == (CHOOSE g : Sums(f, S, g))[S]

\* SumFunction is the sum over the whole domain.
LEMMA SumFunctionIsSumOver ==
  ASSUME NEW f
  PROVE  SumFunction(f) = SumOver(f, DOMAIN f)
BY DEF SumFunction, SumFunctionOnSet, FoldFunctionOnSet, MapThenFoldSet,
       SumOver, Sums, Adds, Pick

\* The recursion has a solution over every finite set.
LEMMA SumsExist ==
  ASSUME NEW f, NEW S, IsFiniteSet(S)
  PROVE  \E g : Sums(f, S, g)
<1> DEFINE Small(n) == {T \in SUBSET S : Cardinality(T) <= n}
           Solves(n, g) == g = [s \in Small(n) |-> Adds(f, s, g)]
           N == {n \in Nat : \E g : Solves(n, g)}
<1>1. \A T \in SUBSET S : IsFiniteSet(T) /\ Cardinality(T) \in Nat
  BY FS_Subset, FS_CardinalityType
<1>2. 0 \in N
  <2> DEFINE g == [s \in Small(0) |-> 0]
  <2>1. \A s \in Small(0) : s = {}
    BY <1>1, FS_EmptySet
  <2>2. \A s \in Small(0) : Adds(f, s, g) = 0
    BY <2>1 DEF Adds
  <2>3. Solves(0, g)
    BY <2>2
  <2> QED BY <2>3
<1>3. ASSUME NEW n \in Nat, n \in N PROVE n + 1 \in N
  <2>1. PICK g : Solves(n, g)
    BY <1>3
  <2> DEFINE h == [s \in Small(n + 1) |-> Adds(f, s, g)]
  <2>2. ASSUME NEW s \in Small(n + 1) PROVE Adds(f, s, g) = Adds(f, s, h)
    <3>1. CASE s = {}
      BY <3>1 DEF Adds
    <3>2. CASE s # {}
      <4> DEFINE r == s \ {Pick(s)}
      <4>1. Pick(s) \in s
        BY <3>2 DEF Pick
      <4>2. Cardinality(r) = Cardinality(s) - 1
        BY <1>1, <4>1, FS_RemoveElement
      <4>3. r \in Small(n) /\ r \in Small(n + 1)
        BY <1>1, <4>2
      <4>4. g[r] = Adds(f, r, g)
        <5>1. g = [x \in Small(n) |-> Adds(f, x, g)]
          BY <2>1
        <5> HIDE DEF Small, r
        <5> QED BY <4>3, <5>1
      <4>5. h[r] = Adds(f, r, g)
        BY <4>3
      <4> QED BY <3>2, <4>4, <4>5 DEF Adds
    <3> QED BY <3>1, <3>2
  <2>3. h = [s \in Small(n + 1) |-> Adds(f, s, h)]
    <3>1. [s \in Small(n + 1) |-> Adds(f, s, g)] = [s \in Small(n + 1) |-> Adds(f, s, h)]
      <4> HIDE DEF h, Small
      <4> QED BY <2>2
    <3> QED BY <3>1
  <2>4. Solves(n + 1, h)
    BY <2>3
  <2> HIDE DEF h, Solves
  <2> QED BY <2>4
<1> HIDE DEF N
<1>4. Cardinality(S) \in N
  BY <1>1, <1>2, <1>3, Induct
<1>5. PICK g : Solves(Cardinality(S), g)
  BY <1>4 DEF N
<1>6. Small(Cardinality(S)) = SUBSET S
  BY FS_Subset
<1>7. g = [s \in SUBSET S |-> Adds(f, s, g)]
  BY <1>5, <1>6
<1> QED BY <1>7 DEF Sums

\* Solutions for functions that agree on a set agree on its subsets.
LEMMA SumsAgree ==
  ASSUME NEW f, NEW S, NEW g, Sums(f, S, g),
         NEW f2, NEW S2, NEW g2, Sums(f2, S2, g2),
         NEW U, IsFiniteSet(U), U \subseteq S, U \subseteq S2,
         \A x \in U : f[x] = f2[x]
  PROVE  g[U] = g2[U]
<1> DEFINE G == {T \in SUBSET U : g[T] = g2[T]}
<1>1. ASSUME NEW T \in SUBSET U
      PROVE  g[T] = Adds(f, T, g) /\ g2[T] = Adds(f2, T, g2)
  BY DEF Sums
<1>2. {} \in G
  BY <1>1 DEF Adds
<1>3. ASSUME NEW T \in SUBSET U, \A x \in T : T \ {x} \in G
      PROVE  T \in G
  <2>1. CASE T = {}
    BY <1>2, <2>1
  <2>2. CASE T # {}
    <3>1. Pick(T) \in T
      BY <2>2 DEF Pick
    <3>2. g[T \ {Pick(T)}] = g2[T \ {Pick(T)}]
      BY <1>3, <3>1
    <3>3. f[Pick(T)] = f2[Pick(T)]
      BY <3>1
    <3> QED BY <1>1, <2>2, <3>2, <3>3 DEF Adds
  <2> QED BY <2>1, <2>2
<1> HIDE DEF G
<1>4. \A T \in SUBSET U : T \in G
  BY <1>2, <1>3, InductSubsets
<1> QED BY <1>4 DEF G

\* What SumOver is a solution of.
LEMMA SumOverUnfold ==
  ASSUME NEW f, NEW S, IsFiniteSet(S)
  PROVE  /\ SumOver(f, {}) = 0
         /\ S # {} => SumOver(f, S) = f[Pick(S)] + SumOver(f, S \ {Pick(S)})
<1> DEFINE G(T) == CHOOSE g : Sums(f, T, g)
<1>1. ASSUME NEW T, IsFiniteSet(T)
      PROVE  Sums(f, T, G(T))
  BY <1>1, SumsExist
<1>2. ASSUME NEW T, IsFiniteSet(T)
      PROVE  SumOver(f, T) = Adds(f, T, G(T))
  <2>1. SumOver(f, T) = G(T)[T]
    BY DEF SumOver
  <2>2. G(T) = [s \in SUBSET T |-> Adds(f, s, G(T))]
    BY <1>1, <1>2 DEF Sums
  <2> HIDE DEF G
  <2>3. T \in SUBSET T
    OBVIOUS
  <2>4. G(T)[T] = Adds(f, T, G(T))
    BY <2>2, <2>3
  <2> QED BY <2>1, <2>4
<1>3. SumOver(f, {}) = 0
  BY <1>2, FS_EmptySet DEF Adds
<1>4. ASSUME S # {}
      PROVE  SumOver(f, S) = f[Pick(S)] + SumOver(f, S \ {Pick(S)})
  <2> DEFINE R == S \ {Pick(S)}
  <2>1. IsFiniteSet(R)
    BY FS_RemoveElement
  <2>2. Sums(f, S, G(S)) /\ Sums(f, R, G(R))
    BY <1>1, <2>1
  <2>3. R \subseteq S
    OBVIOUS
  <2>4. SumOver(f, R) = G(R)[R]
    BY DEF SumOver
  <2>5. SumOver(f, S) = f[Pick(S)] + G(S)[R]
    BY <1>2, <1>4 DEF Adds
  <2> HIDE DEF G, R
  <2>6. G(S)[R] = G(R)[R]
    BY <2>1, <2>2, <2>3, SumsAgree
  <2> QED BY <2>4, <2>5, <2>6 DEF R
<1> QED BY <1>3, <1>4

\* A sum depends on the values of the function over the set only.
LEMMA SumOverAgree ==
  ASSUME NEW f, NEW f2, NEW S, IsFiniteSet(S), \A x \in S : f[x] = f2[x]
  PROVE  SumOver(f, S) = SumOver(f2, S)
<1> DEFINE g == CHOOSE h : Sums(f, S, h)
           g2 == CHOOSE h : Sums(f2, S, h)
<1>1. Sums(f, S, g) /\ Sums(f2, S, g2)
  BY SumsExist
<1> HIDE DEF g, g2
<1>2. g[S] = g2[S]
  BY <1>1, SumsAgree
<1> QED BY <1>2 DEF g, g2, SumOver

-----------------------------------------------------------------------------
(* The laws of sums of integers.                                           *)

\* A sum of integers is an integer.
LEMMA SumOverType ==
  ASSUME NEW f, NEW S, IsFiniteSet(S), \A x \in S : f[x] \in Int
  PROVE  SumOver(f, S) \in Int
<1> DEFINE G == {T \in SUBSET S : SumOver(f, T) \in Int}
<1>0. SumOver(f, {}) = 0
  BY SumOverUnfold
<1>1. {} \in G
  BY <1>0
<1>2. ASSUME NEW T \in SUBSET S, T # {}, \A x \in T : T \ {x} \in G
      PROVE  T \in G
  <2>1. Pick(T) \in T
    BY <1>2 DEF Pick
  <2>2. SumOver(f, T \ {Pick(T)}) \in Int /\ f[Pick(T)] \in Int
    BY <1>2, <2>1
  <2>3. IsFiniteSet(T)
    BY FS_Subset
  <2>4. SumOver(f, T) = f[Pick(T)] + SumOver(f, T \ {Pick(T)})
    BY <1>2, <2>3, SumOverUnfold
  <2> QED BY <2>2, <2>4
<1> HIDE DEF G
<1>3. \A T \in SUBSET S : T \in G
  BY <1>1, <1>2, InductSubsets
<1> QED BY <1>3 DEF G

\* Any element can be taken out first: the order of the sum is immaterial.
LEMMA SumOverRemove ==
  ASSUME NEW f, NEW S, IsFiniteSet(S), \A x \in S : f[x] \in Int,
         NEW e \in S
  PROVE  SumOver(f, S) = f[e] + SumOver(f, S \ {e})
<1> DEFINE G == {T \in SUBSET S : \A x \in T :
                   SumOver(f, T) = f[x] + SumOver(f, T \ {x})}
<1>1. {} \in G
  OBVIOUS
<1>2. ASSUME NEW T \in SUBSET S, T # {}, \A x \in T : T \ {x} \in G,
             NEW x \in T
      PROVE  SumOver(f, T) = f[x] + SumOver(f, T \ {x})
  <2> DEFINE p == Pick(T)
  <2>1. p \in T
    BY <1>2 DEF Pick
  <2>2. IsFiniteSet(T)
    BY FS_Subset
  <2>3. SumOver(f, T) = f[p] + SumOver(f, T \ {p})
    BY <1>2, <2>2, SumOverUnfold
  <2> HIDE DEF p
  <2>4. CASE x = p
    BY <2>3, <2>4
  <2>5. CASE x # p
    <3>1. SumOver(f, T \ {p}) = f[x] + SumOver(f, (T \ {p}) \ {x})
      BY <1>2, <2>1, <2>5
    <3>2. SumOver(f, T \ {x}) = f[p] + SumOver(f, (T \ {x}) \ {p})
      BY <1>2, <2>1, <2>5
    <3>3. (T \ {p}) \ {x} = (T \ {x}) \ {p}
      OBVIOUS
    <3>4. SumOver(f, (T \ {x}) \ {p}) = SumOver(f, (T \ {p}) \ {x})
      BY <3>3
    <3>5. SumOver(f, (T \ {p}) \ {x}) \in Int
      <4>1. IsFiniteSet((T \ {p}) \ {x})
        BY <2>2, FS_RemoveElement
      <4> QED BY <4>1, SumOverType
    <3>6. f[x] \in Int /\ f[p] \in Int
      BY <2>1
    <3> QED BY <2>3, <3>1, <3>2, <3>4, <3>5, <3>6
  <2> QED BY <2>4, <2>5
<1>3. ASSUME NEW T \in SUBSET S, T # {}, \A x \in T : T \ {x} \in G
      PROVE  T \in G
  BY <1>2, <1>3
<1> HIDE DEF G
<1>4. \A T \in SUBSET S : T \in G
  BY <1>1, <1>3, InductSubsets
<1>5. S \in G
  BY <1>4
<1> QED BY <1>5 DEF G
\* A sum splits over a subset and the rest.
LEMMA SumOverSplit ==
  ASSUME NEW f, NEW S, IsFiniteSet(S), \A x \in S : f[x] \in Int,
         NEW U \in SUBSET S
  PROVE  SumOver(f, S) = SumOver(f, U) + SumOver(f, S \ U)
<1> DEFINE G == {T \in SUBSET S : SumOver(f, S) = SumOver(f, T) + SumOver(f, S \ T)}
<1>1. ASSUME NEW T \in SUBSET S
      PROVE  IsFiniteSet(T) /\ SumOver(f, T) \in Int
  <2>1. IsFiniteSet(T)
    BY FS_Subset
  <2> QED BY <2>1, SumOverType
<1>2. {} \in G
  <2>1. SumOver(f, {}) = 0 /\ S \ {} = S /\ SumOver(f, S) \in Int
    BY <1>1, SumOverUnfold
  <2> QED BY <2>1
<1>3. ASSUME NEW T \in SUBSET S, T # {}, \A x \in T : T \ {x} \in G
      PROVE  T \in G
  <2>1. PICK x \in T : TRUE
    BY <1>3
  <2>2. SumOver(f, S) = SumOver(f, T \ {x}) + SumOver(f, S \ (T \ {x}))
    BY <1>3
  <2>3. SumOver(f, T) = f[x] + SumOver(f, T \ {x})
    BY <1>1, SumOverRemove
  <2>4. SumOver(f, S \ (T \ {x})) = f[x] + SumOver(f, S \ T)
    <3>1. x \in S \ (T \ {x}) /\ (S \ (T \ {x})) \ {x} = S \ T
      OBVIOUS
    <3>2. IsFiniteSet(S \ (T \ {x}))
      BY <1>1
    <3>3. \A y \in S \ (T \ {x}) : f[y] \in Int
      OBVIOUS
    <3>4. SumOver(f, S \ (T \ {x})) = f[x] + SumOver(f, (S \ (T \ {x})) \ {x})
      BY <3>1, <3>2, <3>3, SumOverRemove
    <3> QED BY <3>1, <3>4
  <2>5. /\ SumOver(f, T \ {x}) \in Int /\ SumOver(f, S \ T) \in Int
        /\ f[x] \in Int
    BY <1>1
  <2>6. SumOver(f, S) = SumOver(f, T) + SumOver(f, S \ T)
    BY <2>2, <2>3, <2>4, <2>5
  <2> QED BY <2>6
<1> HIDE DEF G
<1>4. \A T \in SUBSET S : T \in G
  BY <1>2, <1>3, InductSubsets
<1> QED BY <1>4 DEF G

\* A sum of natural numbers is at most the number of them times their bound.
LEMMA SumOverBound ==
  ASSUME NEW f, NEW S, IsFiniteSet(S), NEW B \in Nat, \A x \in S : f[x] \in 0..B
  PROVE  SumOver(f, S) \in 0..(Cardinality(S) * B)
<1> DEFINE G == {T \in SUBSET S : SumOver(f, T) \in 0..(Cardinality(T) * B)}
<1>1. \A T \in SUBSET S : IsFiniteSet(T) /\ Cardinality(T) \in Nat
  BY FS_Subset, FS_CardinalityType
<1>2. {} \in G
  <2>1. SumOver(f, {}) = 0 /\ Cardinality({}) = 0
    BY SumOverUnfold, FS_EmptySet
  <2> QED BY <2>1
<1>3. ASSUME NEW T \in SUBSET S, T # {}, \A x \in T : T \ {x} \in G
      PROVE  T \in G
  <2>1. PICK x \in T : TRUE
    BY <1>3
  <2> DEFINE v == SumOver(f, T \ {x})
             n == Cardinality(T \ {x})
  <2>2. n \in Nat /\ Cardinality(T) = n + 1
    BY <1>1, FS_RemoveElement
  <2>3. v \in 0..(n * B)
    BY <1>3
  <2>4. SumOver(f, T) = f[x] + v
    BY <1>1, SumOverRemove
  <2>5. f[x] \in 0..B
    OBVIOUS
  <2> HIDE DEF v, n
  <2>6. (n + 1) * B = n * B + B /\ n * B \in Nat
    BY <2>2
  <2>7. f[x] + v \in 0..((n + 1) * B)
    BY <2>3, <2>5, <2>6
  <2> QED BY <2>2, <2>4, <2>7
<1> HIDE DEF G
<1>4. \A T \in SUBSET S : T \in G
  BY <1>2, <1>3, InductSubsets
<1> QED BY <1>4 DEF G

\* A sum of natural numbers is a natural number.
LEMMA SumOverNat ==
  ASSUME NEW f, NEW S, IsFiniteSet(S), \A x \in S : f[x] \in Nat
  PROVE  SumOver(f, S) \in Nat
<1> DEFINE G == {T \in SUBSET S : SumOver(f, T) \in Nat}
<1>1. {} \in G
  <2>1. SumOver(f, {}) = 0
    BY SumOverUnfold
  <2> QED BY <2>1
<1>2. ASSUME NEW T \in SUBSET S, T # {}, \A x \in T : T \ {x} \in G
      PROVE  T \in G
  <2>1. PICK x \in T : TRUE
    BY <1>2
  <2>2. SumOver(f, T) = f[x] + SumOver(f, T \ {x})
    BY FS_Subset, SumOverRemove
  <2>3. SumOver(f, T \ {x}) \in Nat /\ f[x] \in Nat
    BY <1>2
  <2> QED BY <2>2, <2>3
<1> HIDE DEF G
<1>3. \A T \in SUBSET S : T \in G
  BY <1>1, <1>2, InductSubsets
<1> QED BY <1>3 DEF G

\* Terms that are zero can be left out.
LEMMA SumOverSupport ==
  ASSUME NEW f, NEW S, IsFiniteSet(S), \A x \in S : f[x] \in Int,
         NEW U \in SUBSET S, \A x \in S \ U : f[x] = 0
  PROVE  SumOver(f, S) = SumOver(f, U)
<1>1. IsFiniteSet(U) /\ IsFiniteSet(S \ U)
  BY FS_Subset
<1>2. SumOver(f, S \ U) = 0
  <2>1. SumOver(f, S \ U) \in 0..(Cardinality(S \ U) * 0)
    BY <1>1, SumOverBound
  <2>2. Cardinality(S \ U) \in Nat
    BY <1>1, FS_CardinalityType
  <2> QED BY <2>1, <2>2
<1>3. SumOver(f, U) \in Int
  BY <1>1, SumOverType
<1>4. SumOver(f, S) = SumOver(f, U) + SumOver(f, S \ U)
  BY SumOverSplit
<1> QED BY <1>2, <1>3, <1>4

\* Renaming the elements of the set by an injection does not change a sum.
LEMMA SumOverReindex ==
  ASSUME NEW f, NEW S, IsFiniteSet(S), \A x \in S : f[x] \in Int,
         NEW f2, NEW h, \A x \in S : f2[h[x]] = f[x],
         \A x, y \in S : h[x] = h[y] => x = y,
         NEW U, U = {h[x] : x \in S}
  PROVE  SumOver(f2, U) = SumOver(f, S)
<1> DEFINE Img(T) == {h[x] : x \in T}
           G == {T \in SUBSET S : IsFiniteSet(Img(T))
                                  /\ SumOver(f2, Img(T)) = SumOver(f, T)}
<1>1. {} \in G
  <2>1. Img({}) = {}
    OBVIOUS
  <2>2. SumOver(f, {}) = 0 /\ SumOver(f2, {}) = 0 /\ IsFiniteSet({})
    BY SumOverUnfold, FS_EmptySet
  <2> HIDE DEF Img
  <2> QED BY <2>1, <2>2
<1>2. ASSUME NEW T \in SUBSET S, T # {}, \A x \in T : T \ {x} \in G
      PROVE  T \in G
  <2>1. PICK x \in T : TRUE
    BY <1>2
  <2>2. h[x] \in Img(T) /\ Img(T) \ {h[x]} = Img(T \ {x})
    OBVIOUS
  <2>3. Img(T) = Img(T \ {x}) \cup {h[x]}
    OBVIOUS
  <2>4. \A y \in Img(T) : f2[y] \in Int
    OBVIOUS
  <2>5. IsFiniteSet(Img(T \ {x})) /\ SumOver(f2, Img(T \ {x})) = SumOver(f, T \ {x})
    BY <1>2
  <2>6. SumOver(f, T) = f[x] + SumOver(f, T \ {x})
    BY FS_Subset, SumOverRemove
  <2>7. f2[h[x]] = f[x]
    OBVIOUS
  <2> HIDE DEF Img
  <2>8. IsFiniteSet(Img(T))
    <3>1. IsFiniteSet(Img(T \ {x}) \cup {h[x]})
      BY <2>5, FS_AddElement
    <3> QED BY <2>3, <3>1
  <2>9. SumOver(f2, Img(T)) = f2[h[x]] + SumOver(f2, Img(T) \ {h[x]})
    BY <2>2, <2>4, <2>8, SumOverRemove
  <2>10. SumOver(f2, Img(T)) = SumOver(f, T)
    BY <2>2, <2>5, <2>6, <2>7, <2>9
  <2> QED BY <2>8, <2>10
<1> HIDE DEF G
<1>3. \A T \in SUBSET S : T \in G
  BY <1>1, <1>2, InductSubsets
<1>4. S \in G
  BY <1>3
<1> QED BY <1>4 DEF G
-----------------------------------------------------------------------------
(* Remainders.                                                             *)

\* Two numbers less than F apart with the same remainder are equal.
LEMMA SameRemainder ==
  ASSUME NEW F \in Nat, F > 0, NEW a \in Int, NEW b \in Int,
         a % F = b % F, a - b < F, b - a < F
  PROVE  a = b
<1> DEFINE q == a \div F
           r == b \div F
<1>1. a = F * q + (a % F) /\ b = F * r + (b % F) /\ q \in Int /\ r \in Int
  OBVIOUS
<1>2. a % F \in 0..(F - 1)
  OBVIOUS
<1> HIDE DEF q, r
<1>3. a - b = F * (q - r)
  <2>1. a - b = F * q - F * r
    BY <1>1
  <2>2. F * q - F * r = F * (q - r)
    BY <1>1
  <2> QED BY <2>1, <2>2
<1>4. q - r >= 1 => F * (q - r) >= F
  BY <1>1
<1>5. q - r <= -1 => F * (q - r) <= -F
  BY <1>1
<1>6. q = r
  BY <1>1, <1>3, <1>4, <1>5
<1> QED BY <1>1, <1>6
\* Adding the modulus does not change a remainder.
LEMMA RemainderPlus ==
  ASSUME NEW F \in Nat, F > 0, NEW a \in Int
  PROVE  (a + F) % F = a % F
<1> DEFINE q == a \div F
           r == (a + F) \div F
           m == a % F
           n == (a + F) % F
<1>1. a = F * q + m /\ q \in Int /\ m \in 0..(F - 1)
  OBVIOUS
<1>2. a + F = F * r + n /\ r \in Int /\ n \in 0..(F - 1)
  OBVIOUS
<1> HIDE DEF q, r, m, n
<1>3. F * (r - q - 1) = F * r - F * q - F
  BY <1>1, <1>2
<1>4. m - n = F * (r - q - 1)
  BY <1>1, <1>2, <1>3
<1>5. r - q - 1 >= 1 => F * (r - q - 1) >= F
  BY <1>1, <1>2
<1>6. r - q - 1 <= -1 => F * (r - q - 1) <= -F
  BY <1>1, <1>2
<1>7. r - q - 1 = 0
  BY <1>1, <1>2, <1>4, <1>5, <1>6
<1>8. m = n
  BY <1>1, <1>2, <1>4, <1>7
<1> QED BY <1>8 DEF m, n
\* A multiple of the modulus leaves no remainder.
LEMMA RemainderMultiple ==
  ASSUME NEW F \in Nat, F > 0, NEW x \in Int
  PROVE  (F * x) % F = 0
<1> DEFINE y == (F * x) \div F
           m == (F * x) % F
<1>1. F * x = F * y + m /\ y \in Int /\ m \in 0..(F - 1)
  OBVIOUS
<1> HIDE DEF y, m
<1>2. m = F * (x - y)
  BY <1>1
<1>3. x - y >= 1 => F * (x - y) >= F
  BY <1>1
<1>4. x - y <= -1 => F * (x - y) <= -F
  BY <1>1
<1>5. x - y = 0
  BY <1>1, <1>2, <1>3, <1>4
<1>6. m = 0
  BY <1>2, <1>5
<1> QED BY <1>6 DEF m

\* A number and its complement add up to a multiple of the modulus.
LEMMA Complement ==
  ASSUME NEW F \in Nat, F > 0, NEW s \in Nat, s < F
  PROVE  /\ (-s) % F = IF s = 0 THEN 0 ELSE F - s
         /\ (s + ((-s) % F)) % F = 0
<1> DEFINE t == -s
<1>1. t \in Int /\ t + F = F - s
  OBVIOUS
<1>2. (t + F) % F = t % F
  <2> HIDE DEF t
  <2> QED BY <1>1, RemainderPlus
<1>3. s # 0 => (F - s) % F = F - s
  OBVIOUS
<1>4. s = 0 => t % F = 0
  OBVIOUS
<1>5. t % F = IF s = 0 THEN 0 ELSE F - s
  BY <1>1, <1>2, <1>3, <1>4
<1>6. s + (t % F) = 0 \/ s + (t % F) = F
  BY <1>5
<1>7. 0 % F = 0 /\ F % F = 0
  <2>1. F * 1 = F /\ F * 0 = 0
    OBVIOUS
  <2>2. (F * 1) % F = 0 /\ (F * 0) % F = 0
    BY RemainderMultiple
  <2> QED BY <2>1, <2>2
<1> QED BY <1>5, <1>6, <1>7
=============================================================================
